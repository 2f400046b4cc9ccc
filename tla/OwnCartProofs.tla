----------------------------- MODULE OwnCartProofs -----------------------------
(***************************************************************************)
(* The carts of OnlineStore and who disturbs them.  Nothing locks a cart:  *)
(*   - what create_order read goes out of date before its insert only by a *)
(*     call of another session that serves the same customer, or of one    *)
(*     that nobody waits for, whatever else happens;                       *)
(*   - when no two sessions serve the same customer and none gives up on a *)
(*     call, the differences that a save computes from its grid are right, *)
(*     so no unit is lost between the stock, the carts and the orders.     *)
(***************************************************************************)
EXTENDS OnlineStoreProofs, SumTheorems

\* Whatever a session remembers or asks for belongs to its own customers.  A
\* call by bare id is about a line of the loop it is at.
Remembers(s) ==
    /\ userId[s] # NoUser => userId[s] \in UsersOf[s]
    /\ \A r \in shown[s] : r.user \in UsersOf[s]
    /\ \A e \in todo[s] : e.row.user \in UsersOf[s]

Asks(s) ==
    /\ call[s].op \in {"add_cart_item", "create_order", "insert_order"} =>
          call[s].user \in UsersOf[s]
    /\ call[s].op \in {"update_cart_item", "delete_cart_item"} =>
          \E e \in todo[s] : e.row.id = call[s].id

OwnInv == \A s \in Sessions : Remembers(s) /\ Asks(s)

\* What create_order has read is still the cart.
CurrentInv == \A s \in Sessions : Inserting(s) => UpToDate(s)

\* No two sessions serve the same customer; a session may serve several.
OwnCustomers ==
    \A s, t \in Sessions : s # t => UsersOf[s] \cap UsersOf[t] = {}

NobodyLate == late = {}

-----------------------------------------------------------------------------
\* Without time-outs no call outlives its session's patience.
LEMMA NobodyLateStep ==
  ASSUME "timeout" \notin Events
  PROVE  NobodyLate /\ [Next]_vars => NobodyLate'
<1> SUFFICES ASSUME NobodyLate, [Next]_vars PROVE NobodyLate'
  OBVIOUS
<1> USE DEF NobodyLate
<1>1. CASE UNCHANGED vars
  BY <1>1 DEF vars
<1>2. ASSUME NEW s \in Sessions, Script(s) \/ Abandon(s) PROVE late' = {}
  BY <1>2 DEF Script, AfterAddCart, AfterAddStock, SaveNextLine, AfterSaveStock,
              AfterSaveCart, AfterCreateOrder, CleanupNextRow, AfterCleanup, Abandon
<1>3. ASSUME NEW s \in Sessions, Click(s) PROVE late' = {}
  BY <1>3 DEF Click, ClickAddToCart, ListCartItems, ClickSaveChanges, ClickCreateOrder
<1>4. ASSUME NEW s \in Sessions, Service(s) \/ Refuse(s) \/ Timeout(s) PROVE late' = {}
  BY <1>4 DEF Service, Serve, ServeCreateOrder, Refuse, Timeout
<1>5. ASSUME NEW p \in Products, WithdrawProduct(p) PROVE late' = {}
  BY <1>5 DEF WithdrawProduct
<1> QED
  BY <1>1, <1>2, <1>3, <1>4, <1>5 DEF Next

\* A handler at work for a session leaves the carts of other customers alone:
\* what it adds has the customer of the call, and the identifier it updates or
\* deletes is, if a row of the cart has it at all, a row of that session.
LEMMA HandleStaysWithOwn ==
  ASSUME TypedInv, IdInv, NEW s \in Sessions, Remembers(s), Asks(s),
         NEW ok \in BOOLEAN, Handle(call[s], ok)
  PROVE  \A u : u \notin UsersOf[s] => CartOf(u)' = CartOf(u)
<1> SUFFICES ASSUME NEW u, u \notin UsersOf[s] PROVE CartOf(u)' = CartOf(u)
  OBVIOUS
<1> DEFINE c == call[s]
<1>i. ASSUME c.op \in {"update_cart_item", "delete_cart_item"}, NEW t \in cart, t.id = c.id
      PROVE  t.user # u
  <2>1. PICK e \in todo[s] : e.row.id = c.id
    BY <1>i DEF Asks
  <2>2. t.user = e.row.user
    BY <1>i, <2>1, RememberedIssued DEF SameRow
  <2> QED
    BY <2>2 DEF Remembers
<1>1. CASE AddCartItem(c, ok)
  <2>1. c.user # u
    BY <1>1 DEF AddCartItem, Asks
  <2> QED
    BY <1>1, <2>1 DEF AddCartItem, CartOf
<1>2. CASE UpdateCartItem(c, ok)
  <2>1. \A t \in cart : t.id = c.id => t.user # u
    BY <1>2, <1>i DEF UpdateCartItem
  <2>2. \A t \in cart : [t EXCEPT !.qty = c.qty].user = t.user
    BY DEF TypedInv, DbTyped, Row
  <2>3. cart' = {IF r.id = c.id THEN [r EXCEPT !.qty = c.qty] ELSE r : r \in cart}
    BY <1>2 DEF UpdateCartItem
  <2>4. ASSUME NEW t, t \in CartOf(u) PROVE t \in CartOf(u)'
    BY <2>1, <2>3, <2>4 DEF CartOf
  <2>5. ASSUME NEW t, t \in CartOf(u)' PROVE t \in CartOf(u)
    BY <2>1, <2>2, <2>3, <2>5 DEF CartOf
  <2> QED
    BY <2>4, <2>5
<1>3. CASE DeleteCartItem(c, ok)
  <2>1. \A t \in cart : t.id = c.id => t.user # u
    BY <1>3, <1>i DEF DeleteCartItem
  <2> QED
    BY <1>3, <2>1 DEF DeleteCartItem, CartOf
<1>4. CASE UpdateStock(c, ok) \/ InsertOrder(c, ok)
  BY <1>4 DEF UpdateStock, InsertOrder, CartOf
<1> QED
  BY <1>1, <1>2, <1>3, <1>4 DEF Handle

\* What a session remembers and asks for survives a step of somebody else.
LEMMA OthersKeepOwn ==
  ASSUME NEW s \in Sessions, Remembers(s), Asks(s),
         userId'[s] = userId[s], shown'[s] = shown[s], todo'[s] = todo[s], call'[s] = call[s]
  PROVE  Remembers(s)' /\ Asks(s)'
  BY DEF Remembers, Asks

\* The script of a session keeps it: it asks for the line it is at, and a loop
\* goes over its own grid.
LEMMA ScriptKeepsOwn ==
  ASSUME TypedInv, OwnInv, NEW s \in Sessions, Script(s)
  PROVE  OwnInv'
<1>u. UiTyped /\ FlowInv
  BY DEF TypedInv
<1>s. Remembers(s)
  BY DEF OwnInv
<1>o. ASSUME NEW x \in Sessions, x # s
      PROVE  Remembers(x)' /\ Asks(x)'
  <2>1. /\ shown'[x] = shown[x] /\ todo'[x] = todo[x] /\ userId'[x] = userId[x]
        /\ call'[x] = call[x]
    BY <1>o, <1>u
    DEF Script, AfterAddCart, AfterAddStock, SaveNextLine, AfterSaveStock, AfterSaveCart,
        AfterCreateOrder, CleanupNextRow, AfterCleanup, Send, Goto, Stop, ClearAndStop, UiTyped
  <2> QED
    BY <2>1, OthersKeepOwn DEF OwnInv
<1> SUFFICES Remembers(s)' /\ Asks(s)'
  BY <1>o DEF OwnInv
<1>1. CASE Stop(s) \/ ClearAndStop(s)
  <2>1. /\ call'[s] = NoCall /\ todo'[s] = {}
        /\ userId'[s] = userId[s] \/ userId'[s] = NoUser
        /\ shown'[s] = shown[s] \/ shown'[s] = {}
    BY <1>1, <1>u DEF Stop, ClearAndStop, Goto, UiTyped
  <2> QED
    BY <1>s, <2>1 DEF Remembers, Asks, NoCall
<1>2. ASSUME NEW c, NEW at, Send(s, c, at), UNCHANGED <<userId, shown, todo>>,
             \/ c.op = "update_stock"
             \/ c.op \in {"update_cart_item", "delete_cart_item"} /\ \E e \in todo[s] : e.row.id = c.id
      PROVE  Remembers(s)' /\ Asks(s)'
  <2>1. call'[s] = c
    BY <1>2, <1>u DEF Send, UiTyped
  <2> QED
    BY <1>2, <1>s, <2>1 DEF Remembers, Asks
<1>3. ASSUME NEW at, Goto(s, at), UNCHANGED <<userId, shown>>,
             \A e \in todo'[s] : e \in todo[s] \/ e.row \in shown[s]
      PROVE  Remembers(s)' /\ Asks(s)'
  <2>1. call'[s] = NoCall
    BY <1>3, <1>u DEF Goto, UiTyped
  <2> QED
    BY <1>3, <1>s, <2>1 DEF Remembers, Asks, NoCall
<1>4. ASSUME NEW at, Goto(s, at), UNCHANGED <<userId, shown>>,
             todo' = [todo EXCEPT ![s] = @ \ {Current(s)}]
      PROVE  Remembers(s)' /\ Asks(s)'
  <2>1. todo'[s] \subseteq todo[s]
    BY <1>4, <1>u DEF UiTyped
  <2> QED
    BY <1>3, <1>4, <2>1
<1>5. /\ \A p, d : StockCall(p, d).op = "update_stock"
      /\ \A i : DeleteCall(i).op = "delete_cart_item" /\ DeleteCall(i).id = i
      /\ \A i, q : PutCall(i, q).op = "update_cart_item" /\ PutCall(i, q).id = i
  BY DEF StockCall, DeleteCall, PutCall
<1>6. CASE AfterAddCart(s)
  BY <1>1, <1>2, <1>5, <1>6 DEF AfterAddCart
<1>7. CASE AfterAddStock(s)
  BY <1>1, <1>7 DEF AfterAddStock
<1>8. CASE SaveNextLine(s)
  BY <1>1, <1>2, <1>5, <1>8 DEF SaveNextLine
<1>9. CASE AfterSaveStock(s)
  <2>1. Current(s) \in todo[s]
    BY <1>u, <1>9, LineTyped DEF AfterSaveStock, AtLine
  <2>2. ASSUME Send(s, IF Current(s).delete THEN DeleteCall(Current(s).row.id)
                       ELSE PutCall(Current(s).row.id, Current(s).qty), "save_cart"),
               UNCHANGED <<userId, shown, todo>>
        PROVE  Remembers(s)' /\ Asks(s)'
    BY <1>2, <1>5, <2>1, <2>2
  <2> QED
    BY <1>1, <1>4, <1>9, <2>2 DEF AfterSaveStock
<1>10. CASE AfterSaveCart(s)
  BY <1>1, <1>4, <1>10 DEF AfterSaveCart
<1>11. CASE AfterCreateOrder(s)
  <2>1. ASSUME Goto(s, "cleanup_next"), UNCHANGED <<userId, shown>>,
               todo' = [todo EXCEPT ![s] =
                          {[row |-> r, delete |-> TRUE, qty |-> r.qty] : r \in shown[s]}]
        PROVE  Remembers(s)' /\ Asks(s)'
    <3>1. \A e \in todo'[s] : e.row \in shown[s]
      BY <1>u, <2>1 DEF UiTyped
    <3> QED
      BY <1>3, <2>1, <3>1
  <2> QED
    BY <1>1, <1>11, <2>1 DEF AfterCreateOrder
<1>12. CASE CleanupNextRow(s)
  <2>1. CASE todo[s] # {}
    <3>1. Current(s) \in todo[s]
      BY <1>u, <2>1, LineTyped
    <3> QED
      BY <1>2, <1>5, <1>12, <2>1, <3>1 DEF CleanupNextRow
  <2> QED
    BY <1>1, <1>12, <2>1 DEF CleanupNextRow
<1>13. CASE AfterCleanup(s)
  BY <1>1, <1>4, <1>13 DEF AfterCleanup
<1> QED
  BY <1>6, <1>7, <1>8, <1>9, <1>10, <1>11, <1>12, <1>13 DEF Script

\* A run that is abandoned keeps its grid and asks for nothing more.
LEMMA AbandonKeepsOwn ==
  ASSUME TypedInv, OwnInv, NEW s \in Sessions, Abandon(s)
  PROVE  OwnInv'
<1>1. /\ call'[s] = NoCall /\ todo'[s] = {} /\ UNCHANGED shown
      /\ userId'[s] = userId[s] \/ userId'[s] = NoUser
      /\ \A x \in Sessions \ {s} :
            call'[x] = call[x] /\ userId'[x] = userId[x] /\ todo'[x] = todo[x]
  BY AbandonEndsFlow DEF TypedInv
<1>2. Remembers(s)' /\ Asks(s)'
  BY <1>1 DEF OwnInv, Remembers, Asks, NoCall
<1>3. ASSUME NEW x \in Sessions \ {s} PROVE Remembers(x)' /\ Asks(x)'
  BY <1>1, OthersKeepOwn DEF OwnInv
<1> QED
  BY <1>2, <1>3 DEF OwnInv

\* Clicks keep it: a session loads, orders and adds for its own customers.
LEMMA ClickKeepsOwn ==
  ASSUME TypedInv, OwnInv, NEW s \in Sessions, Click(s)
  PROVE  OwnInv'
<1>u. UiTyped
  BY DEF TypedInv
<1>s. Remembers(s) /\ Asks(s)
  BY DEF OwnInv
<1>o. ASSUME NEW x \in Sessions, x # s
      PROVE  Remembers(x)' /\ Asks(x)'
  <2>1. /\ shown'[x] = shown[x] /\ todo'[x] = todo[x] /\ userId'[x] = userId[x]
        /\ call'[x] = call[x]
    BY <1>o, <1>u
    DEF Click, ClickAddToCart, ListCartItems, ClickSaveChanges, ClickCreateOrder,
        Send, Goto, UiTyped
  <2> QED
    BY <2>1, OthersKeepOwn DEF OwnInv
<1> SUFFICES Remembers(s)' /\ Asks(s)'
  BY <1>o DEF OwnInv
<1>1. ASSUME NEW u \in UsersOf[s], ListCartItems(s, u)
      PROVE  Remembers(s)' /\ Asks(s)'
  <2>1. /\ userId'[s] = u /\ (shown'[s] = shown[s] \/ shown'[s] = CartOf(u))
        /\ UNCHANGED <<todo, call>>
    BY <1>1, <1>u DEF ListCartItems, UiTyped
  <2> QED
    BY <1>s, <2>1 DEF Remembers, Asks, CartOf
<1>2. ASSUME NEW u \in UsersOf[s], NEW p \in Products, NEW q \in Quantities,
             ClickAddToCart(s, u, p, q)
      PROVE  Remembers(s)' /\ Asks(s)'
  <2>1. call'[s] = AddCall(u, p, q) /\ UNCHANGED <<userId, shown, todo>>
    BY <1>2, <1>u DEF ClickAddToCart, Send, UiTyped
  <2> QED
    BY <1>s, <2>1 DEF Remembers, Asks, AddCall
<1>3. CASE ClickSaveChanges(s)
  <2>1. PICK edits \in Edits(s) : todo' = [todo EXCEPT ![s] = edits]
    BY <1>3 DEF ClickSaveChanges
  <2>2. /\ \A e \in todo'[s] : e.row \in shown[s]
        /\ call'[s] = NoCall /\ UNCHANGED <<userId, shown>>
    BY <1>3, <1>u, <2>1 DEF ClickSaveChanges, Goto, Edits, UiTyped
  <2> QED
    BY <1>s, <2>2 DEF Remembers, Asks, NoCall
<1>4. CASE ClickCreateOrder(s)
  <2>1. /\ call'[s] = OrderCall(userId[s]) /\ userId[s] # NoUser
        /\ UNCHANGED <<userId, shown, todo>>
    BY <1>4, <1>u DEF ClickCreateOrder, Send, UiTyped
  <2> QED
    BY <1>s, <2>1 DEF Remembers, Asks, OrderCall
<1> QED
  BY <1>1, <1>2, <1>3, <1>4 DEF Click

\* The first half of create_order asks on for the same customer.
LEMMA ReadKeepsOwn ==
  ASSUME TypedInv, OwnInv, NEW s \in Sessions, ServeCreateOrder(s)
  PROVE  OwnInv'
<1>u. UiTyped
  BY DEF TypedInv
<1>1. /\ UNCHANGED <<userId, shown, todo>>
      /\ call[s].op = "create_order" /\ call[s].user \in UsersOf[s]
      /\ \/ call'[s] = call[s]
         \/ call'[s] = InsertCall(call[s].user, CartOf(call[s].user))
      /\ \A x \in Sessions \ {s} : call'[x] = call[x]
  BY <1>u DEF ServeCreateOrder, UiTyped, OwnInv, Asks
<1>2. Remembers(s)' /\ Asks(s)'
  BY <1>1 DEF OwnInv, Remembers, Asks, InsertCall
<1>3. ASSUME NEW x \in Sessions \ {s} PROVE Remembers(x)' /\ Asks(x)'
  BY <1>1, OthersKeepOwn DEF OwnInv
<1> QED
  BY <1>2, <1>3 DEF OwnInv

-----------------------------------------------------------------------------
\* Nobody remembers, asks or is late in the beginning.
LEMMA OwnInit == Init => OwnInv /\ CurrentInv /\ NobodyLate
  BY DEF Init, OwnInv, Remembers, Asks, CurrentInv, Inserting, NoCall, NobodyLate

\* Every step keeps what the sessions have of their own.
LEMMA OwnStep == TypedInv /\ OwnInv /\ [Next]_vars => OwnInv'
<1> SUFFICES ASSUME TypedInv, OwnInv, [Next]_vars PROVE OwnInv'
  OBVIOUS
<1>1. UNCHANGED <<userId, shown, todo, call>> => OwnInv'
  BY OthersKeepOwn DEF OwnInv
<1>2. CASE UNCHANGED vars
  BY <1>1, <1>2 DEF vars, ui
<1>3. ASSUME NEW s \in Sessions, Serve(s) \/ Refuse(s) \/ Timeout(s) PROVE OwnInv'
  BY <1>1, <1>3 DEF Serve, Refuse, Timeout
<1>4. ASSUME NEW l \in late, LateService(l) PROVE OwnInv'
  BY <1>1, <1>4 DEF LateService, ServeLate, ServeCreateOrderLate, Lose, ui
<1>5. ASSUME NEW p \in Products, WithdrawProduct(p) PROVE OwnInv'
  BY <1>1, <1>5 DEF WithdrawProduct, ui
<1> QED
  BY <1>2, <1>3, <1>4, <1>5, ScriptKeepsOwn, AbandonKeepsOwn, ClickKeepsOwn, ReadKeepsOwn
  DEF Next, Service

\* The one way in which a step makes what create_order read out of date.
Outdates(s) ==
    \/ \E t \in Sessions \ {s} : call'[s].user \in UsersOf[t] /\ AnsweredNow(t)
    \/ \E l \in late \ late' : l.call.op \in CartCalls

\* A handler that does not serve a call about a cart leaves all carts alone.
LEMMA OtherCallsKeepCarts ==
  ASSUME NEW c, NEW ok \in BOOLEAN, Handle(c, ok), c.op \notin CartCalls
  PROVE  cart' = cart
  BY DEF Handle, AddCartItem, UpdateCartItem, DeleteCartItem, UpdateStock, InsertOrder, CartCalls

\* A read stays up to date in a step that leaves carts and call as they are.
LEMMA ReadStays ==
  ASSUME NEW s \in Sessions, NEW u, Inserting(s)', Inserting(s) => UpToDate(s),
         call'[s] = call[s], reply'[s] = reply[s] \/ reply'[s] # "none",
         u = call[s].user, CartOf(u)' = CartOf(u)
  PROVE  UpToDate(s)'
  BY DEF Inserting, UpToDate, CartOf

\* Only such steps do: a session starts to insert with the cart it just read,
\* and a handler at work for a session stays with the customers of that one.
LEMMA ReadOutdated ==
  ASSUME TypedInv, IdInv, OwnInv, Next, NEW s \in Sessions,
         Inserting(s)', Inserting(s) => UpToDate(s)
  PROVE  UpToDate(s)' \/ Outdates(s)
<1>u. UiTyped
  BY DEF TypedInv
<1> PICK u : u = call[s].user
  OBVIOUS
<1>c. cart' = cart => CartOf(u)' = CartOf(u)
  BY DEF CartOf
<1>1. ASSUME NEW x \in Sessions, Script(x) \/ Click(x) PROVE UpToDate(s)'
  <2>1. cart' = cart
    BY <1>1
    DEF Script, AfterAddCart, AfterAddStock, SaveNextLine, AfterSaveStock, AfterSaveCart,
        AfterCreateOrder, CleanupNextRow, AfterCleanup, Click, ClickAddToCart, ListCartItems,
        ClickSaveChanges, ClickCreateOrder, db
  <2>2. CASE x = s
    <3>1. \/ call'[s] = call[s] /\ reply'[s] = reply[s]
          \/ call'[s].op # "insert_order"
      BY <1>1, <1>u, <2>2
      DEF Script, AfterAddCart, AfterAddStock, SaveNextLine, AfterSaveStock, AfterSaveCart,
          AfterCreateOrder, CleanupNextRow, AfterCleanup, Click, ClickAddToCart, ListCartItems,
          ClickSaveChanges, ClickCreateOrder, Send, Goto, Stop, ClearAndStop, UiTyped,
          NoCall, StockCall, DeleteCall, PutCall, AddCall, OrderCall
    <3> QED
      BY <1>c, <2>1, <3>1, ReadStays DEF Inserting
  <2>3. CASE x # s
    <3>1. call'[s] = call[s] /\ reply'[s] = reply[s]
      BY <1>1, <1>u, <2>3
      DEF Script, AfterAddCart, AfterAddStock, SaveNextLine, AfterSaveStock, AfterSaveCart,
          AfterCreateOrder, CleanupNextRow, AfterCleanup, Click, ClickAddToCart, ListCartItems,
          ClickSaveChanges, ClickCreateOrder, Send, Goto, Stop, ClearAndStop, UiTyped
    <3> QED
      BY <1>c, <2>1, <3>1, ReadStays
  <2> QED
    BY <2>2, <2>3
<1>2. ASSUME NEW x \in Sessions, Serve(x) PROVE UpToDate(s)' \/ Outdates(s)
  <2>1. PICK ok \in BOOLEAN :
           /\ Handle(call[x], ok)
           /\ reply' = [reply EXCEPT ![x] = IF ok THEN "ok" ELSE "refused"]
    BY <1>2 DEF Serve
  <2>2. call' = call /\ reply[x] = "none" /\ reply'[x] # "none"
    BY <1>2, <1>u, <2>1 DEF Serve, UiTyped
  <2>3. x # s
    BY <2>2 DEF Inserting
  <2>4. reply'[s] = reply[s]
    BY <1>u, <2>1, <2>3 DEF UiTyped
  <2>5. CASE u \notin UsersOf[x]
    <3>1. CartOf(u)' = CartOf(u)
      BY <2>1, <2>5, HandleStaysWithOwn DEF OwnInv
    <3> QED
      BY <2>2, <2>4, <3>1, ReadStays
  <2>6. CASE call[x].op \notin CartCalls
    BY <1>c, <2>1, <2>2, <2>4, <2>6, OtherCallsKeepCarts, ReadStays
  <2>7. CASE u \in UsersOf[x] /\ call[x].op \in CartCalls
    BY <2>2, <2>3, <2>7 DEF Outdates, AnsweredNow
  <2> QED
    BY <2>5, <2>6, <2>7
<1>3. ASSUME NEW x \in Sessions, ServeCreateOrder(x) PROVE UpToDate(s)'
  <2>1. cart' = cart
    BY <1>3 DEF ServeCreateOrder, db
  <2>2. \/ call'[s] = call[s] /\ (reply'[s] = reply[s] \/ reply'[s] # "none")
        \/ call'[s] = InsertCall(call[s].user, CartOf(call[s].user))
    BY <1>3, <1>u DEF ServeCreateOrder, UiTyped
  <2>3. CASE call'[s] = InsertCall(call[s].user, CartOf(call[s].user))
    BY <2>1, <2>3 DEF UpToDate, InsertCall, CartOf
  <2> QED
    BY <1>c, <2>1, <2>2, <2>3, ReadStays
<1>4. ASSUME NEW x \in Sessions, Refuse(x) \/ Timeout(x) PROVE UpToDate(s)'
  <2>1. cart' = cart /\ call' = call /\ (reply'[s] = reply[s] \/ reply'[s] # "none")
    BY <1>4, <1>u DEF Refuse, Timeout, db, UiTyped
  <2> QED
    BY <1>c, <2>1, ReadStays
<1>5. ASSUME NEW l \in late, LateService(l) PROVE UpToDate(s)' \/ Outdates(s)
  <2>1. UNCHANGED <<call, reply>>
    BY <1>5 DEF LateService, ServeLate, ServeCreateOrderLate, Lose, ui
  <2>2. CASE cart' = cart
    BY <1>c, <2>1, <2>2, ReadStays
  <2>3. CASE cart' # cart
    <3>1. ServeLate(l)
      BY <1>5, <2>3 DEF LateService, ServeCreateOrderLate, Lose, db
    <3>2. l.call.op \in CartCalls /\ l \in late \ late'
      BY <2>3, <3>1, OtherCallsKeepCarts DEF ServeLate
    <3> QED
      BY <3>2 DEF Outdates
  <2> QED
    BY <2>2, <2>3
<1>6. ASSUME NEW p \in Products, WithdrawProduct(p) PROVE UpToDate(s)'
  <2>1. UNCHANGED <<cart, call, reply>>
    BY <1>6 DEF WithdrawProduct, ui
  <2> QED
    BY <1>c, <2>1, ReadStays
<1>7. ASSUME NEW x \in Sessions, Abandon(x) PROVE UpToDate(s)'
  <2>1. /\ cart' = cart
        /\ \/ call'[s] = call[s] /\ reply'[s] = reply[s]
           \/ call'[s] = NoCall
    BY <1>7, <1>u, AbandonEndsFlow DEF db
  <2> QED
    BY <1>c, <2>1, ReadStays DEF Inserting, NoCall
<1> QED
  BY <1>1, <1>2, <1>3, <1>4, <1>5, <1>6, <1>7 DEF Next, Service

\* For every instance, with carts that sessions share, time-outs, refusals,
\* abandoned runs and grids of any age: what create_order read is the cart of
\* its customer until a call about a cart of a session that serves this
\* customer too, or of one that gave up, is served.
THEOREM ReadsOutdatedBySharers == Spec => OutdatedBySharers
<1>1. TypedInv /\ IdInv /\ OwnInv /\ [Next]_vars => TypedInv' /\ IdInv' /\ OwnInv'
  BY TypedStep, IdStep, OwnStep
<1>2. Init => TypedInv /\ IdInv /\ OwnInv
  BY TypedInit, IdInit, OwnInit
<1>3. TypedInv /\ IdInv /\ OwnInv /\ [Next]_vars =>
        [\A s \in Sessions :
            Inserting(s)' /\ (Inserting(s) => UpToDate(s)) =>
               \/ UpToDate(s)'
               \/ \E t \in Sessions \ {s} : call'[s].user \in UsersOf[t] /\ AnsweredNow(t)
               \/ \E l \in late \ late' : l.call.op \in CartCalls]_vars
  BY ReadOutdated DEF Outdates
<1> QED
  BY <1>1, <1>2, <1>3, PTL DEF Spec, OutdatedBySharers

\* Without sharers and without calls that outlive their session it stays so.
LEMMA CurrentStep ==
  ASSUME OwnCustomers
  PROVE  TypedInv /\ IdInv /\ OwnInv /\ CurrentInv /\ NobodyLate /\ [Next]_vars => CurrentInv'
<1> SUFFICES ASSUME TypedInv, IdInv, OwnInv, CurrentInv, NobodyLate, [Next]_vars,
                    NEW s \in Sessions, Inserting(s)'
             PROVE  UpToDate(s)'
  BY DEF CurrentInv
<1>1. CASE UNCHANGED vars
  BY <1>1 DEF vars, db, ui, CurrentInv, Inserting, UpToDate, CartOf
<1>2. CASE Next
  <2>1. UpToDate(s)' \/ Outdates(s)
    BY <1>2, ReadOutdated DEF CurrentInv
  <2>2. call'[s].user \in UsersOf[s]
    BY OwnStep DEF OwnInv, Asks, Inserting
  <2> QED
    BY <2>1, <2>2 DEF Outdates, OwnCustomers, NobodyLate
<1> QED
  BY <1>1, <1>2

-----------------------------------------------------------------------------
(***************************************************************************)
(* No unit is lost.  The units of a product are in the stock, in carts and *)
(* in orders; in the middle of a flow they can be in two of these at once  *)
(* or, between the two calls of a save, in none.  `Due' is what a flow has *)
(* yet to put into the sum (or, if negative, to take out of it).           *)
(***************************************************************************)
Rows(lines) == {e.row : e \in lines}

\* The lines a loop has not dealt with.
Left(s) ==
    IF pc[s] \in {"save_cart", "cleanup"} /\ reply[s] # "none"
    THEN todo[s] \ {Current(s)} ELSE todo[s]

\* Between the two calls of a save.
HalfSaved(s) ==
    \/ pc[s] = "save_stock" /\ reply[s] = "ok"
    \/ pc[s] = "save_cart" /\ reply[s] = "none"

LineDue(e) == IF e.delete THEN 0 - e.row.qty ELSE e.qty - e.row.qty

Due(s, p) ==
    IF pc[s] = "add_cart" /\ reply[s] = "ok"
    THEN IF call[s].product = p THEN 0 - call[s].qty ELSE 0
    ELSE IF pc[s] = "add_stock" /\ reply[s] = "none"
    THEN IF call[s].product = p THEN call[s].change ELSE 0
    ELSE IF HalfSaved(s)
    THEN IF Current(s).row.product = p THEN LineDue(Current(s)) ELSE 0
    ELSE IF pc[s] = "order" /\ reply[s] = "ok" THEN 0 - UnitsIn(shown[s], p)
    ELSE IF Cleaning(s) THEN 0 - UnitsIn(Rows(Left(s)), p)
    ELSE 0

Dues(p) == [s \in Sessions |-> Due(s, p)]

Balanced ==
    \A p \in Products :
        stock[p] + UnitsIn(cart, p) + Ordered(p) + SumFunctionOnSet(Dues(p), Sessions)
          >= supply[p]

\* The tables: finite, with identifiers used once.
TableInv ==
    /\ IsFiniteSet(cart) /\ IsFiniteSet(orders) /\ \A o \in orders : IsFiniteSet(o.items)
    /\ \A r, t \in cart : r.id = t.id => r = t
    /\ \A o \in orders : o.id <= orderSeq

\* The grid and the lines that are left are rows of the cart as they are, so
\* the differences a save computes are right.
GridIsCart(s) ==
    /\ pc[s] \in {"idle", "add_cart", "add_stock", "order"} =>
          shown[s] \subseteq cart /\ todo[s] = {}
    /\ Rows(Left(s)) \subseteq cart
    /\ \A e, f \in todo[s] : e.row = f.row => e = f
    /\ pc[s] \in {"save_next", "save_stock", "save_cart"} =>
          \A e \in todo[s] : e.delete => e.qty = e.row.qty

\* The call a script waits for is the one its place in the flow has made.
WaitsFor(s) ==
    /\ pc[s] \in {"idle", "save_next", "cleanup_next"} => call[s] = NoCall
    /\ pc[s] = "add_cart" => call[s].op = "add_cart_item"
    /\ pc[s] = "add_stock" => call[s].op = "update_stock" /\ call[s].change <= 0
    /\ pc[s] = "save_stock" =>
          call[s] = StockCall(Current(s).row.product,
                              IF Current(s).delete THEN Current(s).qty
                              ELSE Current(s).row.qty - Current(s).qty)
    /\ pc[s] = "save_cart" =>
          call[s] = IF Current(s).delete THEN DeleteCall(Current(s).row.id)
                                         ELSE PutCall(Current(s).row.id, Current(s).qty)
    /\ pc[s] = "order" => call[s].op \in {"create_order", "insert_order"}
    /\ pc[s] = "cleanup" => call[s] = DeleteCall(Current(s).row.id)

\* Only the stock and an empty cart refuse, and nobody waits in vain.
Answered(s) ==
    /\ reply[s] \in {"none", "ok", "refused"}
    /\ reply[s] = "refused" => pc[s] \in {"add_stock", "save_stock", "order"}
    /\ pc[s] \in {"idle", "save_next", "cleanup_next"} => reply[s] = "none"

FlowsInv == \A s \in Sessions : GridIsCart(s) /\ WaitsFor(s) /\ Answered(s)

SingleCustomer == \A s \in Sessions : \A u, v \in UsersOf[s] : u = v

\* What the arguments below assume: each session serves a customer of its own
\* and nothing but a withdrawal of products happens beside clicks and answers.
Undisturbed ==
    /\ OwnCustomers /\ SingleCustomer
    /\ Events \subseteq {"withdraw"}
    /\ IsFiniteSet(Sessions)

StoreInv ==
    TypedInv /\ IdInv /\ OwnInv /\ CurrentInv /\ NobodyLate /\ TableInv /\ FlowsInv

-----------------------------------------------------------------------------
\* Units of a product among rows.
LEMMA UnitsOfRows ==
  ASSUME NEW rows \in SUBSET Row, IsFiniteSet(rows), NEW p
  PROVE  /\ UnitsIn(rows, p) \in Nat
         /\ \A part \in SUBSET rows : UnitsIn(part, p) \in Nat /\ UnitsIn(part, p) <= UnitsIn(rows, p)
         /\ \A r \in rows :
               UnitsIn(rows, p) = UnitsIn(rows \ {r}, p) + IF r.product = p THEN r.qty ELSE 0
<1> DEFINE of(part) == {r \in part : r.product = p}
<1>1. ASSUME NEW part \in SUBSET rows
      PROVE  IsFiniteSet(of(part)) /\ of(part) \in SUBSET of(rows) /\ \A r \in of(part) : Qty[r] \in Nat /\ Qty[r] \in Int
  BY FS_Subset DEF Qty, Row
<1>2. \A part : UnitsIn(part, p) = SumFunctionOnSet(Qty, of(part))
  BY DEF UnitsIn
<1>3. ASSUME NEW part \in SUBSET rows
      PROVE  UnitsIn(part, p) \in Nat /\ UnitsIn(part, p) <= UnitsIn(rows, p)
  <2> HIDE DEF of
  <2> QED
    BY <1>1, <1>2, SumSubset
<1>4. ASSUME NEW r \in rows
      PROVE  UnitsIn(rows, p) = UnitsIn(rows \ {r}, p) + IF r.product = p THEN r.qty ELSE 0
  <2>1. CASE r.product # p
    <3>1. of(rows \ {r}) = of(rows)
      BY <2>1
    <3> HIDE DEF of
    <3> QED
      BY <1>2, <1>3, <2>1, <3>1
  <2>2. CASE r.product = p
    <3>1. of(rows \ {r}) = of(rows) \ {r} /\ r \in of(rows) /\ Qty[r] = r.qty
      BY <2>2 DEF Qty
    <3> HIDE DEF of
    <3>2. SumFunctionOnSet(Qty, of(rows)) = Qty[r] + SumFunctionOnSet(Qty, of(rows) \ {r})
      BY <1>1, <3>1, SumTakeOut
    <3>3. r.qty \in Nat /\ UnitsIn(rows \ {r}, p) \in Nat
      BY <1>3 DEF Row
    <3>4. UnitsIn(rows, p) = r.qty + UnitsIn(rows \ {r}, p)
      BY <1>2, <3>1, <3>2
    <3> QED
      BY <2>2, <3>3, <3>4
  <2> QED
    BY <2>1, <2>2
<1> QED
  BY <1>3, <1>4

\* No rows, no units.
LEMMA NoUnits == \A p : UnitsIn({}, p) = 0
<1> SUFFICES ASSUME NEW p PROVE UnitsIn({}, p) = 0
  OBVIOUS
<1>1. {r \in {} : r.product = p} = {}
  OBVIOUS
<1> QED
  BY <1>1, SumEmpty DEF UnitsIn

\* A row more, or another row in the place of one.
LEMMA UnitsOfMoreRows ==
  ASSUME NEW rows \in SUBSET Row, IsFiniteSet(rows), NEW t \in Row, t \notin rows, NEW p
  PROVE  UnitsIn(rows \cup {t}, p) = UnitsIn(rows, p) + IF t.product = p THEN t.qty ELSE 0
<1> DEFINE more == rows \cup {t}
<1>1. IsFiniteSet(more) /\ more \in SUBSET Row /\ t \in more /\ more \ {t} = rows
  BY FS_AddElement
<1> HIDE DEF more
<1>2. UnitsIn(more, p) = UnitsIn(more \ {t}, p) + IF t.product = p THEN t.qty ELSE 0
  BY <1>1, UnitsOfRows
<1> QED
  BY <1>1, <1>2 DEF more

\* The line a loop is at stays the same while its lines do.
LEMMA CurrentStays ==
  ASSUME NEW s \in Sessions, todo'[s] = todo[s]
  PROVE  Current(s)' = Current(s)
  BY DEF Current

\* A session in whose flow nothing happens, and whose customers' carts nobody
\* touches, owes what it owed and sees what it saw.
LEMMA OthersKeepFlow ==
  ASSUME TypedInv, NEW s \in Sessions, Remembers(s),
         GridIsCart(s), WaitsFor(s), Answered(s),
         pc'[s] = pc[s], shown'[s] = shown[s], todo'[s] = todo[s], call'[s] = call[s],
         reply'[s] = reply[s],
         \A u \in UsersOf[s] : CartOf(u)' = CartOf(u)
  PROVE  /\ GridIsCart(s)' /\ WaitsFor(s)' /\ Answered(s)'
         /\ \A p : Due(s, p)' = Due(s, p)
<1>1. Current(s)' = Current(s)
  BY CurrentStays
<1>2. Left(s)' = Left(s)
  BY <1>1 DEF Left
<1>3. \A r \in cart : r.user \in UsersOf[s] => r \in cart'
  BY DEF CartOf
<1>4. shown[s] \subseteq cart => shown[s] \subseteq cart'
  BY <1>3 DEF Remembers
<1>5. Rows(Left(s)) \subseteq cart'
  BY <1>3 DEF Remembers, GridIsCart, Rows, Left
<1>6. Rows(Left(s)') \subseteq cart'
  BY <1>2, <1>5
<1>7. GridIsCart(s)'
  BY <1>4, <1>6 DEF GridIsCart
<1>8. WaitsFor(s)' /\ Answered(s)'
  BY <1>1 DEF WaitsFor, Answered
<1>9. ASSUME NEW p PROVE Due(s, p)' = Due(s, p)
  BY <1>1, <1>2 DEF Due, HalfSaved, Cleaning
<1> QED
  BY <1>7, <1>8, <1>9

\* The tables stay finite and identifiers stay unique: a new row has one that
\* was never issued, an update keeps the one there is.
LEMMA HandleKeepsTables ==
  ASSUME TypedInv, IdInv, TableInv, NEW c \in Call \cup {NoCall}, NEW ok \in BOOLEAN, Handle(c, ok),
         c.op = "insert_order" => IsFiniteSet(c.items)
  PROVE  TableInv'
<1>t. /\ cart \subseteq Row /\ cartSeq \in Nat /\ orderSeq \in Nat
      /\ orders \subseteq Order
      /\ \A r \in cart : r.id <= cartSeq
  BY DEF TypedInv, DbTyped, IdInv
<1>f. IsFiniteSet(cart')
  BY HandleKeepsFinite DEF TableInv
<1>1. CASE AddCartItem(c, ok)
  <2> DEFINE new == [id |-> cartSeq + 1, user |-> c.user, product |-> c.product, qty |-> c.qty]
  <2>1. cart' = cart \cup {new} /\ new.id = cartSeq + 1 /\ UNCHANGED <<orders, orderSeq>>
    BY <1>1 DEF AddCartItem
  <2>2. \A r \in cart : r.id \in Nat /\ r.id # new.id
    BY <1>t DEF Row
  <2> HIDE DEF new
  <2>3. \A r, t \in cart' : r.id = t.id => r = t
    BY <2>1, <2>2 DEF TableInv
  <2> QED
    BY <1>f, <2>1, <2>3 DEF TableInv
<1>2. CASE UpdateCartItem(c, ok)
  <2> DEFINE upd(r) == IF r.id = c.id THEN [r EXCEPT !.qty = c.qty] ELSE r
  <2>1. \A r \in cart : upd(r).id = r.id
    BY <1>t DEF Row
  <2>2. cart' = {upd(r) : r \in cart} /\ UNCHANGED <<orders, orderSeq>>
    BY <1>2 DEF UpdateCartItem
  <2>3. \A r, t \in cart' : r.id = t.id => r = t
    <3> HIDE DEF upd
    <3> QED
      BY <2>1, <2>2 DEF TableInv
  <2> QED
    BY <1>f, <2>2, <2>3 DEF TableInv
<1>3. CASE DeleteCartItem(c, ok)
  <2>1. cart' \in SUBSET cart /\ UNCHANGED <<orders, orderSeq>>
    BY <1>3 DEF DeleteCartItem
  <2> QED
    BY <1>f, <2>1 DEF TableInv
<1>4. CASE UpdateStock(c, ok)
  BY <1>4 DEF UpdateStock, TableInv
<1>5. CASE InsertOrder(c, ok)
  <2> DEFINE new == [id |-> orderSeq + 1, user |-> c.user, items |-> c.items]
  <2>1. /\ orders' = orders \cup {new} /\ new.id = orderSeq + 1 /\ orderSeq' = orderSeq + 1
        /\ IsFiniteSet(new.items) /\ cart' = cart
    BY <1>5 DEF InsertOrder
  <2> HIDE DEF new
  <2>2. IsFiniteSet(orders')
    BY <2>1, FS_AddElement DEF TableInv
  <2>3. \A o \in orders : o.id \in Nat
    BY <1>t DEF Order
  <2>4. \A o \in orders' : o.id <= orderSeq' /\ IsFiniteSet(o.items)
    BY <1>t, <2>1, <2>3 DEF TableInv
  <2> QED
    BY <2>1, <2>2, <2>4 DEF TableInv
<1> QED
  BY <1>1, <1>2, <1>3, <1>4, <1>5 DEF Handle

\* Only a service changes the tables.
LEMMA TableStep ==
  TypedInv /\ IdInv /\ CurrentInv /\ NobodyLate /\ TableInv /\ [Next]_vars => TableInv'
<1> SUFFICES ASSUME TypedInv, IdInv, CurrentInv, NobodyLate, TableInv, [Next]_vars PROVE TableInv'
  OBVIOUS
<1>k. UNCHANGED <<cart, orders, orderSeq>> => TableInv'
  BY DEF TableInv
<1>1. CASE UNCHANGED vars
  BY <1>1, <1>k DEF vars, db
<1>2. ASSUME NEW s \in Sessions, Script(s) \/ Click(s) PROVE TableInv'
  BY <1>2, <1>k
  DEF Script, AfterAddCart, AfterAddStock, SaveNextLine, AfterSaveStock, AfterSaveCart,
      AfterCreateOrder, CleanupNextRow, AfterCleanup, Click, ClickAddToCart, ListCartItems,
      ClickSaveChanges, ClickCreateOrder, db
<1>3. ASSUME NEW s \in Sessions, Serve(s) PROVE TableInv'
  <2>1. PICK ok \in BOOLEAN : Handle(call[s], ok)
    BY <1>3 DEF Serve
  <2>2. call[s] \in Call \cup {NoCall}
    BY DEF TypedInv, UiTyped
  <2>3. ASSUME call[s].op = "insert_order" PROVE IsFiniteSet(call[s].items)
    <3>1. call[s].items \in SUBSET cart
      BY <1>3, <2>3 DEF CurrentInv, Inserting, UpToDate, Serve, CartOf
    <3> QED
      BY <3>1, FS_Subset DEF TableInv
  <2> QED
    BY <2>1, <2>2, <2>3, HandleKeepsTables
<1>4. ASSUME NEW s \in Sessions, ServeCreateOrder(s) \/ Refuse(s) \/ Timeout(s) PROVE TableInv'
  BY <1>4, <1>k DEF ServeCreateOrder, Refuse, Timeout, db
<1>5. ASSUME NEW p \in Products, WithdrawProduct(p) PROVE TableInv'
  BY <1>5, <1>k DEF WithdrawProduct
<1>6. ASSUME NEW s \in Sessions, Abandon(s) PROVE TableInv'
  BY <1>6, <1>k DEF Abandon, db
<1> QED
  BY <1>1, <1>2, <1>3, <1>4, <1>5, <1>6 DEF Next, Service, NobodyLate

-----------------------------------------------------------------------------
\* What a session knows of its flow, and that its next step will not change
\* what it owes.
FlowKept(s) ==
    /\ GridIsCart(s)' /\ WaitsFor(s)' /\ Answered(s)'
    /\ \A p \in Products : Due(s, p)' = Due(s, p)

\* The end of a script, at a place where nothing is owed.
LEMMA EndKeepsFlow ==
  ASSUME TypedInv, NEW s \in Sessions, Stop(s) \/ ClearAndStop(s), UNCHANGED cart,
         shown'[s] \subseteq cart,
         \A p \in Products : Due(s, p) = 0
  PROVE  FlowKept(s)
<1>u. UiTyped
  BY DEF TypedInv
<1>1. /\ pc'[s] = "idle" /\ call'[s] = NoCall /\ reply'[s] = "none" /\ todo'[s] = {}
  BY <1>u DEF Stop, ClearAndStop, Goto, UiTyped
<1>2. Rows(Left(s)') = {}
  BY <1>1 DEF Left, Rows
<1>3. GridIsCart(s)' /\ WaitsFor(s)' /\ Answered(s)'
  BY <1>1, <1>2 DEF GridIsCart, WaitsFor, Answered
<1>4. \A p : Due(s, p)' = 0
  BY <1>1 DEF Due, HalfSaved, Cleaning
<1> QED
  BY <1>3, <1>4 DEF FlowKept

\* The script of a session that saves its grid.
LEMMA SavingKeepsFlow ==
  ASSUME Undisturbed, StoreInv, NEW s \in Sessions,
         SaveNextLine(s) \/ AfterSaveStock(s) \/ AfterSaveCart(s)
  PROVE  FlowKept(s)
<1>u. UiTyped /\ TypedInv /\ FlowInv
  BY DEF StoreInv, TypedInv
<1>f. GridIsCart(s) /\ WaitsFor(s) /\ Answered(s)
  BY DEF StoreInv, FlowsInv
<1>c. UNCHANGED cart
  BY DEF SaveNextLine, AfterSaveStock, AfterSaveCart, db
<1>1. ASSUME Goto(s, "save_next"), todo' = [todo EXCEPT ![s] = @ \ {Current(s)}],
             UNCHANGED shown, Rows(todo[s] \ {Current(s)}) \subseteq cart,
             pc[s] \in {"save_stock", "save_cart"}, \A p \in Products : Due(s, p) = 0
      PROVE  FlowKept(s)
  <2>1. /\ pc'[s] = "save_next" /\ call'[s] = NoCall /\ reply'[s] = "none"
        /\ todo'[s] = todo[s] \ {Current(s)} /\ todo'[s] \subseteq todo[s]
    BY <1>1, <1>u DEF Goto, UiTyped
  <2>2. Left(s)' = todo'[s]
    BY <2>1 DEF Left
  <2>3. Rows(Left(s)') \subseteq cart'
    BY <1>1, <1>c, <2>1, <2>2
  <2>4. GridIsCart(s)'
    BY <1>1, <1>f, <2>1, <2>3 DEF GridIsCart
  <2>5. WaitsFor(s)' /\ Answered(s)' /\ \A p : Due(s, p)' = 0
    BY <2>1 DEF WaitsFor, Answered, Due, HalfSaved, Cleaning
  <2> QED
    BY <1>1, <2>4, <2>5 DEF FlowKept
<1>2. CASE SaveNextLine(s)
  <2>1. \A p : Due(s, p) = 0
    BY <1>2 DEF SaveNextLine, Due, HalfSaved, Cleaning
  <2>2. CASE ClearAndStop(s)
    <3>1. shown'[s] = {}
      BY <1>u, <2>2 DEF ClearAndStop, UiTyped
    <3> QED
      BY <1>u, <1>c, <2>1, <2>2, <3>1, EndKeepsFlow
  <2>3. CASE ~ClearAndStop(s)
    <3>1. /\ pc'[s] = "save_stock" /\ reply'[s] = "none" /\ pc[s] = "save_next"
          /\ call'[s] = StockCall(Current(s).row.product,
                                  IF Current(s).delete THEN Current(s).qty
                                  ELSE Current(s).row.qty - Current(s).qty)
          /\ shown' = shown /\ todo' = todo
      BY <1>2, <1>u, <2>3 DEF SaveNextLine, Send, UiTyped
    <3>2. Current(s)' = Current(s) /\ Left(s)' = todo[s] /\ Left(s) = todo[s]
      BY <3>1, CurrentStays DEF Left
    <3>3. Rows(Left(s)') \subseteq cart'
      BY <1>c, <1>f, <3>2 DEF GridIsCart
    <3>4. GridIsCart(s)'
      BY <1>f, <3>1, <3>3 DEF GridIsCart
    <3>5. WaitsFor(s)' /\ Answered(s)' /\ \A p : Due(s, p)' = 0
      BY <3>1, <3>2 DEF WaitsFor, Answered, Due, HalfSaved, Cleaning
    <3> QED
      BY <2>1, <3>4, <3>5 DEF FlowKept
  <2> QED
    BY <2>2, <2>3
<1>3. CASE AfterSaveStock(s)
  <2>1. pc[s] = "save_stock" /\ Left(s) = todo[s]
    BY <1>3 DEF AfterSaveStock, Left
  <2>2. CASE reply[s] = "ok"
    <3>1. /\ pc'[s] = "save_cart" /\ reply'[s] = "none"
          /\ call'[s] = IF Current(s).delete THEN DeleteCall(Current(s).row.id)
                                             ELSE PutCall(Current(s).row.id, Current(s).qty)
          /\ shown' = shown /\ todo' = todo
      BY <1>3, <1>u, <2>2 DEF AfterSaveStock, Send, UiTyped
    <3>2. Current(s)' = Current(s) /\ Left(s)' = todo[s]
      BY <3>1, CurrentStays DEF Left
    <3>3. Rows(Left(s)') \subseteq cart'
      BY <1>c, <1>f, <2>1, <3>2 DEF GridIsCart
    <3>4. GridIsCart(s)'
      BY <1>f, <2>1, <3>1, <3>3 DEF GridIsCart
    <3>5. WaitsFor(s)' /\ Answered(s)'
      BY <3>1, <3>2 DEF WaitsFor, Answered
    <3>6. \A p : Due(s, p)' = Due(s, p)
      BY <2>1, <2>2, <3>1, <3>2 DEF Due, HalfSaved
    <3> QED
      BY <3>4, <3>5, <3>6 DEF FlowKept
  <2>3. CASE reply[s] # "ok"
    <3>1. reply[s] = "refused" /\ \A p : Due(s, p) = 0
      BY <1>3, <1>f, <2>1, <2>3 DEF AfterSaveStock, Answered, Due, HalfSaved, Cleaning
    <3>2. CASE ClearAndStop(s)
      <4>1. shown'[s] = {}
        BY <1>u, <3>2 DEF ClearAndStop, UiTyped
      <4> QED
        BY <1>u, <1>c, <3>1, <3>2, <4>1, EndKeepsFlow
    <3>3. CASE ~ClearAndStop(s)
      <4>1. /\ Goto(s, "save_next") /\ todo' = [todo EXCEPT ![s] = @ \ {Current(s)}]
            /\ UNCHANGED shown
        BY <1>3, <3>1, <3>3 DEF AfterSaveStock
      <4>2. Rows(todo[s] \ {Current(s)}) \subseteq cart
        BY <1>f, <2>1 DEF GridIsCart, Rows
      <4> QED
        BY <1>1, <2>1, <3>1, <4>1, <4>2
    <3> QED
      BY <3>2, <3>3
  <2> QED
    BY <2>2, <2>3
<1>4. CASE AfterSaveCart(s)
  <2>1. pc[s] = "save_cart" /\ reply[s] = "ok"
    BY <1>4, <1>f DEF AfterSaveCart, Answered
  <2>2. Left(s) = todo[s] \ {Current(s)} /\ \A p : Due(s, p) = 0
    BY <2>1 DEF Left, Due, HalfSaved, Cleaning
  <2>3. /\ Goto(s, "save_next") /\ todo' = [todo EXCEPT ![s] = @ \ {Current(s)}]
        /\ UNCHANGED shown
    BY <1>4, <2>1 DEF AfterSaveCart
  <2>4. Rows(todo[s] \ {Current(s)}) \subseteq cart
    BY <1>f, <2>2 DEF GridIsCart
  <2> QED
    BY <1>1, <2>1, <2>2, <2>3, <2>4
<1> QED
  BY <1>2, <1>3, <1>4

\* The script of a session that adds to the cart or orders.
LEMMA OrderingKeepsFlow ==
  ASSUME Undisturbed, StoreInv, NEW s \in Sessions,
         \/ AfterAddCart(s) \/ AfterAddStock(s)
         \/ AfterCreateOrder(s) \/ CleanupNextRow(s) \/ AfterCleanup(s)
  PROVE  FlowKept(s)
<1>u. UiTyped /\ TypedInv /\ FlowInv
  BY DEF StoreInv, TypedInv
<1>f. GridIsCart(s) /\ WaitsFor(s) /\ Answered(s)
  BY DEF StoreInv, FlowsInv
<1>c. UNCHANGED cart
  BY DEF AfterAddCart, AfterAddStock, AfterCreateOrder, CleanupNextRow, AfterCleanup, db
<1>s. ASSUME Stop(s), shown[s] \subseteq cart, \A p \in Products : Due(s, p) = 0
      PROVE  FlowKept(s)
  <2>1. shown'[s] = shown[s]
    BY <1>s DEF Stop
  <2> QED
    BY <1>u, <1>c, <1>s, <2>1, EndKeepsFlow
<1>1. CASE AfterAddCart(s)
  <2>1. pc[s] = "add_cart" /\ reply[s] = "ok"
    BY <1>1, <1>f DEF AfterAddCart, Answered
  <2>2. /\ pc'[s] = "add_stock" /\ reply'[s] = "none"
        /\ call'[s] = StockCall(call[s].product, 0 - call[s].qty)
        /\ shown' = shown /\ todo' = todo
    BY <1>1, <1>u, <2>1 DEF AfterAddCart, Send, UiTyped
  <2>3. call[s].qty \in Nat /\ call[s].product \in Products
    BY <1>f, <1>u, <2>1, CallFields DEF WaitsFor, UiTyped
  <2>4. Left(s)' = todo'[s] /\ Left(s) = todo[s]
    BY <2>1, <2>2 DEF Left
  <2>5. Rows(Left(s)') \subseteq cart'
    BY <1>c, <1>f, <2>2, <2>4 DEF GridIsCart
  <2>6. GridIsCart(s)'
    BY <1>c, <1>f, <2>1, <2>2, <2>5 DEF GridIsCart
  <2>7. WaitsFor(s)' /\ Answered(s)'
    BY <2>2, <2>3 DEF WaitsFor, Answered, StockCall
  <2>8. \A p : Due(s, p)' = Due(s, p)
    BY <2>1, <2>2 DEF Due, StockCall
  <2> QED
    BY <2>6, <2>7, <2>8 DEF FlowKept
<1>2. CASE AfterAddStock(s)
  <2>1. pc[s] = "add_stock" /\ reply[s] # "none"
    BY <1>2 DEF AfterAddStock
  <2>2. shown[s] \subseteq cart /\ \A p : Due(s, p) = 0
    BY <1>f, <2>1 DEF GridIsCart, Due, HalfSaved, Cleaning
  <2> QED
    BY <1>2, <1>s, <2>2 DEF AfterAddStock
<1>3. CASE AfterCreateOrder(s)
  <2>1. pc[s] = "order" /\ shown[s] \subseteq cart
    BY <1>3, <1>f DEF AfterCreateOrder, GridIsCart
  <2>2. CASE reply[s] = "ok"
    <3>1. /\ pc'[s] = "cleanup_next" /\ reply'[s] = "none" /\ call'[s] = NoCall
          /\ todo'[s] = {[row |-> r, delete |-> TRUE, qty |-> r.qty] : r \in shown[s]}
      BY <1>3, <1>u, <2>2 DEF AfterCreateOrder, Goto, UiTyped
    <3> DEFINE line(r) == [row |-> r, delete |-> TRUE, qty |-> r.qty]
    <3>2. Left(s)' = todo'[s] /\ todo'[s] = {line(r) : r \in shown[s]}
      BY <3>1 DEF Left
    <3>3. \A r \in shown[s] : line(r).row = r
      OBVIOUS
    <3> HIDE DEF line
    <3>4. Rows(todo'[s]) = shown[s]
      BY <3>2, <3>3 DEF Rows
    <3>r. Rows(Left(s)') = shown[s]
      BY <3>2, <3>4
    <3>e. \A e, f \in todo'[s] : e.row = f.row => e = f
      BY <3>2, <3>3
    <3>5. GridIsCart(s)'
      BY <1>c, <2>1, <3>1, <3>r, <3>e DEF GridIsCart
    <3>6. WaitsFor(s)' /\ Answered(s)'
      BY <3>1 DEF WaitsFor, Answered
    <3>7. \A p : Due(s, p)' = Due(s, p)
      BY <2>1, <2>2, <3>1, <3>r DEF Due, HalfSaved, Cleaning
    <3> QED
      BY <3>5, <3>6, <3>7 DEF FlowKept
  <2>3. CASE reply[s] # "ok"
    <3>1. \A p : Due(s, p) = 0
      BY <2>1, <2>3 DEF Due, HalfSaved, Cleaning
    <3> QED
      BY <1>3, <1>s, <2>1, <2>3, <3>1 DEF AfterCreateOrder
  <2> QED
    BY <2>2, <2>3
<1>4. CASE CleanupNextRow(s)
  <2>1. pc[s] = "cleanup_next" /\ Left(s) = todo[s]
    BY <1>4 DEF CleanupNextRow, Left
  <2>2. \A p : Due(s, p) = 0 - UnitsIn(Rows(todo[s]), p)
    BY <2>1 DEF Due, HalfSaved, Cleaning
  <2>3. CASE todo[s] = {}
    <3>1. ClearAndStop(s)
      BY <1>4, <2>3 DEF CleanupNextRow
    <3>2. shown'[s] = {}
      BY <1>u, <3>1 DEF ClearAndStop, UiTyped
    <3>3. Rows(todo[s]) = {}
      BY <2>3 DEF Rows
    <3>4. \A p : Due(s, p) = 0
      BY <2>2, <3>3, NoUnits
    <3> QED
      BY <1>c, <1>u, <3>1, <3>2, <3>4, EndKeepsFlow
  <2>4. CASE todo[s] # {}
    <3>1. /\ pc'[s] = "cleanup" /\ reply'[s] = "none" /\ shown' = shown /\ todo' = todo
          /\ call'[s] = DeleteCall(Current(s).row.id)
      BY <1>4, <1>u, <2>4 DEF CleanupNextRow, Send, UiTyped
    <3>2. Current(s)' = Current(s) /\ Left(s)' = todo[s]
      BY <3>1, CurrentStays DEF Left
    <3>3. Rows(Left(s)') \subseteq cart'
      BY <1>c, <1>f, <2>1, <3>2 DEF GridIsCart
    <3>4. GridIsCart(s)'
      BY <1>f, <3>1, <3>3 DEF GridIsCart
    <3>5. WaitsFor(s)' /\ Answered(s)'
      BY <3>1, <3>2 DEF WaitsFor, Answered
    <3>6. \A p : Due(s, p)' = Due(s, p)
      BY <2>1, <3>1, <3>2 DEF Due, HalfSaved, Cleaning
    <3> QED
      BY <3>4, <3>5, <3>6 DEF FlowKept
  <2> QED
    BY <2>3, <2>4
<1>5. CASE AfterCleanup(s)
  <2>1. pc[s] = "cleanup" /\ reply[s] = "ok"
    BY <1>5, <1>f DEF AfterCleanup, Answered
  <2>2. Left(s) = todo[s] \ {Current(s)}
    BY <2>1 DEF Left
  <2>3. /\ pc'[s] = "cleanup_next" /\ reply'[s] = "none" /\ call'[s] = NoCall
        /\ todo'[s] = todo[s] \ {Current(s)} /\ todo'[s] \subseteq todo[s]
    BY <1>5, <1>u, <2>1 DEF AfterCleanup, Goto, UiTyped
  <2>4. Left(s)' = Left(s)
    BY <2>2, <2>3 DEF Left
  <2>5. Rows(Left(s)') \subseteq cart'
    BY <1>c, <1>f, <2>4 DEF GridIsCart
  <2>6. GridIsCart(s)'
    BY <1>f, <2>3, <2>5 DEF GridIsCart
  <2>7. WaitsFor(s)' /\ Answered(s)'
    BY <2>3 DEF WaitsFor, Answered
  <2>8. \A p : Due(s, p)' = Due(s, p)
    BY <2>1, <2>3, <2>4 DEF Due, HalfSaved, Cleaning
  <2> QED
    BY <2>6, <2>7, <2>8 DEF FlowKept
<1> QED
  BY <1>1, <1>2, <1>3, <1>4, <1>5

\* Clicks start a flow from a grid that is the cart.
LEMMA ClickKeepsFlow ==
  ASSUME Undisturbed, StoreInv, NEW s \in Sessions, Click(s)
  PROVE  FlowKept(s)
<1>u. UiTyped /\ TypedInv
  BY DEF StoreInv, TypedInv
<1>1. /\ UNCHANGED cart /\ pc[s] = "idle" /\ Left(s) = todo[s]
      /\ GridIsCart(s) /\ WaitsFor(s) /\ Answered(s)
  BY DEF StoreInv, FlowsInv, Left, Click, ClickAddToCart, ListCartItems, ClickSaveChanges,
         ClickCreateOrder, db
<1>2. shown[s] \subseteq cart /\ todo[s] = {} /\ \A p : Due(s, p) = 0
  BY <1>1 DEF GridIsCart, Due, HalfSaved, Cleaning
<1>3. ASSUME NEW u \in UsersOf[s], ListCartItems(s, u) PROVE FlowKept(s)
  <2>1. /\ shown'[s] \subseteq cart
        /\ pc'[s] = "idle" /\ todo' = todo /\ call' = call /\ reply' = reply
    BY <1>2, <1>3, <1>u DEF ListCartItems, CartOf, UiTyped
  <2>2. Rows(Left(s)') = {}
    BY <1>2, <2>1 DEF Left, Rows
  <2>3. GridIsCart(s)' /\ WaitsFor(s)' /\ Answered(s)'
    BY <1>1, <1>2, <2>1, <2>2 DEF GridIsCart, WaitsFor, Answered
  <2>4. \A p : Due(s, p)' = 0
    BY <2>1 DEF Due, HalfSaved, Cleaning
  <2> QED
    BY <1>2, <2>3, <2>4 DEF FlowKept
<1>4. ASSUME NEW c, NEW at \in {"add_cart", "order"}, Send(s, c, at), UNCHANGED <<shown, todo>>,
             at = "add_cart" => c.op = "add_cart_item",
             at = "order" => c.op = "create_order"
      PROVE  FlowKept(s)
  <2>1. pc'[s] = at /\ call'[s] = c /\ reply'[s] = "none"
    BY <1>4, <1>u DEF Send, UiTyped
  <2>2. Rows(Left(s)') = {}
    BY <1>2, <1>4, <2>1 DEF Left, Rows
  <2>3. GridIsCart(s)' /\ WaitsFor(s)' /\ Answered(s)'
    BY <1>1, <1>2, <1>4, <2>1, <2>2 DEF GridIsCart, WaitsFor, Answered
  <2>4. \A p : Due(s, p)' = 0
    BY <2>1 DEF Due, HalfSaved, Cleaning
  <2> QED
    BY <1>2, <2>3, <2>4 DEF FlowKept
<1>5. ASSUME NEW u \in UsersOf[s], NEW p \in Products, NEW q \in Quantities,
             ClickAddToCart(s, u, p, q)
      PROVE  FlowKept(s)
  BY <1>4, <1>5 DEF ClickAddToCart, AddCall
<1>6. CASE ClickSaveChanges(s)
  <2>1. PICK edits \in Edits(s) : todo' = [todo EXCEPT ![s] = edits]
    BY <1>6 DEF ClickSaveChanges
  <2>2. /\ todo'[s] = edits /\ pc'[s] = "save_next" /\ call'[s] = NoCall /\ reply'[s] = "none"
        /\ shown' = shown
    BY <1>6, <1>u, <2>1 DEF ClickSaveChanges, Goto, UiTyped
  <2>3. /\ \A e \in edits : e.row \in shown[s]
        /\ \A e, f \in edits : e.row = f.row => e = f
        /\ \A e \in edits : e.delete => e.qty = e.row.qty
    BY DEF Edits, Undisturbed
  <2>4. Left(s)' = edits
    BY <2>2 DEF Left
  <2>5. Rows(Left(s)') \subseteq cart'
    BY <1>1, <1>2, <2>3, <2>4 DEF Rows
  <2>6. GridIsCart(s)'
    BY <2>2, <2>3, <2>5 DEF GridIsCart
  <2>7. WaitsFor(s)' /\ Answered(s)' /\ \A p : Due(s, p)' = 0
    BY <2>2 DEF WaitsFor, Answered, Due, HalfSaved, Cleaning
  <2> QED
    BY <1>2, <2>6, <2>7 DEF FlowKept
<1>7. CASE ClickCreateOrder(s)
  BY <1>4, <1>7 DEF ClickCreateOrder, OrderCall
<1> QED
  BY <1>3, <1>5, <1>6, <1>7 DEF Click

-----------------------------------------------------------------------------
(***************************************************************************)
(* The services.  Units are held in the stock, in carts and in orders; what*)
(* an answer changes there and what the flow then owes make up for it.     *)
(***************************************************************************)
Held(p) == stock[p] + UnitsIn(cart, p) + Ordered(p)

KeepsUnits(s) ==
    /\ GridIsCart(s)' /\ WaitsFor(s)' /\ Answered(s)'
    /\ \A p \in Products : Held(p)' + Due(s, p)' >= Held(p) + Due(s, p)

HeldTyped ==
    \A p \in Products :
        /\ stock[p] \in Nat /\ UnitsIn(cart, p) \in Nat /\ Ordered(p) \in Int /\ Held(p) \in Int
        /\ \A s \in Sessions : Due(s, p) \in Int

\* What is held and owed are numbers.
LEMMA UnitsTyped == TypedInv /\ TableInv /\ FlowsInv => HeldTyped
<1> SUFFICES ASSUME TypedInv, TableInv, FlowsInv, NEW p \in Products
             PROVE  /\ stock[p] \in Nat /\ UnitsIn(cart, p) \in Nat /\ Ordered(p) \in Int
                    /\ Held(p) \in Int
                    /\ \A s \in Sessions : Due(s, p) \in Int
  BY DEF HeldTyped
<1>t. DbTyped /\ UiTyped /\ FlowInv
  BY DEF TypedInv
<1>1. stock[p] \in Nat
  BY <1>t DEF DbTyped
<1>2. \A rows \in SUBSET cart : UnitsIn(rows, p) \in Nat
  BY <1>t, UnitsOfRows DEF DbTyped, TableInv
<1>3. Ordered(p) \in Int
  <2> DEFINE f == [o \in orders |-> UnitsIn(o.items, p)]
  <2>1. \A o \in orders : f[o] \in Int
    BY <1>t, UnitsOfRows DEF DbTyped, TableInv, Order
  <2>2. DOMAIN f = orders
    OBVIOUS
  <2>3. Ordered(p) = SumFunctionOnSet(f, orders)
    BY <2>2 DEF Ordered, SumFunction
  <2> HIDE DEF f
  <2> QED
    BY <2>1, <2>3, SumInt DEF TableInv
<1>4. ASSUME NEW s \in Sessions PROVE Due(s, p) \in Int
  <2>f. GridIsCart(s) /\ WaitsFor(s)
    BY DEF FlowsInv
  <2>1. pc[s] = "add_cart" => call[s].qty \in Nat
    BY <1>t, <2>f, CallFields DEF WaitsFor, UiTyped
  <2>2. pc[s] = "add_stock" => call[s].change \in Int
    BY <1>t, <2>f, CallFields DEF WaitsFor, UiTyped
  <2>3. ASSUME HalfSaved(s) PROVE LineDue(Current(s)) \in Int
    <3>1. todo[s] \in SUBSET Edit /\ todo[s] # {}
      BY <1>t, <2>3 DEF UiTyped, FlowInv, AtLine, HalfSaved
    <3>2. Current(s) \in Edit
      BY <3>1, CurrentExists
    <3> QED
      BY <3>2 DEF LineDue, Edit, Row
  <2>4. pc[s] = "order" => UnitsIn(shown[s], p) \in Nat
    BY <1>2, <2>f DEF GridIsCart
  <2>5. UnitsIn(Rows(Left(s)), p) \in Nat
    BY <1>2, <2>f DEF GridIsCart
  <2> QED
    BY <2>1, <2>2, <2>3, <2>4, <2>5 DEF Due
<1> QED
  BY <1>1, <1>2, <1>3, <1>4 DEF Held

\* The same after a step.
LEMMA UnitsTypedNext == TypedInv' /\ TableInv' /\ FlowsInv' => HeldTyped'
  BY UnitsTyped, PTL

\* A handler has answered the call of a session, with success or not.
Answer(s, ok) ==
    /\ Handle(call[s], ok)
    /\ reply[s] = "none" /\ reply'[s] = IF ok THEN "ok" ELSE "refused"
    /\ pc'[s] = pc[s] /\ shown'[s] = shown[s] /\ todo'[s] = todo[s] /\ call'[s] = call[s]

\* A product is asked for: the row is in the cart, the stock owes the units.
LEMMA AddCartKeepsUnits ==
  ASSUME StoreInv, NEW s \in Sessions, NEW ok \in BOOLEAN, Answer(s, ok),
         AddCartItem(call[s], ok)
  PROVE  KeepsUnits(s)
<1>f. GridIsCart(s) /\ WaitsFor(s) /\ Answered(s) /\ DbTyped /\ UiTyped
  BY DEF StoreInv, FlowsInv, TypedInv
<1> DEFINE new == [id |-> cartSeq + 1, user |-> call[s].user,
                   product |-> call[s].product, qty |-> call[s].qty]
<1>1. /\ cart' = cart \cup {new} /\ stock' = stock /\ orders' = orders /\ reply'[s] = "ok"
      /\ call[s].op = "add_cart_item"
  BY DEF AddCartItem, Answer
<1>2. pc[s] = "add_cart"
  BY <1>1, <1>f DEF WaitsFor, UiTyped, Pc, NoCall, StockCall, DeleteCall, PutCall
<1>3. new \in Row /\ new \notin cart
  <2>1. call[s].user \in Users /\ call[s].product \in Products /\ call[s].qty \in Nat
    BY <1>1, <1>f, CallFields DEF UiTyped
  <2>2. \A r \in cart : r.id # cartSeq + 1 /\ cartSeq \in Nat
    BY <1>f DEF StoreInv, IdInv, DbTyped, Row
  <2> QED
    BY <1>f, <2>1, <2>2 DEF DbTyped, Row
<1>4. Left(s)' = todo[s] /\ Left(s) = todo[s]
  BY <1>2 DEF Left, Answer
<1>5. Rows(Left(s)') \subseteq cart'
  BY <1>1, <1>4, <1>f DEF GridIsCart
<1>6. GridIsCart(s)' /\ WaitsFor(s)' /\ Answered(s)'
  BY <1>1, <1>2, <1>5, <1>f DEF GridIsCart, WaitsFor, Answered, Answer
<1>7. ASSUME NEW p \in Products PROVE Held(p)' + Due(s, p)' >= Held(p) + Due(s, p)
  <2>1. UnitsIn(cart', p) = UnitsIn(cart, p) + IF call[s].product = p THEN call[s].qty ELSE 0
    <3> HIDE DEF new
    <3>1. UnitsIn(cart \cup {new}, p) = UnitsIn(cart, p) + IF new.product = p THEN new.qty ELSE 0
      BY <1>3, <1>f, UnitsOfMoreRows DEF DbTyped, StoreInv, TableInv
    <3> QED
      BY <1>1, <3>1 DEF new
  <2>2. Due(s, p) = 0
    BY <1>2 DEF Due, HalfSaved, Cleaning, Answer
  <2>3. Due(s, p)' = IF call[s].product = p THEN 0 - call[s].qty ELSE 0
    BY <1>1, <1>2 DEF Due, Answer
  <2>4. Held(p)' = stock[p] + UnitsIn(cart', p) + Ordered(p)
    BY <1>1 DEF Held, UnitsIn, Ordered
  <2>5. stock[p] \in Nat /\ UnitsIn(cart, p) \in Nat /\ Ordered(p) \in Int
    BY UnitsTyped DEF StoreInv, HeldTyped
  <2>6. call[s].qty \in Nat
    BY <1>1, <1>f, CallFields DEF UiTyped
  <2> QED
    BY <2>1, <2>2, <2>3, <2>4, <2>5, <2>6 DEF Held
<1> QED
  BY <1>6, <1>7 DEF KeepsUnits

\* The stock gives or takes units.  When it refuses "Add to Cart", the row
\* that is in the cart already has units that never were in stock.
LEMMA StockKeepsUnits ==
  ASSUME StoreInv, NEW s \in Sessions, NEW ok \in BOOLEAN, Answer(s, ok),
         UpdateStock(call[s], ok)
  PROVE  KeepsUnits(s)
<1>f. GridIsCart(s) /\ WaitsFor(s) /\ Answered(s) /\ DbTyped /\ UiTyped /\ FlowInv
  BY DEF StoreInv, FlowsInv, TypedInv
<1>1. /\ cart' = cart /\ orders' = orders /\ call[s].op = "update_stock"
      /\ stock' = IF ok THEN [stock EXCEPT ![call[s].product] = @ + call[s].change] ELSE stock
  BY DEF UpdateStock
<1>2. pc[s] \in {"add_stock", "save_stock"}
  BY <1>1, <1>f DEF WaitsFor, UiTyped, Pc, NoCall, DeleteCall, PutCall
<1>3. Left(s)' = todo[s] /\ Left(s) = todo[s] /\ Current(s)' = Current(s)
  BY <1>2, CurrentStays DEF Left, Answer
<1>4. Rows(Left(s)') \subseteq cart'
  BY <1>1, <1>3, <1>f DEF GridIsCart
<1>5. GridIsCart(s)' /\ WaitsFor(s)' /\ Answered(s)'
  <2>1. GridIsCart(s)'
    BY <1>1, <1>2, <1>4, <1>f DEF GridIsCart, Answer
  <2>2. WaitsFor(s)' /\ Answered(s)'
    BY <1>2, <1>3, <1>f DEF WaitsFor, Answered, Answer
  <2> QED
    BY <2>1, <2>2
<1>6. ASSUME NEW p \in Products PROVE Held(p)' + Due(s, p)' >= Held(p) + Due(s, p)
  <2>1. Held(p)' = stock'[p] + UnitsIn(cart, p) + Ordered(p)
    BY <1>1 DEF Held, UnitsIn, Ordered
  <2>2. /\ stock[p] \in Nat /\ UnitsIn(cart, p) \in Nat /\ Ordered(p) \in Int
        /\ call[s].change \in Int
    BY <1>1, <1>f, CallFields, UnitsTyped DEF StoreInv, HeldTyped, UiTyped
  <2>3. stock'[p] = stock[p] + IF ok /\ call[s].product = p THEN call[s].change ELSE 0
    BY <1>1, <1>f, <2>2 DEF DbTyped
  <2>4. CASE pc[s] = "add_stock"
    <3>1. Due(s, p) = IF call[s].product = p THEN call[s].change ELSE 0
      BY <2>4 DEF Due, Answer
    <3>2. Due(s, p)' = 0
      BY <2>4 DEF Due, HalfSaved, Cleaning, Answer
    <3>3. call[s].change <= 0
      BY <1>f, <2>4 DEF WaitsFor
    <3> QED
      BY <2>1, <2>2, <2>3, <3>1, <3>2, <3>3 DEF Held
  <2>5. CASE pc[s] = "save_stock"
    <3> DEFINE e == Current(s)
    <3>1. Due(s, p) = 0
      BY <2>5 DEF Due, HalfSaved, Cleaning, Answer
    <3>2. Due(s, p)' = IF ok /\ e.row.product = p THEN LineDue(e) ELSE 0
      BY <1>3, <2>5 DEF Due, HalfSaved, Cleaning, Answer
    <3>3. e \in todo[s] /\ e \in Edit
      BY <1>f, <2>5, CurrentExists DEF FlowInv, AtLine, UiTyped
    <3>4. e.row.qty \in Nat /\ e.qty \in Nat /\ e.delete \in BOOLEAN
      BY <3>3 DEF Edit, Row
    <3>5. /\ call[s].product = e.row.product
          /\ call[s].change = IF e.delete THEN e.qty ELSE e.row.qty - e.qty
      BY <1>f, <2>5 DEF WaitsFor, StockCall
    <3>6. e.delete => e.qty = e.row.qty
      BY <1>f, <2>5, <3>3 DEF GridIsCart
    <3>7. LineDue(e) = 0 - call[s].change
      BY <3>4, <3>5, <3>6 DEF LineDue
    <3> QED
      BY <2>1, <2>2, <2>3, <3>1, <3>2, <3>5, <3>7 DEF Held
  <2> QED
    BY <1>2, <2>4, <2>5
<1> QED
  BY <1>5, <1>6 DEF KeepsUnits

\* What is left of a loop when the line it is at has been dealt with.
LEMMA LinesBehind ==
  ASSUME StoreInv, NEW s \in Sessions, todo[s] # {}, Left(s) = todo[s]
  PROVE  /\ Current(s) \in todo[s] /\ Current(s) \in Edit /\ Current(s).row \in cart
         /\ Rows(todo[s]) \subseteq cart
         /\ Rows(todo[s] \ {Current(s)}) = Rows(todo[s]) \ {Current(s).row}
         /\ \A r \in cart : r.id = Current(s).row.id => r = Current(s).row
<1>1. /\ Rows(todo[s]) \subseteq cart
      /\ \A e, f \in todo[s] : e.row = f.row => e = f
  BY DEF StoreInv, FlowsInv, GridIsCart
<1>2. Current(s) \in todo[s] /\ Current(s) \in Edit
  BY CurrentExists DEF StoreInv, TypedInv, UiTyped
<1>3. Current(s).row \in cart
  BY <1>1, <1>2 DEF Rows
<1>4. Rows(todo[s] \ {Current(s)}) = Rows(todo[s]) \ {Current(s).row}
  BY <1>1, <1>2 DEF Rows
<1>5. \A r \in cart : r.id = Current(s).row.id => r = Current(s).row
  BY <1>3 DEF StoreInv, TableInv
<1> QED
  BY <1>1, <1>2, <1>3, <1>4, <1>5

\* An edited line is stored: the row takes the quantity the stock gave for.
LEMMA PutKeepsUnits ==
  ASSUME StoreInv, NEW s \in Sessions, NEW ok \in BOOLEAN, Answer(s, ok),
         UpdateCartItem(call[s], ok)
  PROVE  KeepsUnits(s)
<1>f. GridIsCart(s) /\ WaitsFor(s) /\ Answered(s) /\ DbTyped /\ UiTyped /\ FlowInv
  BY DEF StoreInv, FlowsInv, TypedInv
<1> DEFINE e == Current(s)
           old == e.row
           new == [old EXCEPT !.qty = e.qty]
           rest == cart \ {old}
<1>1. /\ stock' = stock /\ orders' = orders /\ call[s].op = "update_cart_item"
      /\ cart' = {IF r.id = call[s].id THEN [r EXCEPT !.qty = call[s].qty] ELSE r : r \in cart}
      /\ reply'[s] = "ok"
  BY DEF UpdateCartItem, Answer
<1>2. pc[s] = "save_cart"
  BY <1>1, <1>f DEF WaitsFor, UiTyped, Pc, NoCall, StockCall, DeleteCall
<1>3. Left(s)' = todo[s] \ {e} /\ Left(s) = todo[s] /\ e' = e
  BY <1>1, <1>2, CurrentStays DEF Left, Answer
<1>4. /\ todo[s] # {} /\ e \in todo[s] /\ e \in Edit /\ old \in cart
      /\ Rows(todo[s]) \subseteq cart /\ Rows(todo[s] \ {e}) = Rows(todo[s]) \ {old}
      /\ \A r \in cart : r.id = old.id => r = old
  BY <1>2, <1>3, <1>f, LinesBehind DEF FlowInv, AtLine
<1>5. ~e.delete /\ call[s].id = old.id /\ call[s].qty = e.qty
  BY <1>1, <1>2, <1>f, <1>4 DEF WaitsFor, DeleteCall, PutCall, Edit
<1>6. cart' = rest \cup {new}
  BY <1>1, <1>4, <1>5
<1>7. Rows(Left(s)') \subseteq cart'
  BY <1>3, <1>4, <1>6
<1>8. GridIsCart(s)' /\ WaitsFor(s)' /\ Answered(s)'
  <2>1. GridIsCart(s)'
    BY <1>1, <1>2, <1>7, <1>f DEF GridIsCart, Answer
  <2>2. WaitsFor(s)' /\ Answered(s)'
    BY <1>1, <1>2, <1>3, <1>f DEF WaitsFor, Answered, Answer
  <2> QED
    BY <2>1, <2>2
<1>9. ASSUME NEW p \in Products PROVE Held(p)' + Due(s, p)' >= Held(p) + Due(s, p)
  <2>1. /\ old \in Row /\ new \in Row /\ new \notin rest
        /\ new.product = old.product /\ new.qty = e.qty /\ e.qty \in Nat /\ old.qty \in Nat
    <3>1. old \in Row /\ e.qty \in Nat
      BY <1>4 DEF Edit
    <3>2. new.id = old.id /\ new.product = old.product /\ new.qty = e.qty /\ new \in Row
      BY <3>1 DEF Row
    <3> QED
      BY <1>4, <3>1, <3>2 DEF Row
  <2>2. rest \in SUBSET Row /\ IsFiniteSet(rest) /\ cart \in SUBSET Row /\ IsFiniteSet(cart)
    BY <1>f, FS_Subset DEF DbTyped, StoreInv, TableInv
  <2>3. UnitsIn(cart, p) = UnitsIn(rest, p) + IF old.product = p THEN old.qty ELSE 0
    BY <1>4, <2>2, UnitsOfRows
  <2>4. UnitsIn(cart', p) = UnitsIn(rest, p) + IF old.product = p THEN e.qty ELSE 0
    <3> HIDE DEF new, rest
    <3>1. UnitsIn(rest \cup {new}, p) = UnitsIn(rest, p) + IF new.product = p THEN new.qty ELSE 0
      BY <2>1, <2>2, UnitsOfMoreRows
    <3> QED
      BY <1>6, <2>1, <3>1
  <2>5. UnitsIn(rest, p) \in Nat
    BY <2>2, UnitsOfRows
  <2>6. Due(s, p) = IF old.product = p THEN e.qty - old.qty ELSE 0
    BY <1>2, <1>5 DEF Due, HalfSaved, LineDue, Answer
  <2>7. Due(s, p)' = 0
    BY <1>1, <1>2 DEF Due, HalfSaved, Cleaning, Answer
  <2>8. Held(p)' = stock[p] + UnitsIn(cart', p) + Ordered(p)
    BY <1>1 DEF Held, UnitsIn, Ordered
  <2>9. stock[p] \in Nat /\ Ordered(p) \in Int
    BY UnitsTyped DEF StoreInv, HeldTyped
  <2> HIDE DEF new, rest, old, e
  <2> QED
    BY <2>1, <2>3, <2>4, <2>5, <2>6, <2>7, <2>8, <2>9 DEF Held
<1> QED
  BY <1>8, <1>9 DEF KeepsUnits

\* A line is deleted, because it was marked (its units are back in the stock)
\* or because it was ordered (its units are in the order).
LEMMA DeleteKeepsUnits ==
  ASSUME StoreInv, NEW s \in Sessions, NEW ok \in BOOLEAN, Answer(s, ok),
         DeleteCartItem(call[s], ok)
  PROVE  KeepsUnits(s)
<1>f. GridIsCart(s) /\ WaitsFor(s) /\ Answered(s) /\ DbTyped /\ UiTyped /\ FlowInv
  BY DEF StoreInv, FlowsInv, TypedInv
<1> DEFINE e == Current(s)
           old == e.row
<1>1. /\ stock' = stock /\ orders' = orders /\ call[s].op = "delete_cart_item"
      /\ cart' = {r \in cart : r.id # call[s].id} /\ reply'[s] = "ok"
  BY DEF DeleteCartItem, Answer
<1>2. pc[s] \in {"save_cart", "cleanup"}
  BY <1>1, <1>f DEF WaitsFor, UiTyped, Pc, NoCall, StockCall
<1>3. Left(s)' = todo[s] \ {e} /\ Left(s) = todo[s] /\ e' = e
  BY <1>1, <1>2, CurrentStays DEF Left, Answer
<1>4. /\ todo[s] # {} /\ e \in todo[s] /\ e \in Edit /\ old \in cart
      /\ Rows(todo[s]) \subseteq cart /\ Rows(todo[s] \ {e}) = Rows(todo[s]) \ {old}
      /\ \A r \in cart : r.id = old.id => r = old
  BY <1>2, <1>3, <1>f, LinesBehind DEF FlowInv, AtLine
<1>5. call[s].id = old.id /\ (pc[s] = "save_cart" => e.delete)
  BY <1>1, <1>2, <1>f, <1>4 DEF WaitsFor, DeleteCall, PutCall, Edit
<1>6. cart' = cart \ {old}
  BY <1>1, <1>4, <1>5
<1>7. Rows(Left(s)') \subseteq cart'
  BY <1>3, <1>4, <1>6
<1>8. GridIsCart(s)' /\ WaitsFor(s)' /\ Answered(s)'
  <2>1. GridIsCart(s)'
    BY <1>1, <1>2, <1>7, <1>f DEF GridIsCart, Answer
  <2>2. WaitsFor(s)' /\ Answered(s)'
    BY <1>1, <1>2, <1>3, <1>f DEF WaitsFor, Answered, Answer
  <2> QED
    BY <2>1, <2>2
<1>9. ASSUME NEW p \in Products PROVE Held(p)' + Due(s, p)' >= Held(p) + Due(s, p)
  <2> DEFINE units == IF old.product = p THEN old.qty ELSE 0
             lines == Rows(todo[s])
  <2>1. cart \in SUBSET Row /\ IsFiniteSet(cart) /\ units \in Nat
    BY <1>4, <1>f DEF DbTyped, StoreInv, TableInv, Row
  <2>2. UnitsIn(cart, p) = UnitsIn(cart', p) + units /\ UnitsIn(cart', p) \in Nat
    BY <1>4, <1>6, <2>1, UnitsOfRows
  <2>3. Held(p)' = stock[p] + UnitsIn(cart', p) + Ordered(p)
    BY <1>1 DEF Held, UnitsIn, Ordered
  <2>4. stock[p] \in Nat /\ Ordered(p) \in Int
    BY UnitsTyped DEF StoreInv, HeldTyped
  <2>5. CASE pc[s] = "save_cart"
    <3>1. Due(s, p) = 0 - units
      BY <1>4, <1>5, <2>5 DEF Due, HalfSaved, LineDue, Answer, Edit, Row
    <3>2. Due(s, p)' = 0
      BY <1>1, <2>5 DEF Due, HalfSaved, Cleaning, Answer
    <3> HIDE DEF units
    <3> QED
      BY <2>1, <2>2, <2>3, <2>4, <3>1, <3>2 DEF Held
  <2>6. CASE pc[s] = "cleanup"
    <3>1. Due(s, p) = 0 - UnitsIn(lines, p)
      BY <1>3, <2>6 DEF Due, HalfSaved, Cleaning, Answer
    <3>2. Due(s, p)' = 0 - UnitsIn(lines \ {old}, p)
      BY <1>3, <1>4, <2>6 DEF Due, HalfSaved, Cleaning, Answer
    <3>3. lines \in SUBSET Row /\ IsFiniteSet(lines) /\ old \in lines
      BY <1>4, <2>1, FS_Subset DEF Rows
    <3>4. UnitsIn(lines, p) = UnitsIn(lines \ {old}, p) + units /\ UnitsIn(lines \ {old}, p) \in Nat
      <4> HIDE DEF lines, old
      <4> QED
        BY <3>3, UnitsOfRows
    <3> HIDE DEF units, lines
    <3> QED
      BY <2>1, <2>2, <2>3, <2>4, <3>1, <3>2, <3>4 DEF Held
  <2> QED
    BY <1>2, <2>5, <2>6
<1> QED
  BY <1>8, <1>9 DEF KeepsUnits

\* An order holds at least the units of the grid its flow will clean up: it is
\* the whole cart of the customer, and the grid is a part of that cart.
LEMMA OrderKeepsUnits ==
  ASSUME Undisturbed, StoreInv, NEW s \in Sessions, NEW ok \in BOOLEAN, Answer(s, ok),
         InsertOrder(call[s], ok)
  PROVE  KeepsUnits(s)
<1>f. GridIsCart(s) /\ WaitsFor(s) /\ Answered(s) /\ DbTyped /\ UiTyped
  BY DEF StoreInv, FlowsInv, TypedInv
<1> DEFINE items == call[s].items
           new == [id |-> orderSeq + 1, user |-> call[s].user, items |-> items]
<1>1. /\ stock' = stock /\ cart' = cart /\ call[s].op = "insert_order"
      /\ orders' = orders \cup {new} /\ reply'[s] = "ok"
  BY DEF InsertOrder, Answer
<1>2. pc[s] = "order"
  BY <1>1, <1>f DEF WaitsFor, UiTyped, Pc, NoCall, StockCall, DeleteCall, PutCall
<1>3. shown[s] \subseteq items /\ items \subseteq cart
  <2>1. items = CartOf(call[s].user)
    BY <1>1 DEF StoreInv, CurrentInv, Inserting, UpToDate, Answer
  <2>2. call[s].user \in UsersOf[s] /\ \A r \in shown[s] : r.user \in UsersOf[s]
    BY <1>1 DEF StoreInv, OwnInv, Asks, Remembers
  <2>3. \A r \in shown[s] : r.user = call[s].user /\ r \in cart
    BY <1>2, <1>f, <2>2 DEF Undisturbed, SingleCustomer, GridIsCart
  <2> QED
    BY <2>1, <2>3 DEF CartOf
<1>4. Left(s)' = todo[s] /\ Left(s) = todo[s]
  BY <1>2 DEF Left, Answer
<1>5. Rows(Left(s)') \subseteq cart'
  BY <1>1, <1>4, <1>f DEF GridIsCart
<1>6. GridIsCart(s)' /\ WaitsFor(s)' /\ Answered(s)'
  <2>1. GridIsCart(s)'
    BY <1>1, <1>2, <1>5, <1>f DEF GridIsCart, Answer
  <2>2. WaitsFor(s)' /\ Answered(s)'
    BY <1>1, <1>2, <1>f DEF WaitsFor, Answered, Answer
  <2> QED
    BY <2>1, <2>2
<1>7. ASSUME NEW p \in Products PROVE Held(p)' + Due(s, p)' >= Held(p) + Due(s, p)
  <2> DEFINE f == [o \in orders |-> UnitsIn(o.items, p)]
             g == [o \in orders' |-> UnitsIn(o.items, p)]
  <2>1. new \notin orders /\ new.items = items
    <3>1. \A o \in orders : o.id <= orderSeq /\ o.id \in Nat
      BY <1>f DEF StoreInv, TableInv, DbTyped, Order
    <3>2. new.id = orderSeq + 1 /\ orderSeq \in Nat
      BY <1>f DEF DbTyped
    <3> HIDE DEF new
    <3>3. new \notin orders
      BY <3>1, <3>2
    <3> QED
      BY <3>3 DEF new
  <2>2. cart \in SUBSET Row /\ IsFiniteSet(cart) /\ IsFiniteSet(orders)
    BY <1>f DEF DbTyped, StoreInv, TableInv
  <2>3. items \in SUBSET Row /\ IsFiniteSet(items)
    BY <1>3, <2>2, FS_Subset
  <2>4. /\ UnitsIn(items, p) \in Nat /\ UnitsIn(shown[s], p) \in Nat
        /\ UnitsIn(shown[s], p) <= UnitsIn(items, p)
    <3> HIDE DEF items
    <3> QED
      BY <1>3, <2>3, UnitsOfRows
  <2>5. \A o \in orders : f[o] \in Int /\ g[o] = f[o]
    <3>1. \A o \in orders : UnitsIn(o.items, p) \in Int
      BY <1>f, UnitsOfRows DEF DbTyped, Order, StoreInv, TableInv
    <3> QED
      BY <1>1, <3>1
  <2>6. g[new] = UnitsIn(items, p)
    BY <1>1, <2>1
  <2>7. Ordered(p) = SumFunctionOnSet(f, orders) /\ Ordered(p)' = SumFunctionOnSet(g, orders')
    <3>1. DOMAIN f = orders /\ DOMAIN g = orders'
      OBVIOUS
    <3> QED
      BY <3>1 DEF Ordered, SumFunction, UnitsIn
  <2>8. Ordered(p)' = UnitsIn(items, p) + Ordered(p)
    <3> HIDE DEF f, g, new
    <3>1. SumFunctionOnSet(g, orders) = SumFunctionOnSet(f, orders)
      BY <2>2, <2>5, SumSame
    <3>2. \A o \in orders \cup {new} : g[o] \in Int
      BY <2>4, <2>5, <2>6
    <3>3. SumFunctionOnSet(g, orders \cup {new}) = g[new] + SumFunctionOnSet(g, orders)
      BY <2>1, <2>2, <3>2, SumAdd
    <3> QED
      BY <1>1, <2>6, <2>7, <3>1, <3>3
  <2>9. Due(s, p) = 0 /\ Due(s, p)' = 0 - UnitsIn(shown[s], p)
    BY <1>1, <1>2 DEF Due, HalfSaved, Cleaning, Answer
  <2>10. Held(p)' = stock[p] + UnitsIn(cart, p) + Ordered(p)'
    BY <1>1 DEF Held
  <2>11. stock[p] \in Nat /\ UnitsIn(cart, p) \in Nat /\ Ordered(p) \in Int
    BY UnitsTyped DEF StoreInv, HeldTyped
  <2> QED
    BY <2>4, <2>8, <2>9, <2>10, <2>11 DEF Held
<1> QED
  BY <1>6, <1>7 DEF KeepsUnits

-----------------------------------------------------------------------------
\* The first half of create_order: the cart is read, or found empty.
LEMMA ReadKeepsFlow ==
  ASSUME StoreInv, NEW s \in Sessions, ServeCreateOrder(s)
  PROVE  FlowKept(s)
<1>f. GridIsCart(s) /\ WaitsFor(s) /\ Answered(s) /\ UiTyped
  BY DEF StoreInv, FlowsInv, TypedInv
<1>1. /\ reply[s] = "none" /\ call[s].op = "create_order" /\ cart' = cart
      /\ pc' = pc /\ shown' = shown /\ todo' = todo
      /\ \/ reply'[s] = "refused" /\ call'[s] = call[s]
         \/ reply'[s] = "none" /\ call'[s].op = "insert_order"
  BY <1>f DEF ServeCreateOrder, UiTyped, InsertCall, db
<1>2. pc[s] = "order"
  BY <1>1, <1>f DEF WaitsFor, UiTyped, Pc, NoCall, StockCall, DeleteCall, PutCall
<1>3. Left(s)' = todo[s] /\ Left(s) = todo[s]
  BY <1>1, <1>2 DEF Left
<1>4. Rows(Left(s)') \subseteq cart'
  BY <1>1, <1>3, <1>f DEF GridIsCart
<1>5. GridIsCart(s)'
  BY <1>1, <1>4, <1>f DEF GridIsCart
<1>6. WaitsFor(s)' /\ Answered(s)'
  BY <1>1, <1>2, <1>f DEF WaitsFor, Answered
<1>7. \A p \in Products : Due(s, p)' = Due(s, p)
  BY <1>1, <1>2 DEF Due, HalfSaved, Cleaning
<1> QED
  BY <1>5, <1>6, <1>7 DEF FlowKept

\* A session and the service it calls keep the units of its own flow and do
\* not disturb the flows of others.
LEMMA SessionStepKeepsUnits ==
  ASSUME Undisturbed, StoreInv, NEW s \in Sessions, Script(s) \/ Click(s) \/ Service(s)
  PROVE  KeepsUnits(s) /\ UNCHANGED supply /\ \A x \in Sessions \ {s} : FlowKept(x)
<1>u. UiTyped /\ TypedInv /\ IdInv
  BY DEF StoreInv, TypedInv
<1>s. Remembers(s) /\ Asks(s)
  BY DEF StoreInv, OwnInv
<1>1. CASE Script(s) \/ Click(s) \/ ServeCreateOrder(s)
  <2>1. UNCHANGED <<db, supply>>
    BY <1>1 DEF Script, AfterAddCart, AfterAddStock, SaveNextLine, AfterSaveStock, AfterSaveCart,
      AfterCreateOrder, CleanupNextRow, AfterCleanup, Click, ClickAddToCart, ListCartItems,
      ClickSaveChanges, ClickCreateOrder, ServeCreateOrder
  <2>2. FlowKept(s)
    BY <1>1, SavingKeepsFlow, OrderingKeepsFlow, ClickKeepsFlow, ReadKeepsFlow DEF Script
  <2>3. \A p \in Products : Held(p)' = Held(p)
    BY <2>1 DEF db, Held, Ordered, UnitsIn
  <2>4. HeldTyped
    BY UnitsTyped DEF StoreInv
  <2>5. KeepsUnits(s)
    BY <2>2, <2>3, <2>4 DEF KeepsUnits, FlowKept, HeldTyped
  <2>6. ASSUME NEW x \in Sessions, x # s PROVE FlowKept(x)
    <3>1. /\ pc'[x] = pc[x] /\ shown'[x] = shown[x] /\ todo'[x] = todo[x]
          /\ call'[x] = call[x] /\ reply'[x] = reply[x]
      BY <1>1, <1>u, <2>6
      DEF Script, AfterAddCart, AfterAddStock, SaveNextLine, AfterSaveStock, AfterSaveCart,
          AfterCreateOrder, CleanupNextRow, AfterCleanup, Click, ClickAddToCart, ListCartItems,
          ClickSaveChanges, ClickCreateOrder, ServeCreateOrder, Send, Goto, Stop, ClearAndStop,
          UiTyped
    <3>2. \A u : CartOf(u)' = CartOf(u)
      BY <2>1 DEF db, CartOf
    <3> QED
      BY <1>u, <3>1, <3>2, OthersKeepFlow DEF FlowKept, StoreInv, OwnInv, FlowsInv
  <2> QED
    BY <2>1, <2>5, <2>6
<1>2. CASE Serve(s)
  <2>1. PICK ok \in BOOLEAN :
           /\ Handle(call[s], ok)
           /\ reply' = [reply EXCEPT ![s] = IF ok THEN "ok" ELSE "refused"]
    BY <1>2 DEF Serve
  <2>2. UNCHANGED <<pc, userId, shown, todo, call, supply>> /\ reply[s] = "none"
    BY <1>2 DEF Serve
  <2>3. Answer(s, ok)
    BY <1>u, <2>1, <2>2 DEF Answer, UiTyped
  <2>4. KeepsUnits(s)
    BY <2>1, <2>3, AddCartKeepsUnits, PutKeepsUnits, DeleteKeepsUnits, StockKeepsUnits,
       OrderKeepsUnits DEF Handle
  <2>5. ASSUME NEW x \in Sessions, x # s PROVE FlowKept(x)
    <3>1. \A u \in UsersOf[x] : u \notin UsersOf[s]
      BY <2>5 DEF Undisturbed, OwnCustomers
    <3>2. \A u \in UsersOf[x] : CartOf(u)' = CartOf(u)
      BY <1>s, <1>u, <2>1, <3>1, HandleStaysWithOwn
    <3>3. reply'[x] = reply[x]
      BY <1>u, <2>1, <2>5 DEF UiTyped
    <3> QED
      BY <1>u, <2>2, <3>2, <3>3, OthersKeepFlow DEF FlowKept, StoreInv, OwnInv, FlowsInv
  <2> QED
    BY <2>2, <2>4, <2>5
<1> QED
  BY <1>1, <1>2 DEF Service

\* A withdrawn product takes its stock along, which is nobody's loss.
LEMMA WithdrawKeepsUnits ==
  ASSUME StoreInv, NEW p \in Products, WithdrawProduct(p)
  PROVE  /\ \A s \in Sessions : FlowKept(s)
         /\ \A q \in Products : Held(q)' - supply'[q] = Held(q) - supply[q]
<1>t. TypedInv /\ DbTyped /\ supply \in [Products -> Int]
  BY DEF StoreInv, TypedInv, RestTyped
<1>1. /\ UNCHANGED <<cart, orders, pc, userId, shown, todo, call, reply>>
      /\ stock' = [stock EXCEPT ![p] = 0] /\ supply' = [supply EXCEPT ![p] = @ - stock[p]]
  BY DEF WithdrawProduct, ui
<1>2. \A u : CartOf(u)' = CartOf(u)
  BY <1>1 DEF CartOf
<1>3. \A s \in Sessions : FlowKept(s)
  BY <1>1, <1>2, <1>t, OthersKeepFlow DEF FlowKept, StoreInv, OwnInv, FlowsInv
<1>4. ASSUME NEW q \in Products PROVE Held(q)' - supply'[q] = Held(q) - supply[q]
  <2>1. Held(q)' = stock'[q] + UnitsIn(cart, q) + Ordered(q)
    BY <1>1 DEF Held, UnitsIn, Ordered
  <2>2. stock[q] \in Nat /\ UnitsIn(cart, q) \in Nat /\ Ordered(q) \in Int /\ supply[q] \in Int
    BY <1>t, UnitsTyped DEF StoreInv, HeldTyped
  <2>3. /\ stock'[q] = IF q = p THEN 0 ELSE stock[q]
        /\ supply'[q] = IF q = p THEN supply[q] - stock[q] ELSE supply[q]
    BY <1>1, <1>t DEF DbTyped
  <2> QED
    BY <2>1, <2>2, <2>3 DEF Held
<1> QED
  BY <1>3, <1>4

\* The balance is kept: the session that moves makes up for what the tables
\* lose, and what the others owe does not change.
LEMMA BalanceStep ==
  ASSUME Undisturbed
  PROVE  StoreInv /\ Balanced /\ TypedInv' /\ TableInv' /\ [Next]_vars => FlowsInv' /\ Balanced'
<1> SUFFICES ASSUME StoreInv, Balanced, TypedInv', TableInv', [Next]_vars
             PROVE  FlowsInv' /\ Balanced'
  OBVIOUS
<1>t. HeldTyped /\ TypedInv /\ OwnInv /\ FlowsInv /\ IsFiniteSet(Sessions)
  BY UnitsTyped DEF StoreInv, Undisturbed
<1>s. supply \in [Products -> Int] /\ supply' \in [Products -> Int]
  BY DEF StoreInv, TypedInv, RestTyped
<1>b. ASSUME FlowsInv',
             \A p \in Products : Held(p)' + SumFunctionOnSet(Dues(p)', Sessions) - supply'[p]
                                   >= Held(p) + SumFunctionOnSet(Dues(p), Sessions) - supply[p]
      PROVE  FlowsInv' /\ Balanced'
  <2>h. HeldTyped'
    BY <1>b, UnitsTypedNext
  <2>1. ASSUME NEW p \in Products
        PROVE  Held(p)' + SumFunctionOnSet(Dues(p)', Sessions) >= supply'[p]
    <3> DEFINE f == Dues(p)
               g == Dues(p)'
    <3>1. \A s \in Sessions : f[s] \in Int /\ g[s] \in Int
      BY <1>t, <2>h DEF HeldTyped, Dues
    <3>2. SumFunctionOnSet(f, Sessions) \in Int /\ SumFunctionOnSet(g, Sessions) \in Int
      <4> HIDE DEF f, g
      <4> QED
        BY <1>t, <3>1, SumInt
    <3>3. Held(p) + SumFunctionOnSet(f, Sessions) >= supply[p]
      BY DEF Balanced, Held
    <3>4. Held(p) \in Int /\ Held(p)' \in Int /\ supply[p] \in Int /\ supply'[p] \in Int
      BY <1>s, <1>t, <2>h DEF HeldTyped
    <3> QED
      BY <1>b, <3>2, <3>3, <3>4
  <2>2. Balanced'
    BY <2>1 DEF Balanced, Held
  <2> QED
    BY <1>b, <2>2
<1>k. ASSUME \A s \in Sessions : FlowKept(s),
             \A p \in Products : Held(p)' - supply'[p] = Held(p) - supply[p]
      PROVE  FlowsInv' /\ Balanced'
  <2>1. FlowsInv'
    BY <1>k DEF FlowKept, FlowsInv
  <2>2. \A p \in Products : Dues(p)' = Dues(p)
    BY <1>k DEF FlowKept, Dues
  <2>h. HeldTyped'
    BY <2>1, UnitsTypedNext
  <2>3. ASSUME NEW p \in Products
        PROVE  Held(p)' + SumFunctionOnSet(Dues(p)', Sessions) - supply'[p]
                 >= Held(p) + SumFunctionOnSet(Dues(p), Sessions) - supply[p]
    <3> DEFINE sum == SumFunctionOnSet(Dues(p), Sessions)
    <3>1. \A s \in Sessions : Dues(p)[s] \in Int
      BY <1>t DEF HeldTyped, Dues
    <3>2. sum \in Int
      BY <1>t, <3>1, SumInt
    <3>3. SumFunctionOnSet(Dues(p)', Sessions) = sum
      BY <2>2
    <3>4. Held(p) \in Int /\ Held(p)' \in Int /\ supply[p] \in Int /\ supply'[p] \in Int
      BY <1>s, <1>t, <2>h DEF HeldTyped
    <3> HIDE DEF sum
    <3>5. Held(p)' + sum - supply'[p] >= Held(p) + sum - supply[p]
      BY <1>k, <3>2, <3>4
    <3> QED
      BY <3>3, <3>5 DEF sum
  <2> QED
    BY <1>b, <2>1, <2>3
<1>1. CASE UNCHANGED vars
  <2>1. \A s \in Sessions : FlowKept(s)
    <3>1. \A u : CartOf(u)' = CartOf(u)
      BY <1>1 DEF vars, db, CartOf
    <3> QED
      BY <1>1, <1>t, <3>1, OthersKeepFlow DEF FlowKept, OwnInv, FlowsInv, vars, ui
  <2>2. \A p \in Products : Held(p)' - supply'[p] = Held(p) - supply[p]
    BY <1>1 DEF vars, db, Held, Ordered, UnitsIn
  <2> QED
    BY <1>k, <2>1, <2>2
<1>2. ASSUME NEW p \in Products, WithdrawProduct(p) PROVE FlowsInv' /\ Balanced'
  BY <1>2, <1>k, WithdrawKeepsUnits
<1>3. ASSUME NEW s \in Sessions, Script(s) \/ Click(s) \/ Service(s) PROVE FlowsInv' /\ Balanced'
  <2>1. KeepsUnits(s) /\ UNCHANGED supply /\ \A x \in Sessions \ {s} : FlowKept(x)
    BY <1>3, SessionStepKeepsUnits
  <2>2. FlowsInv'
    BY <2>1 DEF FlowsInv, FlowKept, KeepsUnits
  <2>h. HeldTyped'
    BY <2>2, UnitsTypedNext
  <2>3. ASSUME NEW p \in Products
        PROVE  Held(p)' + SumFunctionOnSet(Dues(p)', Sessions) - supply'[p]
                 >= Held(p) + SumFunctionOnSet(Dues(p), Sessions) - supply[p]
    <3> DEFINE f == Dues(p)
               g == Dues(p)'
    <3>1. /\ \A x \in Sessions : f[x] \in Int /\ g[x] \in Int
          /\ f[s] = Due(s, p) /\ g[s] = Due(s, p)'
          /\ \A x \in Sessions \ {s} : g[x] = f[x]
      BY <1>t, <2>1, <2>h DEF HeldTyped, Dues, FlowKept
    <3> HIDE DEF f, g
    <3>2. SumFunctionOnSet(g, Sessions) = SumFunctionOnSet(f, Sessions) + g[s] - f[s]
      BY <1>t, <3>1, SumChange
    <3>3. SumFunctionOnSet(f, Sessions) \in Int
      BY <1>t, <3>1, SumInt
    <3>4. /\ Held(p) \in Int /\ Held(p)' \in Int /\ supply[p] \in Int /\ supply'[p] = supply[p]
          /\ Held(p)' + g[s] >= Held(p) + f[s]
      BY <1>s, <1>t, <2>1, <2>h, <3>1 DEF HeldTyped, KeepsUnits
    <3>5. Held(p)' + SumFunctionOnSet(g, Sessions) - supply'[p]
            >= Held(p) + SumFunctionOnSet(f, Sessions) - supply[p]
      BY <3>1, <3>2, <3>3, <3>4
    <3> QED
      BY <3>5 DEF f, g
  <2> QED
    BY <1>b, <2>2, <2>3
<1>4. "refuse" \notin Events /\ "timeout" \notin Events /\ "rerun" \notin Events
  BY DEF Undisturbed
<1> QED
  BY <1>1, <1>2, <1>3, <1>4 DEF Next, Refuse, Timeout, Abandon, StoreInv, NobodyLate

\* Everything is in stock, nothing is owed.
LEMMA BalanceInit ==
  ASSUME Undisturbed
  PROVE  Init => TableInv /\ FlowsInv /\ Balanced
<1> SUFFICES ASSUME Init PROVE TableInv /\ FlowsInv /\ Balanced
  OBVIOUS
<1>1. TableInv
  BY FS_EmptySet DEF Init, TableInv
<1>2. \A s \in Sessions : Left(s) = {} /\ \A p : Due(s, p) = 0
  BY DEF Init, Left, Due, HalfSaved, Cleaning
<1>3. FlowsInv
  BY <1>2 DEF Init, FlowsInv, GridIsCart, WaitsFor, Answered, Rows, NoCall
<1>4. Balanced
  <2> SUFFICES ASSUME NEW p \in Products
               PROVE  stock[p] + UnitsIn(cart, p) + Ordered(p)
                        + SumFunctionOnSet(Dues(p), Sessions) >= supply[p]
    BY DEF Balanced
  <2>1. UnitsIn(cart, p) = 0
    BY NoUnits DEF Init
  <2>2. Ordered(p) = 0
    BY SumEmpty DEF Init, Ordered, SumFunction
  <2>3. SumFunctionOnSet(Dues(p), Sessions) \in Nat
    <3>1. \A s \in Sessions : Dues(p)[s] \in Nat
      BY <1>2 DEF Dues
    <3> QED
      BY <3>1, SumSubset DEF Undisturbed
  <2>4. stock[p] = supply[p] /\ stock[p] \in Nat
    BY QuantitiesAssumption DEF Init
  <2> QED
    BY <2>1, <2>2, <2>3, <2>4
<1> QED
  BY <1>1, <1>3, <1>4

\* What the flows owe is at most what is on the way in saves: an order and an
\* addition to the cart only owe to take something out again.
LEMMA NothingOwedNothingLost ==
  ASSUME Undisturbed
  PROVE  StoreInv /\ Balanced => NoUnitsLost
<1> SUFFICES ASSUME StoreInv, Balanced, NEW p \in Products
             PROVE  stock[p] + UnitsIn(cart, p) + Ordered(p) + OnTheWay(p) >= supply[p]
  BY DEF NoUnitsLost
<1>t. HeldTyped /\ UiTyped /\ FlowInv /\ TableInv /\ FlowsInv /\ DbTyped
      /\ supply[p] \in Int /\ IsFiniteSet(Sessions)
  BY UnitsTyped DEF StoreInv, TypedInv, RestTyped, Undisturbed
<1> DEFINE g == [s \in Sessions |->
                   IF TakenOut(s, p) THEN Current(s).qty - Current(s).row.qty ELSE 0]
           f == Dues(p)
<1>1. OnTheWay(p) = SumFunctionOnSet(g, Sessions)
  <2>1. DOMAIN g = Sessions
    OBVIOUS
  <2> QED
    BY <2>1 DEF OnTheWay, SumFunction
<1>2. ASSUME NEW s \in Sessions
      PROVE  f[s] \in Int /\ g[s] \in Int /\ f[s] <= g[s]
  <2>f. GridIsCart(s) /\ WaitsFor(s)
    BY <1>t DEF FlowsInv
  <2>1. f[s] = Due(s, p) /\ Due(s, p) \in Int
    BY <1>t DEF HeldTyped, Dues
  <2>2. CASE HalfSaved(s)
    <3>1. todo[s] \in SUBSET Edit /\ todo[s] # {}
      BY <1>t, <2>2 DEF UiTyped, FlowInv, AtLine, HalfSaved
    <3>2. Current(s) \in Edit
      BY <3>1, CurrentExists
    <3>3. /\ Current(s).qty \in Nat /\ Current(s).row.qty \in Nat
          /\ Current(s).delete \in BOOLEAN
      BY <3>2 DEF Edit, Row
    <3>4. Due(s, p) = IF Current(s).row.product = p THEN LineDue(Current(s)) ELSE 0
      BY <2>2 DEF Due, HalfSaved
    <3>5. TakenOut(s, p) <=> /\ ~Current(s).delete /\ Current(s).qty > Current(s).row.qty
                             /\ Current(s).row.product = p
      BY <2>2 DEF TakenOut, HalfSaved
    <3> QED
      BY <2>1, <3>3, <3>4, <3>5 DEF LineDue
  <2>3. CASE ~HalfSaved(s)
    <3>1. g[s] = 0
      BY <2>3 DEF TakenOut, HalfSaved
    <3>2. pc[s] = "add_cart" => call[s].qty \in Nat
      BY <1>t, <2>f, CallFields DEF WaitsFor, UiTyped
    <3>3. pc[s] = "add_stock" => call[s].change \in Int /\ call[s].change <= 0
      BY <1>t, <2>f, CallFields DEF WaitsFor, UiTyped
    <3>4. \A rows \in SUBSET cart : UnitsIn(rows, p) \in Nat
      BY <1>t, UnitsOfRows DEF DbTyped, TableInv
    <3>5. /\ pc[s] = "order" => UnitsIn(shown[s], p) \in Nat
          /\ UnitsIn(Rows(Left(s)), p) \in Nat
      BY <2>f, <3>4 DEF GridIsCart
    <3>6. Due(s, p) <= 0
      BY <2>3, <3>2, <3>3, <3>5 DEF Due
    <3> QED
      BY <2>1, <3>1, <3>6
  <2> QED
    BY <2>2, <2>3
<1>3. SumFunctionOnSet(f, Sessions) \in Int /\ SumFunctionOnSet(g, Sessions) \in Int
  <2> HIDE DEF f, g
  <2> QED
    BY <1>2, <1>t, SumInt
<1>4. SumFunctionOnSet(f, Sessions) <= SumFunctionOnSet(g, Sessions)
  <2> HIDE DEF f, g
  <2> QED
    BY <1>2, <1>t, SumMonotone
<1>5. stock[p] + UnitsIn(cart, p) + Ordered(p) + SumFunctionOnSet(f, Sessions) >= supply[p]
  BY DEF Balanced
<1>6. stock[p] \in Nat /\ UnitsIn(cart, p) \in Nat /\ Ordered(p) \in Int
  BY <1>t DEF HeldTyped
<1> HIDE DEF f, g
<1> QED
  BY <1>1, <1>3, <1>4, <1>5, <1>6, <1>t

\* As long as each session serves one customer, no two the same, and every call
\* is answered, no unit disappears: after every step of any number of sessions
\* that add to carts, save edited grids and order, a unit that was brought in
\* is in stock, in a cart, in an order, or taken out of the stock by a save
\* that has still to store the row it is for (ui/cart_ui.py moves it with two
\* calls, which nothing makes one transaction).
THEOREM NoUnitDisappears ==
  ASSUME Undisturbed
  PROVE  Spec => []NoUnitsLost
<1>o. OwnCustomers /\ "timeout" \notin Events
  BY DEF Undisturbed
<1>1. Init => StoreInv /\ Balanced
  BY TypedInit, IdInit, OwnInit, BalanceInit DEF StoreInv
<1>2. StoreInv /\ Balanced /\ [Next]_vars => StoreInv' /\ Balanced'
  BY <1>o, TypedStep, IdStep, OwnStep, CurrentStep, NobodyLateStep, TableStep, BalanceStep DEF StoreInv
<1>3. StoreInv /\ Balanced => NoUnitsLost
  BY NothingOwedNothingLost
<1> QED
  BY <1>1, <1>2, <1>3, PTL DEF Spec
=============================================================================
