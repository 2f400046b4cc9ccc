-------------------------- MODULE OnlineStoreProofs -------------------------
(***************************************************************************)
(* Proofs about OnlineStore, for any number of customers, products and     *)
(* sessions and with every kind of event: type correctness, that the       *)
(* identifier of a cart row means one row for ever, and that the clean-up  *)
(* after an order deletes only what was ordered as long as each session    *)
(* serves one customer.                                                    *)
(***************************************************************************)
EXTENDS OnlineStore, FiniteSetTheorems, WellFoundedInduction, TLAPS

-----------------------------------------------------------------------------
(***************************************************************************)
(* Typing.  TypeOK is split by owner: the tables of the services, the      *)
(* state of the sessions, and the rest.                                    *)
(***************************************************************************)
DbTyped ==
    /\ onSale \subseteq Products
    /\ stock \in [Products -> Nat]
    /\ cart \subseteq Row /\ cartSeq \in Nat
    /\ orders \subseteq Order /\ orderSeq \in Nat

UiTyped ==
    /\ pc \in [Sessions -> Pc]
    /\ userId \in [Sessions -> Users \cup {NoUser}]
    /\ shown \in [Sessions -> SUBSET Row]
    /\ todo \in [Sessions -> SUBSET Edit]
    /\ call \in [Sessions -> Call \cup {NoCall}]
    /\ reply \in [Sessions -> {"none", "ok", "refused", "exception"}]

RestTyped ==
    /\ late \subseteq [nr : Nat, call : Call]
    /\ faults \in 0 .. MaxFaults
    /\ supply \in [Products -> Int]

\* A script that waits for the answer about a line has lines left, and one
\* that waits for "Add to Cart" waits for that call.
AtLine(s) == pc[s] \in {"save_stock", "save_cart", "cleanup"}

FlowInv ==
    \A s \in Sessions :
        /\ AtLine(s) => todo[s] # {}
        /\ pc[s] = "add_cart" => call[s].op = "add_cart_item"

TypedInv == DbTyped /\ UiTyped /\ RestTyped /\ FlowInv

\* The typing invariant contains the type invariant the runs check.
LEMMA TypedIsTypeOK == TypedInv => TypeOK
  BY DEF TypedInv, DbTyped, UiTyped, RestTyped, TypeOK

\* The parameters of a call, by its operation.
LEMMA CallFields ==
  ASSUME NEW c \in Call \cup {NoCall}
  PROVE  /\ c.op = "add_cart_item" => c.user \in Users /\ c.product \in Products /\ c.qty \in Nat
         /\ c.op = "update_stock" => c.product \in Products /\ c.change \in Int
         /\ c.op = "delete_cart_item" => c.id \in Nat
         /\ c.op = "update_cart_item" => c.id \in Nat /\ c.qty \in Nat
         /\ c.op = "create_order" => c.user \in Users
         /\ c.op = "insert_order" => c.user \in Users /\ c.items \in SUBSET Row
         /\ c.op # "none" => c \in Call
  BY DEF Call, NoCall

\* The calls the scripts make are calls.
LEMMA CallsTyped ==
  /\ \A u \in Users, p \in Products, q \in Nat : AddCall(u, p, q) \in Call
  /\ \A p \in Products, d \in Int : StockCall(p, d) \in Call
  /\ \A i \in Nat : DeleteCall(i) \in Call
  /\ \A i, q \in Nat : PutCall(i, q) \in Call
  /\ \A u \in Users : OrderCall(u) \in Call
  /\ \A u \in Users, rows \in SUBSET Row : InsertCall(u, rows) \in Call
  BY DEF Call, AddCall, StockCall, DeleteCall, PutCall, OrderCall, InsertCall

\* A loop over the grid that has lines left is at one of them.
LEMMA CurrentExists ==
  ASSUME NEW s \in Sessions, todo[s] \in SUBSET Edit, todo[s] # {}
  PROVE  Current(s) \in todo[s]
<1> DEFINE ids == {e.row.id : e \in todo[s]}
           below == {ss \in Nat \X Nat : ss[1] < ss[2]}
<1>1. ids \subseteq Nat /\ ids # {}
  BY DEF Edit, Row
<1>2. IsWellFoundedOn(below, Nat)
  BY NatLessThanWellFounded DEF OpToRel
<1>3. \A m, n \in Nat : <<m, n>> \notin below => n <= m
  OBVIOUS
<1>4. PICK n \in ids : \A m \in ids : <<m, n>> \notin below
  <2> HIDE DEF below, ids
  <2> QED
    BY <1>1, <1>2, WFMin, Zenon
<1>5. PICK e \in todo[s] : e.row.id = n
  OBVIOUS
<1>6. \A f \in todo[s] : e.row.id <= f.row.id
  <2> HIDE DEF below
  <2> QED
    BY <1>1, <1>3, <1>4, <1>5
<1> QED
  BY <1>6 DEF Current

\* What a script does to its program counter, its call and its reply.
LEMMA SendTyped ==
  ASSUME UiTyped, NEW s \in Sessions, NEW c \in Call, NEW at \in Pc, Send(s, c, at)
  PROVE  /\ pc' \in [Sessions -> Pc]
         /\ call' \in [Sessions -> Call \cup {NoCall}]
         /\ reply' \in [Sessions -> {"none", "ok", "refused", "exception"}]
         /\ pc'[s] = at /\ call'[s] = c
         /\ \A x \in Sessions \ {s} : pc'[x] = pc[x] /\ call'[x] = call[x]
  BY DEF UiTyped, Send

\* Goto leaves a typed session behind.
LEMMA GotoTyped ==
  ASSUME UiTyped, NEW s \in Sessions, NEW at \in Pc, Goto(s, at)
  PROVE  /\ pc' \in [Sessions -> Pc]
         /\ call' \in [Sessions -> Call \cup {NoCall}]
         /\ reply' \in [Sessions -> {"none", "ok", "refused", "exception"}]
         /\ pc'[s] = at /\ call'[s] = NoCall
         /\ \A x \in Sessions \ {s} : pc'[x] = pc[x] /\ call'[x] = call[x]
  BY DEF UiTyped, Goto

\* The state of the sessions after the moves a script can make: it waits for
\* an answer, goes on with other lines, or ends.
LEMMA SendKeepsUi ==
  ASSUME UiTyped, FlowInv, NEW s \in Sessions, NEW c \in Call, NEW at \in Pc, Send(s, c, at),
         UNCHANGED <<userId, shown, todo>>,
         at \in {"save_stock", "save_cart", "cleanup"} => todo[s] # {},
         at = "add_cart" => c.op = "add_cart_item"
  PROVE  UiTyped' /\ FlowInv'
<1>1. UiTyped'
  BY SendTyped DEF UiTyped
<1>2. FlowInv'
  BY SendTyped DEF FlowInv, AtLine
<1> QED
  BY <1>1, <1>2

\* A script that leaves its call without an end keeps the sessions typed.
LEMMA GotoKeepsUi ==
  ASSUME UiTyped, FlowInv, NEW s \in Sessions,
         NEW at \in {"idle", "save_next", "cleanup_next"}, Goto(s, at),
         NEW lines \in SUBSET Edit, todo' = [todo EXCEPT ![s] = lines],
         userId' \in [Sessions -> Users \cup {NoUser}],
         shown' \in [Sessions -> SUBSET Row]
  PROVE  UiTyped' /\ FlowInv'
<1>1. at \in Pc
  BY DEF Pc
<1>2. UiTyped'
  BY <1>1, GotoTyped DEF UiTyped
<1>3. todo'[s] = lines /\ \A x \in Sessions \ {s} : todo'[x] = todo[x]
  BY DEF UiTyped
<1>4. FlowInv'
  BY <1>1, <1>3, GotoTyped DEF FlowInv, AtLine
<1> QED
  BY <1>2, <1>4

\* The two ends of a script, with and without clearing the grid, keep the
\* sessions typed.
LEMMA StopKeepsUi ==
  ASSUME UiTyped, FlowInv, NEW s \in Sessions, Stop(s) \/ ClearAndStop(s)
  PROVE  UiTyped' /\ FlowInv'
<1>1. Goto(s, "idle") /\ todo' = [todo EXCEPT ![s] = {}]
  BY DEF Stop, ClearAndStop
<1>2. userId' \in [Sessions -> Users \cup {NoUser}] /\ shown' \in [Sessions -> SUBSET Row]
  BY DEF Stop, ClearAndStop, UiTyped
<1> QED
  BY <1>1, <1>2, GotoKeepsUi

\* A run that is abandoned ends the flow; it keeps the grid and at most forgets
\* the customer.
LEMMA AbandonEndsFlow ==
  ASSUME UiTyped, NEW s \in Sessions, Abandon(s)
  PROVE  /\ Goto(s, "idle") /\ todo' = [todo EXCEPT ![s] = {}]
         /\ UNCHANGED <<db, shown, late, supply>>
         /\ userId' \in [Sessions -> Users \cup {NoUser}]
         /\ userId'[s] = userId[s] \/ userId'[s] = NoUser
         /\ pc'[s] = "idle" /\ call'[s] = NoCall /\ todo'[s] = {}
         /\ \A x \in Sessions \ {s} :
               /\ pc'[x] = pc[x] /\ call'[x] = call[x] /\ reply'[x] = reply[x]
               /\ userId'[x] = userId[x] /\ todo'[x] = todo[x]
<1>1. userId' = userId \/ userId' = [userId EXCEPT ![s] = NoUser]
  BY DEF Abandon
<1>2. Goto(s, "idle") /\ todo' = [todo EXCEPT ![s] = {}] /\ UNCHANGED <<db, shown, late, supply>>
  BY DEF Abandon
<1> QED
  BY <1>1, <1>2 DEF Goto, UiTyped

-----------------------------------------------------------------------------
\* Carts and orders are empty in the beginning and nobody clicked yet.
LEMMA TypedInit == Init => TypedInv
<1> SUFFICES ASSUME Init PROVE TypedInv
  OBVIOUS
<1>1. DbTyped
  BY QuantitiesAssumption DEF Init, DbTyped
<1>2. UiTyped
  BY DEF Init, UiTyped, Pc
<1>3. RestTyped
  BY QuantitiesAssumption, BoundsAssumption DEF Init, RestTyped
<1>4. FlowInv
  BY DEF Init, FlowInv, AtLine
<1> QED
  BY <1>1, <1>2, <1>3, <1>4 DEF TypedInv

\* The handlers of the services keep the tables typed.
LEMMA HandleTyped ==
  ASSUME DbTyped, NEW c \in Call \cup {NoCall}, NEW ok \in BOOLEAN, Handle(c, ok)
  PROVE  DbTyped'
<1>1. CASE AddCartItem(c, ok)
  <2>1. [id |-> cartSeq + 1, user |-> c.user, product |-> c.product, qty |-> c.qty] \in Row
    BY <1>1, CallFields DEF AddCartItem, DbTyped, Row
  <2> QED
    BY <1>1, <2>1 DEF AddCartItem, DbTyped
<1>2. CASE UpdateCartItem(c, ok)
  <2>1. c.qty \in Nat
    BY <1>2, CallFields DEF UpdateCartItem
  <2>2. cart' \subseteq Row
    BY <1>2, <2>1 DEF UpdateCartItem, DbTyped, Row
  <2> QED
    BY <1>2, <2>2 DEF UpdateCartItem, DbTyped
<1>3. CASE DeleteCartItem(c, ok)
  BY <1>3 DEF DeleteCartItem, DbTyped
<1>4. CASE UpdateStock(c, ok)
  <2>1. c.product \in Products /\ c.change \in Int
    BY <1>4, CallFields DEF UpdateStock
  <2> QED
    BY <1>4, <2>1 DEF UpdateStock, DbTyped
<1>5. CASE InsertOrder(c, ok)
  <2>1. [id |-> orderSeq + 1, user |-> c.user, items |-> c.items] \in Order
    BY <1>5, CallFields DEF InsertOrder, DbTyped, Order
  <2> QED
    BY <1>5, <2>1 DEF InsertOrder, DbTyped
<1> QED
  BY <1>1, <1>2, <1>3, <1>4, <1>5 DEF Handle

\* The rows of a customer are rows.
LEMMA CartOfTyped ==
  ASSUME DbTyped, NEW u PROVE CartOf(u) \in SUBSET Row /\ CartOf(u) \in SUBSET cart
  BY DEF DbTyped, CartOf

\* A service at work, a refusal or a time-out keeps everything typed.
LEMMA ServiceTyped ==
  ASSUME TypedInv,
         \/ \E s \in Sessions : Service(s) \/ Refuse(s) \/ Timeout(s)
         \/ \E l \in late : LateService(l)
         \/ \E p \in Products : WithdrawProduct(p)
  PROVE  TypedInv'
<1> USE DEF TypedInv
<1>1. ASSUME NEW s \in Sessions, Serve(s) PROVE TypedInv'
  <2>1. PICK ok \in BOOLEAN :
           /\ Handle(call[s], ok)
           /\ reply' = [reply EXCEPT ![s] = IF ok THEN "ok" ELSE "refused"]
    BY <1>1 DEF Serve
  <2>2. DbTyped'
    BY <2>1, HandleTyped DEF UiTyped
  <2>3. UiTyped' /\ RestTyped' /\ FlowInv'
    BY <1>1, <2>1 DEF Serve, UiTyped, RestTyped, FlowInv, AtLine
  <2> QED
    BY <2>2, <2>3
<1>2. ASSUME NEW s \in Sessions, ServeCreateOrder(s) PROVE TypedInv'
  <2>1. call[s].user \in Users
    BY <1>2, CallFields DEF ServeCreateOrder, UiTyped
  <2>2. InsertCall(call[s].user, CartOf(call[s].user)) \in Call
    BY <2>1, CallsTyped, CartOfTyped
  <2>3. DbTyped' /\ RestTyped'
    BY <1>2 DEF ServeCreateOrder, db, DbTyped, RestTyped
  <2>4. UiTyped'
    BY <1>2, <2>2 DEF ServeCreateOrder, UiTyped
  <2>5. FlowInv'
    BY <1>2 DEF ServeCreateOrder, UiTyped, FlowInv, AtLine
  <2> QED
    BY <2>3, <2>4, <2>5
<1>3. ASSUME NEW s \in Sessions, Refuse(s) PROVE TypedInv'
  <2>1. DbTyped' /\ UiTyped' /\ FlowInv'
    BY <1>3 DEF Refuse, db, DbTyped, UiTyped, FlowInv, AtLine
  <2>2. RestTyped'
    BY <1>3, BoundsAssumption DEF Refuse, RestTyped
  <2> QED
    BY <2>1, <2>2
<1>4. ASSUME NEW s \in Sessions, Timeout(s) PROVE TypedInv'
  <2>1. DbTyped' /\ UiTyped' /\ FlowInv'
    BY <1>4 DEF Timeout, db, DbTyped, UiTyped, FlowInv, AtLine
  <2>2. RestTyped'
    BY <1>4, BoundsAssumption DEF Timeout, UiTyped, RestTyped
  <2> QED
    BY <2>1, <2>2
<1>5. ASSUME NEW l \in late, LateService(l) PROVE TypedInv'
  <2>1. l.nr \in Nat /\ l.call \in Call /\ l = [nr |-> l.nr, call |-> l.call]
    BY DEF RestTyped
  <2>2. UiTyped' /\ FlowInv'
    BY <1>5 DEF LateService, ServeLate, ServeCreateOrderLate, Lose, ui, UiTyped, FlowInv, AtLine
  <2>3. DbTyped'
    <3>1. CASE ServeLate(l)
      BY <2>1, <3>1, HandleTyped DEF ServeLate
    <3>2. CASE ServeCreateOrderLate(l) \/ Lose(l)
      BY <3>2 DEF ServeCreateOrderLate, Lose, db, DbTyped
    <3> QED
      BY <1>5, <3>1, <3>2 DEF LateService
  <2>4. RestTyped'
    <3>1. CASE ServeLate(l) \/ Lose(l)
      BY <3>1 DEF ServeLate, Lose, RestTyped
    <3>2. CASE ServeCreateOrderLate(l)
      <4>1. InsertCall(l.call.user, CartOf(l.call.user)) \in Call
        BY <2>1, <3>2, CallFields, CallsTyped, CartOfTyped DEF ServeCreateOrderLate
      <4>2. [l EXCEPT !.call = InsertCall(l.call.user, CartOf(l.call.user))]
              \in [nr : Nat, call : Call]
        BY <2>1, <4>1
      <4> QED
        BY <3>2, <4>2 DEF ServeCreateOrderLate, RestTyped
    <3> QED
      BY <1>5, <3>1, <3>2 DEF LateService
  <2> QED
    BY <2>2, <2>3, <2>4
<1>6. ASSUME NEW p \in Products, WithdrawProduct(p) PROVE TypedInv'
  <2>1. UiTyped' /\ FlowInv'
    BY <1>6 DEF WithdrawProduct, ui, UiTyped, FlowInv, AtLine
  <2>2. DbTyped' /\ RestTyped'
    BY <1>6 DEF WithdrawProduct, DbTyped, RestTyped
  <2> QED
    BY <2>1, <2>2
<1> QED
  BY <1>1, <1>2, <1>3, <1>4, <1>5, <1>6 DEF Service

\* The line a loop is at, and what it leads to.
LEMMA LineTyped ==
  ASSUME UiTyped, FlowInv, NEW s \in Sessions, AtLine(s) \/ todo[s] # {}
  PROVE  /\ Current(s) \in todo[s]
         /\ Current(s) \in Edit
         /\ Current(s).row \in Row /\ Current(s).row.id \in Nat
         /\ Current(s).row.product \in Products
         /\ Current(s).row.qty \in Nat /\ Current(s).qty \in Nat
         /\ todo[s] \ {Current(s)} \in SUBSET Edit
<1>1. todo[s] \in SUBSET Edit /\ todo[s] # {}
  BY DEF UiTyped, FlowInv
<1>2. Current(s) \in todo[s]
  BY <1>1, CurrentExists
<1> QED
  BY <1>1, <1>2 DEF Edit, Row

\* The scripts and the clicks keep the sessions typed.
LEMMA ScriptTyped ==
  ASSUME TypedInv, NEW s \in Sessions, Script(s)
  PROVE  TypedInv'
<1> USE DEF TypedInv
<1>1. DbTyped' /\ RestTyped'
  BY DEF Script, AfterAddCart, AfterAddStock, SaveNextLine, AfterSaveStock, AfterSaveCart,
         AfterCreateOrder, CleanupNextRow, AfterCleanup, db, DbTyped, RestTyped
<1>s. Stop(s) \/ ClearAndStop(s) => UiTyped' /\ FlowInv'
  BY StopKeepsUi
<1>2. CASE AfterAddCart(s)
  <2>1. CASE reply[s] = "ok" /\ Send(s, StockCall(call[s].product, 0 - call[s].qty), "add_stock")
                             /\ UNCHANGED <<userId, shown, todo>>
    <3>1. call[s].product \in Products /\ 0 - call[s].qty \in Int
      BY <1>2, CallFields DEF AfterAddCart, FlowInv, UiTyped
    <3>2. StockCall(call[s].product, 0 - call[s].qty) \in Call
      BY <3>1, CallsTyped
    <3> QED
      BY <1>1, <2>1, <3>2, SendKeepsUi DEF Pc
  <2> QED
    BY <1>1, <1>2, <1>s, <2>1 DEF AfterAddCart
<1>3. CASE AfterAddStock(s)
  BY <1>1, <1>3, <1>s DEF AfterAddStock
<1>4. CASE SaveNextLine(s)
  <2>1. CASE Stop(s) \/ ClearAndStop(s)
    BY <1>1, <1>s, <2>1
  <2>2. CASE /\ todo[s] # {}
             /\ Send(s, StockCall(Current(s).row.product,
                                  IF Current(s).delete THEN Current(s).qty
                                  ELSE Current(s).row.qty - Current(s).qty), "save_stock")
             /\ UNCHANGED <<userId, shown, todo>>
    <3>1. StockCall(Current(s).row.product,
                    IF Current(s).delete THEN Current(s).qty
                    ELSE Current(s).row.qty - Current(s).qty) \in Call
      BY <2>2, LineTyped, CallsTyped
    <3> QED
      BY <1>1, <2>2, <3>1, SendKeepsUi DEF Pc
  <2> QED
    BY <1>4, <2>1, <2>2 DEF SaveNextLine
<1>5. CASE AfterSaveStock(s)
  <2>1. AtLine(s)
    BY <1>5 DEF AfterSaveStock, AtLine
  <2>2. CASE Stop(s) \/ ClearAndStop(s)
    BY <1>1, <1>s, <2>2
  <2>3. CASE /\ Send(s, IF Current(s).delete THEN DeleteCall(Current(s).row.id)
                        ELSE PutCall(Current(s).row.id, Current(s).qty), "save_cart")
             /\ UNCHANGED <<userId, shown, todo>>
    <3>1. (IF Current(s).delete THEN DeleteCall(Current(s).row.id)
           ELSE PutCall(Current(s).row.id, Current(s).qty)) \in Call
      BY <2>1, LineTyped, CallsTyped
    <3>2. todo[s] # {}
      BY <2>1 DEF FlowInv
    <3> QED
      BY <1>1, <2>3, <3>1, <3>2, SendKeepsUi DEF Pc
  <2>4. CASE /\ Goto(s, "save_next") /\ todo' = [todo EXCEPT ![s] = @ \ {Current(s)}]
             /\ UNCHANGED <<userId, shown>>
    BY <1>1, <2>1, <2>4, LineTyped, GotoKeepsUi DEF UiTyped
  <2> QED
    BY <1>5, <2>2, <2>3, <2>4 DEF AfterSaveStock
<1>6. CASE AfterSaveCart(s)
  <2>1. AtLine(s)
    BY <1>6 DEF AfterSaveCart, AtLine
  <2>2. CASE Stop(s) \/ ClearAndStop(s)
    BY <1>1, <1>s, <2>2
  <2>3. CASE /\ Goto(s, "save_next") /\ todo' = [todo EXCEPT ![s] = @ \ {Current(s)}]
             /\ UNCHANGED <<userId, shown>>
    BY <1>1, <2>1, <2>3, LineTyped, GotoKeepsUi DEF UiTyped
  <2> QED
    BY <1>6, <2>2, <2>3 DEF AfterSaveCart
<1>7. CASE AfterCreateOrder(s)
  <2>1. CASE Stop(s)
    BY <1>1, <1>s, <2>1
  <2>2. CASE /\ Goto(s, "cleanup_next")
             /\ todo' = [todo EXCEPT ![s] =
                           {[row |-> r, delete |-> TRUE, qty |-> r.qty] : r \in shown[s]}]
             /\ UNCHANGED <<userId, shown>>
    <3>1. {[row |-> r, delete |-> TRUE, qty |-> r.qty] : r \in shown[s]} \in SUBSET Edit
      <4>1. \A r \in shown[s] : r \in Row /\ r.qty \in Nat
        BY DEF UiTyped, Row
      <4>2. \A r \in shown[s] : [row |-> r, delete |-> TRUE, qty |-> r.qty] \in Edit
        BY <4>1 DEF Edit
      <4> QED
        BY <4>2
    <3> QED
      BY <1>1, <2>2, <3>1, GotoKeepsUi DEF UiTyped
  <2> QED
    BY <1>7, <2>1, <2>2 DEF AfterCreateOrder
<1>8. CASE CleanupNextRow(s)
  <2>1. CASE todo[s] = {}
    BY <1>1, <1>8, <1>s, <2>1 DEF CleanupNextRow
  <2>2. CASE todo[s] # {}
    <3>1. DeleteCall(Current(s).row.id) \in Call
      BY <2>2, LineTyped, CallsTyped
    <3>2. Send(s, DeleteCall(Current(s).row.id), "cleanup") /\ UNCHANGED <<userId, shown, todo>>
      BY <1>8, <2>2 DEF CleanupNextRow
    <3> QED
      BY <1>1, <2>2, <3>1, <3>2, SendKeepsUi DEF Pc
  <2> QED
    BY <2>1, <2>2
<1>9. CASE AfterCleanup(s)
  <2>1. AtLine(s)
    BY <1>9 DEF AfterCleanup, AtLine
  <2>2. CASE Stop(s)
    BY <1>1, <1>s, <2>2
  <2>3. CASE /\ Goto(s, "cleanup_next") /\ todo' = [todo EXCEPT ![s] = @ \ {Current(s)}]
             /\ UNCHANGED <<userId, shown>>
    BY <1>1, <2>1, <2>3, LineTyped, GotoKeepsUi DEF UiTyped
  <2> QED
    BY <1>9, <2>2, <2>3 DEF AfterCleanup
<1> QED
  BY <1>2, <1>3, <1>4, <1>5, <1>6, <1>7, <1>8, <1>9 DEF Script

\* So does a run that is abandoned.
LEMMA AbandonTyped ==
  ASSUME TypedInv, NEW s \in Sessions, Abandon(s)
  PROVE  TypedInv'
<1> USE DEF TypedInv
<1>1. UiTyped' /\ FlowInv'
  BY AbandonEndsFlow, GotoKeepsUi DEF UiTyped
<1>2. DbTyped' /\ RestTyped'
  BY BoundsAssumption DEF Abandon, db, DbTyped, RestTyped
<1> QED
  BY <1>1, <1>2

\* Clicks, which start the flows, keep everything typed.
LEMMA ClickTyped ==
  ASSUME TypedInv, NEW s \in Sessions, Click(s)
  PROVE  TypedInv'
<1> USE DEF TypedInv
<1>1. DbTyped' /\ RestTyped'
  BY BoundsAssumption
  DEF Click, ClickAddToCart, ListCartItems, ClickSaveChanges, ClickCreateOrder,
      db, DbTyped, RestTyped
<1>2. ASSUME NEW u \in UsersOf[s], ListCartItems(s, u) PROVE TypedInv'
  <2>1. u \in Users
    BY UsersOfAssumption
  <2>2. CartOf(u) \in SUBSET Row
    BY CartOfTyped
  <2>3. UiTyped' /\ FlowInv'
    BY <1>2, <2>1, <2>2 DEF ListCartItems, UiTyped, FlowInv, AtLine
  <2> QED
    BY <1>1, <2>3
<1>3. ASSUME NEW u \in UsersOf[s], NEW p \in Products, NEW q \in Quantities,
             ClickAddToCart(s, u, p, q)
      PROVE  TypedInv'
  <2>1. u \in Users /\ q \in Nat
    BY UsersOfAssumption, QuantitiesAssumption
  <2>2. AddCall(u, p, q) \in Call /\ AddCall(u, p, q).op = "add_cart_item"
    BY <2>1, CallsTyped DEF AddCall
  <2> QED
    BY <1>1, <1>3, <2>2, SendKeepsUi DEF ClickAddToCart, Pc
<1>4. CASE ClickSaveChanges(s)
  <2>1. PICK edits \in Edits(s) : todo' = [todo EXCEPT ![s] = edits]
    BY <1>4 DEF ClickSaveChanges
  <2>2. edits \in SUBSET Edit
    BY QuantitiesAssumption DEF Edits, Edit, UiTyped
  <2> QED
    BY <1>1, <1>4, <2>1, <2>2, GotoKeepsUi DEF ClickSaveChanges, UiTyped
<1>5. CASE ClickCreateOrder(s)
  <2>1. userId[s] \in Users
    BY <1>5 DEF ClickCreateOrder, UiTyped
  <2>2. OrderCall(userId[s]) \in Call
    BY <2>1, CallsTyped
  <2> QED
    BY <1>1, <1>5, <2>2, SendKeepsUi DEF ClickCreateOrder, Pc
<1> QED
  BY <1>2, <1>3, <1>4, <1>5 DEF Click

\* Every step keeps everything typed.
LEMMA TypedStep == TypedInv /\ [Next]_vars => TypedInv'
<1> SUFFICES ASSUME TypedInv, [Next]_vars PROVE TypedInv'
  OBVIOUS
<1>1. CASE UNCHANGED vars
  BY <1>1 DEF vars, db, ui, TypedInv, DbTyped, UiTyped, RestTyped, FlowInv, AtLine
<1> QED
  BY <1>1, ScriptTyped, AbandonTyped, ClickTyped, ServiceTyped DEF Next

\* Type correctness of the store; with it, no level of stock is negative.
THEOREM StoreTypeCorrect == Spec => []TypeOK
  BY TypedInit, TypedStep, TypedIsTypeOK, PTL DEF Spec

-----------------------------------------------------------------------------
(***************************************************************************)
(* Row identity.  RowIdentity is not inductive: an order that is about to  *)
(* be inserted carries rows too, an identifier that was never issued must  *)
(* not be carried, and the rows of the cart must agree with each other     *)
(* before a grid or a call copies them.                                    *)
(***************************************************************************)
RowsOfCall(c) == IF c.op = "insert_order" THEN c.items ELSE {}

Carried ==
    Remembered
    \cup (UNION {RowsOfCall(call[s]) : s \in Sessions})
    \cup (UNION {RowsOfCall(l.call) : l \in late})

IdInv ==
    \A r \in cart \cup Carried :
        /\ r.id <= cartSeq
        /\ \A t \in cart : SameRow(r, t)

\* Where a carried row is.
CarriedAt(r) ==
    \/ \E s \in Sessions : r \in shown[s] \/ \E e \in todo[s] : r = e.row
    \/ \E o \in orders : r \in o.items
    \/ \E s \in Sessions : r \in RowsOfCall(call[s])
    \/ \E l \in late : r \in RowsOfCall(l.call)

CarriedIsSomewhere == \A r : r \in Carried <=> CarriedAt(r)

\* Every carried row is found in one of the five places.
LEMMA CarriedSomewhere == CarriedIsSomewhere
<1> SUFFICES ASSUME NEW r PROVE r \in Carried <=> CarriedAt(r)
  BY DEF CarriedIsSomewhere
<1> DEFINE grids == UNION {shown[s] : s \in Sessions}
           loops == {e.row : e \in UNION {todo[s] : s \in Sessions}}
           ordered == UNION {o.items : o \in orders}
           called == UNION {RowsOfCall(call[s]) : s \in Sessions}
           served == UNION {RowsOfCall(l.call) : l \in late}
<1>1. r \in grids <=> \E s \in Sessions : r \in shown[s]
  BY Zenon
<1>2. r \in loops <=> \E s \in Sessions : \E e \in todo[s] : r = e.row
  BY Zenon
<1>3. r \in ordered <=> \E o \in orders : r \in o.items
  BY Zenon
<1>4. r \in called <=> \E s \in Sessions : r \in RowsOfCall(call[s])
  BY Zenon
<1>5. r \in served <=> \E l \in late : r \in RowsOfCall(l.call)
  BY Zenon
<1>6. Carried = grids \cup loops \cup ordered \cup called \cup served
  BY DEF Carried, Remembered
<1> HIDE DEF grids, loops, ordered, called, served
<1> QED
  BY <1>1, <1>2, <1>3, <1>4, <1>5, <1>6 DEF CarriedAt

\* The same after a step.
LEMMA CarriedSomewhereNext == CarriedIsSomewhere'
  BY CarriedSomewhere, PTL

\* The identifier invariant covers everything the session remembers.
LEMMA IdInvIsRowIdentity == IdInv => RowIdentity
  BY DEF IdInv, Carried, RowIdentity

\* What is carried is a row.
LEMMA CarriedTyped ==
  ASSUME TypedInv PROVE Carried \subseteq Row
<1>1. \A s \in Sessions : RowsOfCall(call[s]) \subseteq Row
  <2>1. ASSUME NEW s \in Sessions, call[s].op = "insert_order" PROVE call[s].items \subseteq Row
    BY <2>1, CallFields DEF TypedInv, UiTyped
  <2> QED
    BY <2>1 DEF RowsOfCall
<1>2. \A l \in late : RowsOfCall(l.call) \subseteq Row
  <2>1. ASSUME NEW l \in late, l.call.op = "insert_order" PROVE l.call.items \subseteq Row
    <3>1. l.call \in Call
      BY DEF TypedInv, RestTyped
    <3> QED
      BY <2>1, <3>1, CallFields
  <2> QED
    BY <2>1 DEF RowsOfCall
<1>3. \A s \in Sessions : shown[s] \subseteq Row /\ \A e \in todo[s] : e.row \in Row
  BY DEF TypedInv, UiTyped, Edit
<1>4. \A o \in orders : o.items \subseteq Row
  BY DEF TypedInv, DbTyped, Order
<1> QED
  BY <1>1, <1>2, <1>3, <1>4, CarriedSomewhere DEF CarriedIsSomewhere, CarriedAt

\* A step that takes over rows only from where they are carried, or from the
\* cart: a grid and an order read the cart, a loop goes over a grid, an order
\* is what its call carried, and a call that timed out is served on.
TakesOver ==
    /\ \A s \in Sessions : shown'[s] \subseteq shown[s] \cup cart
    /\ \A s \in Sessions : \A e \in todo'[s] : e \in todo[s] \/ e.row \in shown[s]
    /\ \A o \in orders' :
          \/ o \in orders
          \/ \E s \in Sessions : o.items \subseteq RowsOfCall(call[s])
          \/ \E l \in late : o.items \subseteq RowsOfCall(l.call)
    /\ \A s \in Sessions : RowsOfCall(call'[s]) \subseteq RowsOfCall(call[s]) \cup cart
    /\ \A l \in late' :
          \/ l \in late
          \/ RowsOfCall(l.call) \subseteq cart
          \/ \E s \in Sessions : l.call = call[s]

\* A session that takes rows over adds at most rows of the cart to what is
\* carried.
LEMMA TakesOverCarried == TakesOver => Carried' \subseteq Carried \cup cart
<1> SUFFICES ASSUME TakesOver, NEW r, CarriedAt(r)' PROVE CarriedAt(r) \/ r \in cart
  BY CarriedSomewhere, CarriedSomewhereNext DEF CarriedIsSomewhere
<1>1. ASSUME NEW s \in Sessions, r \in shown'[s] PROVE CarriedAt(r) \/ r \in cart
  BY <1>1 DEF TakesOver, CarriedAt
<1>2. ASSUME NEW s \in Sessions, NEW e \in todo'[s], r = e.row
      PROVE  CarriedAt(r) \/ r \in cart
  BY <1>2 DEF TakesOver, CarriedAt
<1>3. ASSUME NEW o \in orders', r \in o.items PROVE CarriedAt(r) \/ r \in cart
  BY <1>3 DEF TakesOver, CarriedAt
<1>4. ASSUME NEW s \in Sessions, r \in RowsOfCall(call'[s])
      PROVE  CarriedAt(r) \/ r \in cart
  BY <1>4 DEF TakesOver, CarriedAt
<1>5. ASSUME NEW l \in late', r \in RowsOfCall(l.call)
      PROVE  CarriedAt(r) \/ r \in cart
  BY <1>5 DEF TakesOver, CarriedAt
<1>6. \/ \E s \in Sessions : r \in shown'[s] \/ \E e \in todo'[s] : r = e.row
      \/ \E o \in orders' : r \in o.items
      \/ \E s \in Sessions : r \in RowsOfCall(call'[s])
      \/ \E l \in late' : r \in RowsOfCall(l.call)
  BY DEF CarriedAt, RowsOfCall
<1> QED
  BY <1>1, <1>2, <1>3, <1>4, <1>5, <1>6

\* Rows that stay, with whatever quantity.
CartShrinks ==
    \A t \in cart' : \E r \in cart : r.id = t.id /\ r.user = t.user /\ r.product = t.product

\* A step that issues no identifier keeps the invariant.
LEMMA NoNewId ==
  ASSUME IdInv, TakesOver, CartShrinks, cartSeq' = cartSeq
  PROVE  IdInv'
<1> SUFFICES ASSUME NEW r \in cart' \cup Carried'
             PROVE  r.id <= cartSeq /\ \A t \in cart' : SameRow(r, t)
  BY DEF IdInv, SameRow
<1>1. PICK q \in cart \cup Carried : q.id = r.id /\ q.user = r.user /\ q.product = r.product
  BY TakesOverCarried DEF CartShrinks
<1> QED
  BY <1>1 DEF IdInv, CartShrinks, SameRow

\* A step that issues the next identifier does, too: nothing carries it yet.
LEMMA NewId ==
  ASSUME TypedInv, IdInv, TakesOver, NEW row, row.id = cartSeq + 1,
         cart' = cart \cup {row}, cartSeq' = cartSeq + 1
  PROVE  IdInv'
<1>1. cartSeq \in Nat /\ \A r \in cart \cup Carried : r.id \in Nat /\ r.id <= cartSeq
  BY CarriedTyped DEF TypedInv, DbTyped, Row, IdInv
<1>2. Carried' \subseteq Carried \cup cart
  BY TakesOverCarried
<1> QED
  BY <1>1, <1>2 DEF IdInv, SameRow

\* The moves of a script take over rows only from its own grid.
LEMMA SendTakesOver ==
  ASSUME UiTyped, NEW s \in Sessions, NEW c, NEW at, Send(s, c, at), c.op # "insert_order",
         UNCHANGED <<shown, todo, orders, late>>
  PROVE  TakesOver
<1>1. \A x \in Sessions : RowsOfCall(call'[x]) \subseteq RowsOfCall(call[x])
  BY DEF UiTyped, Send, RowsOfCall
<1> QED
  BY <1>1 DEF TakesOver

\* A script that leaves its call carries nothing new.
LEMMA GotoTakesOver ==
  ASSUME UiTyped, NEW s \in Sessions, NEW at, Goto(s, at),
         \A x \in Sessions : \A e \in todo'[x] : e \in todo[x] \/ e.row \in shown[x],
         \A x \in Sessions : shown'[x] \subseteq shown[x],
         UNCHANGED <<orders, late>>
  PROVE  TakesOver
<1>1. \A x \in Sessions : RowsOfCall(call'[x]) \subseteq RowsOfCall(call[x])
  BY DEF UiTyped, Goto, NoCall, RowsOfCall
<1> QED
  BY <1>1 DEF TakesOver

\* A script that ends carries nothing new.
LEMMA StopTakesOver ==
  ASSUME UiTyped, NEW s \in Sessions, Stop(s) \/ ClearAndStop(s), UNCHANGED <<orders, late>>
  PROVE  TakesOver
<1>1. Goto(s, "idle") /\ todo' = [todo EXCEPT ![s] = {}]
  BY DEF Stop, ClearAndStop
<1>2. \A x \in Sessions : shown'[x] \subseteq shown[x]
  BY DEF Stop, ClearAndStop, UiTyped
<1>3. \A x \in Sessions : \A e \in todo'[x] : e \in todo[x]
  BY <1>1 DEF UiTyped
<1> QED
  BY <1>1, <1>2, <1>3, GotoTakesOver

\* No step of a script carries rows that were not on its grid.
LEMMA ScriptTakesOver ==
  ASSUME TypedInv, NEW s \in Sessions, Script(s)
  PROVE  TakesOver /\ cart' = cart /\ cartSeq' = cartSeq
<1>1. UNCHANGED <<cart, cartSeq, orders, late>>
  BY DEF Script, AfterAddCart, AfterAddStock, SaveNextLine, AfterSaveStock, AfterSaveCart,
         AfterCreateOrder, CleanupNextRow, AfterCleanup, db
<1>u. UiTyped
  BY DEF TypedInv
<1>2. CASE Stop(s) \/ ClearAndStop(s)
  BY <1>1, <1>u, <1>2, StopTakesOver
<1>3. ASSUME NEW c, NEW at, Send(s, c, at), c.op # "insert_order", UNCHANGED <<shown, todo>>
      PROVE  TakesOver
  BY <1>1, <1>u, <1>3, SendTakesOver
<1>4. ASSUME NEW at, Goto(s, at), todo' = [todo EXCEPT ![s] = @ \ {Current(s)}],
             UNCHANGED shown
      PROVE  TakesOver
  <2>1. \A x \in Sessions : \A e \in todo'[x] : e \in todo[x]
    BY <1>4, <1>u DEF UiTyped
  <2> QED
    BY <1>1, <1>u, <1>4, <2>1, GotoTakesOver
<1>5. CASE /\ Goto(s, "cleanup_next")
           /\ todo' = [todo EXCEPT ![s] =
                         {[row |-> r, delete |-> TRUE, qty |-> r.qty] : r \in shown[s]}]
           /\ UNCHANGED shown
  <2>1. \A x \in Sessions : \A e \in todo'[x] : e \in todo[x] \/ e.row \in shown[x]
    BY <1>5, <1>u DEF UiTyped
  <2> QED
    BY <1>1, <1>u, <1>5, <2>1, GotoTakesOver
<1>c. /\ \A p, d : StockCall(p, d).op # "insert_order"
      /\ \A i : DeleteCall(i).op # "insert_order"
      /\ \A i, q : PutCall(i, q).op # "insert_order"
  BY DEF StockCall, DeleteCall, PutCall
<1>6. CASE AfterAddCart(s)
  BY <1>1, <1>2, <1>3, <1>6, <1>c DEF AfterAddCart
<1>7. CASE AfterAddStock(s)
  BY <1>1, <1>2, <1>7 DEF AfterAddStock
<1>8. CASE SaveNextLine(s)
  BY <1>1, <1>2, <1>3, <1>8, <1>c DEF SaveNextLine
<1>9. CASE AfterSaveStock(s)
  <2>1. (IF Current(s).delete THEN DeleteCall(Current(s).row.id)
         ELSE PutCall(Current(s).row.id, Current(s).qty)).op # "insert_order"
    BY <1>c
  <2> QED
    BY <1>1, <1>2, <1>3, <1>4, <1>9, <2>1 DEF AfterSaveStock
<1>10. CASE AfterSaveCart(s)
  BY <1>1, <1>2, <1>4, <1>10 DEF AfterSaveCart
<1>11. CASE AfterCreateOrder(s)
  BY <1>1, <1>2, <1>5, <1>11 DEF AfterCreateOrder
<1>12. CASE CleanupNextRow(s)
  BY <1>1, <1>2, <1>3, <1>12, <1>c DEF CleanupNextRow
<1>13. CASE AfterCleanup(s)
  BY <1>1, <1>2, <1>4, <1>13 DEF AfterCleanup
<1> QED
  BY <1>1, <1>6, <1>7, <1>8, <1>9, <1>10, <1>11, <1>12, <1>13 DEF Script

\* A run that is abandoned carries less.
LEMMA AbandonTakesOver ==
  ASSUME TypedInv, NEW s \in Sessions, Abandon(s)
  PROVE  TakesOver /\ cart' = cart /\ cartSeq' = cartSeq
<1>u. UiTyped
  BY DEF TypedInv
<1>1. /\ Goto(s, "idle") /\ todo' = [todo EXCEPT ![s] = {}]
      /\ UNCHANGED <<cart, cartSeq, orders, late, shown>>
  BY <1>u, AbandonEndsFlow DEF db
<1>2. \A x \in Sessions : \A e \in todo'[x] : e \in todo[x]
  BY <1>1, <1>u DEF UiTyped
<1> QED
  BY <1>1, <1>2, <1>u, GotoTakesOver

\* A click takes rows from the cart to the grid, or from the grid to a loop.
LEMMA ClickTakesOver ==
  ASSUME TypedInv, NEW s \in Sessions, Click(s)
  PROVE  TakesOver /\ cart' = cart /\ cartSeq' = cartSeq
<1>1. UNCHANGED <<cart, cartSeq, orders, late>>
  BY DEF Click, ClickAddToCart, ListCartItems, ClickSaveChanges, ClickCreateOrder, db
<1>u. UiTyped
  BY DEF TypedInv
<1>2. ASSUME NEW u \in UsersOf[s], ListCartItems(s, u) PROVE TakesOver
  <2>1. \A x \in Sessions : shown'[x] \subseteq shown[x] \cup cart
    BY <1>2, <1>u DEF ListCartItems, UiTyped, CartOf
  <2> QED
    BY <1>1, <1>2, <2>1 DEF ListCartItems, TakesOver
<1>3. ASSUME NEW u \in UsersOf[s], NEW p \in Products, NEW q \in Quantities,
             ClickAddToCart(s, u, p, q)
      PROVE  TakesOver
  <2>1. AddCall(u, p, q).op # "insert_order"
    BY DEF AddCall
  <2> QED
    BY <1>1, <1>3, <1>u, <2>1, SendTakesOver DEF ClickAddToCart
<1>4. CASE ClickSaveChanges(s)
  <2>1. PICK edits \in Edits(s) : todo' = [todo EXCEPT ![s] = edits]
    BY <1>4 DEF ClickSaveChanges
  <2>2. \A x \in Sessions : \A e \in todo'[x] : e \in todo[x] \/ e.row \in shown[x]
    BY <1>u, <2>1 DEF Edits, UiTyped
  <2> QED
    BY <1>1, <1>4, <1>u, <2>1, <2>2, GotoTakesOver DEF ClickSaveChanges
<1>5. CASE ClickCreateOrder(s)
  <2>1. OrderCall(userId[s]).op # "insert_order"
    BY DEF OrderCall
  <2> QED
    BY <1>1, <1>5, <1>u, <2>1, SendTakesOver DEF ClickCreateOrder
<1> QED
  BY <1>1, <1>2, <1>3, <1>4, <1>5 DEF Click

\* Every step of a service keeps the invariant: the new row of add_cart_item
\* has the next identifier, and create_order carries what it read.
LEMMA HandleKeepsIds ==
  ASSUME TypedInv, IdInv, NEW c \in Call \cup {NoCall}, NEW ok \in BOOLEAN, Handle(c, ok),
         UNCHANGED <<shown, todo>>,
         \A s \in Sessions : call'[s] = call[s],
         late' \subseteq late,
         (\E s \in Sessions : c = call[s]) \/ (\E l \in late : c = l.call)
  PROVE  IdInv'
<1>1. \A o \in orders' :
         \/ o \in orders
         \/ \E s \in Sessions : o.items \subseteq RowsOfCall(call[s])
         \/ \E l \in late : o.items \subseteq RowsOfCall(l.call)
  <2>1. CASE InsertOrder(c, ok)
    <3>1. \A o \in orders' : o \in orders \/ o.items = RowsOfCall(c)
      BY <2>1 DEF InsertOrder, RowsOfCall
    <3> QED
      BY <3>1
  <2>2. CASE ~InsertOrder(c, ok)
    BY <2>2 DEF Handle, AddCartItem, UpdateCartItem, DeleteCartItem, UpdateStock
  <2> QED
    BY <2>1, <2>2
<1>2. TakesOver
  BY <1>1 DEF TakesOver, RowsOfCall
<1>3. CASE AddCartItem(c, ok)
  BY <1>2, <1>3, NewId DEF AddCartItem
<1>4. CASE ~AddCartItem(c, ok)
  <2>1. cartSeq' = cartSeq
    BY <1>4 DEF Handle, UpdateCartItem, DeleteCartItem, UpdateStock, InsertOrder
  <2>2. CartShrinks
    <3>1. CASE UpdateCartItem(c, ok)
      BY <3>1 DEF UpdateCartItem, CartShrinks, TypedInv, DbTyped, Row
    <3>2. CASE ~UpdateCartItem(c, ok)
      BY <1>4, <3>2
      DEF Handle, DeleteCartItem, UpdateStock, InsertOrder, CartShrinks
    <3> QED
      BY <3>1, <3>2
  <2> QED
    BY <1>2, <2>1, <2>2, NoNewId
<1> QED
  BY <1>3, <1>4

\* A service at work, in time or late, keeps the identifier invariant.
LEMMA ServiceKeepsIds ==
  ASSUME TypedInv, IdInv,
         \/ \E s \in Sessions : Service(s) \/ Refuse(s) \/ Timeout(s)
         \/ \E l \in late : LateService(l)
         \/ \E p \in Products : WithdrawProduct(p)
  PROVE  IdInv'
<1>u. UiTyped /\ RestTyped
  BY DEF TypedInv
<1>k. ASSUME TakesOver, UNCHANGED <<cart, cartSeq>> PROVE IdInv'
  BY <1>k, NoNewId DEF CartShrinks
<1>1. ASSUME NEW s \in Sessions, Serve(s) PROVE IdInv'
  BY <1>1, <1>u, HandleKeepsIds DEF Serve, UiTyped
<1>2. ASSUME NEW s \in Sessions, ServeCreateOrder(s) PROVE IdInv'
  <2>1. \A x \in Sessions : RowsOfCall(call'[x]) \subseteq RowsOfCall(call[x]) \cup cart
    BY <1>2, <1>u DEF ServeCreateOrder, InsertCall, CartOf, RowsOfCall, UiTyped
  <2> QED
    BY <1>2, <1>k, <2>1 DEF ServeCreateOrder, db, TakesOver
<1>3. ASSUME NEW s \in Sessions, Refuse(s) PROVE IdInv'
  BY <1>3, <1>k DEF Refuse, db, TakesOver, RowsOfCall
<1>4. ASSUME NEW s \in Sessions, Timeout(s) PROVE IdInv'
  BY <1>4, <1>k DEF Timeout, db, TakesOver, RowsOfCall
<1>5. ASSUME NEW l \in late, LateService(l) PROVE IdInv'
  <2>1. CASE ServeLate(l)
    <3>1. l.call \in Call \cup {NoCall}
      BY <1>u DEF RestTyped
    <3> QED
      BY <2>1, <3>1, HandleKeepsIds DEF ServeLate, ui
  <2>2. CASE ServeCreateOrderLate(l)
    <3>1. \A x \in late' : x \in late \/ RowsOfCall(x.call) \subseteq cart
      <4>1. ASSUME NEW x \in late', x \notin late
            PROVE  x = [l EXCEPT !.call = InsertCall(l.call.user, CartOf(l.call.user))]
        BY <2>2, <4>1 DEF ServeCreateOrderLate
      <4>2. [l EXCEPT !.call = InsertCall(l.call.user, CartOf(l.call.user))].call
              = InsertCall(l.call.user, CartOf(l.call.user))
        BY <1>u DEF RestTyped
      <4>3. RowsOfCall(InsertCall(l.call.user, CartOf(l.call.user))) \subseteq cart
        BY DEF RowsOfCall, InsertCall, CartOf
      <4> QED
        BY <4>1, <4>2, <4>3
    <3> QED
      BY <1>k, <2>2, <3>1 DEF ServeCreateOrderLate, db, ui, TakesOver, RowsOfCall
  <2>3. CASE Lose(l)
    BY <1>k, <2>3 DEF Lose, db, ui, TakesOver, RowsOfCall
  <2> QED
    BY <1>5, <2>1, <2>2, <2>3 DEF LateService
<1>6. ASSUME NEW p \in Products, WithdrawProduct(p) PROVE IdInv'
  BY <1>6, <1>k DEF WithdrawProduct, ui, TakesOver, RowsOfCall
<1> QED
  BY <1>1, <1>2, <1>3, <1>4, <1>5, <1>6 DEF Service

\* Nothing is carried in the beginning.
LEMMA IdInit == Init => IdInv
  BY CarriedSomewhere DEF Init, IdInv, CarriedIsSomewhere, CarriedAt, RowsOfCall, NoCall

\* Every step keeps the identifier invariant.
LEMMA IdStep == TypedInv /\ IdInv /\ [Next]_vars => IdInv'
<1> SUFFICES ASSUME TypedInv, IdInv, [Next]_vars PROVE IdInv'
  OBVIOUS
<1>1. ASSUME TakesOver, UNCHANGED <<cart, cartSeq>> PROVE IdInv'
  BY <1>1, NoNewId DEF CartShrinks
<1>2. CASE UNCHANGED vars
  BY <1>1, <1>2 DEF vars, db, ui, TakesOver, RowsOfCall
<1> QED
  BY <1>1, <1>2, ScriptTakesOver, AbandonTakesOver, ClickTakesOver, ServiceKeepsIds DEF Next

\* An identifier that a grid on screen, the rest of a loop or an order
\* remembers never becomes the row of another customer or product, whatever
\* is refused, times out or is abandoned and whoever shares a cart
\* (cart/app.py deletes and updates by bare id; AUTOINCREMENT).
THEOREM RowsKeepTheirIdentity == Spec => []RowIdentity
<1>1. TypedInv /\ IdInv /\ [Next]_vars => TypedInv' /\ IdInv'
  BY TypedStep, IdStep
<1> QED
  BY <1>1, TypedInit, IdInit, IdInvIsRowIdentity, PTL DEF Spec

-----------------------------------------------------------------------------
(***************************************************************************)
(* The clean-up after an order.  A row of the grid that is in the cart of  *)
(* the customer when create_order reads it is ordered; one that is not in  *)
(* the cart then never comes back, because its identifier is not issued    *)
(* again.                                                                  *)
(***************************************************************************)
\* Every row of the grid that is still in the customer's cart is among the rows.
Covers(s, rows) ==
    \A r \in shown[s], t \in cart : t.id = r.id /\ t.user = userId[s] =>
        \E i \in rows : i.id = t.id

OrderedFor(s, r) ==
    \A t \in cart : t.id = r.id /\ t.user = userId[s] =>
        \E o \in orders : o.user = userId[s] /\ \E i \in o.items : i.id = t.id

Ordering(s) ==
    pc[s] = "order" =>
        /\ call[s].op \in {"create_order", "insert_order"} /\ call[s].user = userId[s]
        /\ call[s].op = "insert_order" => Covers(s, call[s].items)
        /\ reply[s] = "ok" => \A r \in shown[s] : OrderedFor(s, r)

CleaningUp(s) == Cleaning(s) => \A e \in todo[s] : OrderedFor(s, e.row)

SessionInv(s) == Ordering(s) /\ CleaningUp(s)

CleanInv == \A s \in Sessions : SessionInv(s)

\* The identifiers of a grid and of a loop are issued, and mean the rows of the
\* cart that have them.
LEMMA RememberedIssued ==
  ASSUME IdInv, NEW s \in Sessions
  PROVE  /\ \A r \in shown[s] : r.id <= cartSeq /\ \A t \in cart : SameRow(r, t)
         /\ \A e \in todo[s] : e.row.id <= cartSeq /\ \A t \in cart : SameRow(e.row, t)
  BY CarriedSomewhere DEF CarriedIsSomewhere, CarriedAt, IdInv

\* The promises to a session that cleans up are the property.
LEMMA CleanInvIsCleanupOnlyOrdered == CleanInv => CleanupOnlyOrdered
  BY DEF CleanInv, SessionInv, CleaningUp, OrderedFor, CleanupOnlyOrdered

\* A step that brings back no row and takes away no order.
NothingReturns ==
    /\ \A t \in cart' : t.id <= cartSeq => \E r \in cart : r.id = t.id /\ r.user = t.user
    /\ orders \subseteq orders'

\* What was ordered stays ordered, since no step removes an order.
LEMMA OrderedStays ==
  ASSUME NothingReturns, NEW s \in Sessions, userId'[s] = userId[s],
         NEW r, r.id <= cartSeq, OrderedFor(s, r)
  PROVE  OrderedFor(s, r)'
  BY DEF NothingReturns, OrderedFor

\* A set of rows that covers a grid still does when rows only leave the cart.
LEMMA CoversStays ==
  ASSUME IdInv, NothingReturns, NEW s \in Sessions, NEW rows,
         shown'[s] = shown[s], userId'[s] = userId[s], Covers(s, rows)
  PROVE  \A r \in shown'[s], t \in cart' : t.id = r.id /\ t.user = userId'[s] =>
             \E i \in rows : i.id = t.id
  BY RememberedIssued DEF NothingReturns, Covers

\* What a session was promised about its grid stays true while others move.
LEMMA GridStays ==
  ASSUME IdInv, NothingReturns, NEW s \in Sessions, SessionInv(s),
         pc'[s] = pc[s], shown'[s] = shown[s], todo'[s] = todo[s], userId'[s] = userId[s]
  PROVE  /\ CleaningUp(s)'
         /\ pc[s] = "order" /\ reply[s] = "ok" => \A r \in shown[s] : OrderedFor(s, r)'
<1>1. CleaningUp(s)'
  <2>1. \A e \in todo[s] : OrderedFor(s, e.row) => OrderedFor(s, e.row)'
    BY RememberedIssued, OrderedStays
  <2> QED
    BY <2>1 DEF SessionInv, CleaningUp, Cleaning
<1>2. \A r \in shown[s] : OrderedFor(s, r) => OrderedFor(s, r)'
  BY RememberedIssued, OrderedStays
<1> QED
  BY <1>1, <1>2 DEF SessionInv, Ordering

\* The promises to a session survive a step in which it does not take part.
LEMMA BystanderKeeps ==
  ASSUME IdInv, NothingReturns, NEW s \in Sessions, SessionInv(s),
         pc'[s] = pc[s], shown'[s] = shown[s], todo'[s] = todo[s], userId'[s] = userId[s],
         call'[s] = call[s], reply'[s] = reply[s] \/ reply'[s] # "ok"
  PROVE  SessionInv(s)'
<1>1. /\ CleaningUp(s)'
      /\ pc[s] = "order" /\ reply[s] = "ok" => \A r \in shown[s] : OrderedFor(s, r)'
  BY GridStays
<1>2. ASSUME pc[s] = "order", call[s].op = "insert_order"
      PROVE  Covers(s, call[s].items)'
  <2>1. Covers(s, call[s].items)
    BY <1>2 DEF SessionInv, Ordering
  <2> QED
    BY <2>1, CoversStays DEF Covers
<1>3. Ordering(s)'
  BY <1>1, <1>2 DEF SessionInv, Ordering
<1> QED
  BY <1>1, <1>3 DEF SessionInv

\* No handler brings a row back or takes an order away.
LEMMA HandleReturnsNothing ==
  ASSUME TypedInv, NEW c, NEW ok, Handle(c, ok)
  PROVE  NothingReturns
<1>t. cartSeq \in Nat /\ cart \subseteq Row
  BY DEF TypedInv, DbTyped
<1>1. CASE AddCartItem(c, ok)
  BY <1>1, <1>t DEF AddCartItem, NothingReturns
<1>2. CASE UpdateCartItem(c, ok)
  BY <1>2, <1>t DEF UpdateCartItem, NothingReturns, Row
<1>3. CASE DeleteCartItem(c, ok)
  BY <1>3 DEF DeleteCartItem, NothingReturns
<1>4. CASE UpdateStock(c, ok)
  BY <1>4 DEF UpdateStock, NothingReturns
<1>5. CASE InsertOrder(c, ok)
  BY <1>5 DEF InsertOrder, NothingReturns
<1> QED
  BY <1>1, <1>2, <1>3, <1>4, <1>5 DEF Handle

\* The services keep what the sessions were promised.
LEMMA ServiceKeepsClean ==
  ASSUME TypedInv, IdInv, CleanInv,
         \/ \E s \in Sessions : Service(s) \/ Refuse(s) \/ Timeout(s)
         \/ \E l \in late : LateService(l)
         \/ \E p \in Products : WithdrawProduct(p)
  PROVE  CleanInv'
<1>u. UiTyped
  BY DEF TypedInv
<1>b. ASSUME NothingReturns, UNCHANGED <<pc, shown, todo, userId, call>>,
             NEW s \in Sessions, reply'[s] = reply[s] \/ reply'[s] # "ok"
      PROVE  SessionInv(s)'
  BY <1>b, BystanderKeeps DEF CleanInv
<1>1. ASSUME NEW s \in Sessions, Serve(s) PROVE CleanInv'
  <2>1. PICK ok \in BOOLEAN :
           /\ Handle(call[s], ok)
           /\ reply' = [reply EXCEPT ![s] = IF ok THEN "ok" ELSE "refused"]
    BY <1>1 DEF Serve
  <2>2. NothingReturns
    BY <2>1, HandleReturnsNothing
  <2>3. UNCHANGED <<pc, shown, todo, userId, call>>
    BY <1>1 DEF Serve
  <2>4. ASSUME NEW x \in Sessions, x # s PROVE SessionInv(x)'
    BY <1>b, <1>u, <2>1, <2>2, <2>3, <2>4 DEF UiTyped
  <2>5. CleaningUp(s)'
    BY <2>2, <2>3, GridStays DEF CleanInv
  <2>6. ASSUME pc[s] = "order", reply'[s] = "ok"
        PROVE  \A r \in shown[s] : OrderedFor(s, r)'
    <3>1. /\ call[s].op \in {"create_order", "insert_order"} /\ call[s].user = userId[s]
          /\ call[s].op = "insert_order" => Covers(s, call[s].items)
      BY <2>6 DEF CleanInv, SessionInv, Ordering
    <3>2. InsertOrder(call[s], ok)
      BY <2>1, <3>1 DEF Handle, AddCartItem, UpdateCartItem, DeleteCartItem, UpdateStock
    <3>3. /\ Covers(s, call[s].items) /\ cart' = cart
          /\ [id |-> orderSeq + 1, user |-> call[s].user, items |-> call[s].items] \in orders'
      BY <3>1, <3>2 DEF InsertOrder
    <3> QED
      BY <2>3, <3>1, <3>3 DEF Covers, OrderedFor
  <2>7. Ordering(s)'
    <3>1. ASSUME pc[s] = "order", call[s].op = "insert_order"
          PROVE  Covers(s, call[s].items)'
      <4>1. Covers(s, call[s].items)
        BY <3>1 DEF CleanInv, SessionInv, Ordering
      <4>2. \A r \in shown'[s], t \in cart' : t.id = r.id /\ t.user = userId'[s] =>
               \E i \in call[s].items : i.id = t.id
        BY <2>2, <2>3, <4>1, CoversStays
      <4> QED
        BY <2>3, <4>2 DEF Covers
    <3> QED
      BY <2>3, <2>6, <3>1 DEF CleanInv, SessionInv, Ordering
  <2> QED
    BY <2>4, <2>5, <2>7 DEF CleanInv, SessionInv
<1>2. ASSUME NEW s \in Sessions, ServeCreateOrder(s) PROVE CleanInv'
  <2>1. NothingReturns /\ UNCHANGED <<pc, shown, todo, userId>>
    BY <1>2 DEF ServeCreateOrder, db, NothingReturns
  <2>2. ASSUME NEW x \in Sessions, x # s PROVE SessionInv(x)'
    <3>1. call'[x] = call[x] /\ reply'[x] = reply[x]
      BY <1>2, <1>u, <2>2 DEF ServeCreateOrder, UiTyped
    <3> QED
      BY <2>1, <3>1, BystanderKeeps DEF CleanInv
  <2>3. CleaningUp(s)'
    BY <2>1, GridStays DEF CleanInv
  <2>4. Ordering(s)'
    <3>1. SUFFICES ASSUME pc[s] = "order"
                   PROVE  /\ call'[s].op \in {"create_order", "insert_order"}
                          /\ call'[s].user = userId[s]
                          /\ call'[s].op = "insert_order" => Covers(s, call'[s].items)
                          /\ reply'[s] # "ok"
      BY <1>2, <2>1 DEF Ordering, ServeCreateOrder, db, Covers
    <3>2. call[s].op = "create_order" /\ call[s].user = userId[s]
      BY <1>2, <3>1 DEF ServeCreateOrder, CleanInv, SessionInv, Ordering
    <3>3. Covers(s, CartOf(call[s].user))
      BY <3>2 DEF Covers, CartOf
    <3>4. \/ call'[s] = call[s] /\ reply'[s] = "refused"
          \/ call'[s] = InsertCall(call[s].user, CartOf(call[s].user)) /\ reply'[s] = "none"
      BY <1>2, <1>u DEF ServeCreateOrder, UiTyped
    <3> QED
      BY <3>2, <3>3, <3>4 DEF InsertCall
  <2> QED
    BY <2>2, <2>3, <2>4 DEF CleanInv, SessionInv
<1>3. ASSUME NEW s \in Sessions, Refuse(s) \/ Timeout(s) PROVE CleanInv'
  <2>1. NothingReturns /\ UNCHANGED <<pc, shown, todo, userId, call>>
    BY <1>3 DEF Refuse, Timeout, db, NothingReturns
  <2>2. \A x \in Sessions : reply'[x] = reply[x] \/ reply'[x] # "ok"
    BY <1>3, <1>u DEF Refuse, Timeout, UiTyped
  <2> QED
    BY <1>b, <2>1, <2>2 DEF CleanInv
<1>4. ASSUME NEW l \in late, LateService(l) PROVE CleanInv'
  <2>1. NothingReturns
    <3>1. CASE ServeLate(l)
      BY <3>1, HandleReturnsNothing DEF ServeLate
    <3>2. CASE ServeCreateOrderLate(l) \/ Lose(l)
      BY <3>2 DEF ServeCreateOrderLate, Lose, db, NothingReturns
    <3> QED
      BY <1>4, <3>1, <3>2 DEF LateService
  <2>2. UNCHANGED ui
    BY <1>4 DEF LateService, ServeLate, ServeCreateOrderLate, Lose
  <2> QED
    BY <1>b, <2>1, <2>2 DEF CleanInv, ui
<1>5. ASSUME NEW p \in Products, WithdrawProduct(p) PROVE CleanInv'
  BY <1>5, <1>b DEF WithdrawProduct, ui, NothingReturns, CleanInv
<1> QED
  BY <1>1, <1>2, <1>3, <1>4, <1>5 DEF Service

\* A session that is at none of the steps the promises are about.
LEMMA ElsewhereIsClean ==
  ASSUME NEW s \in Sessions, pc'[s] \notin {"order", "cleanup_next", "cleanup"}
  PROVE  SessionInv(s)'
  BY DEF SessionInv, Ordering, CleaningUp, Cleaning

\* The script of a session: only the order flow needs an argument.
LEMMA ScriptKeepsClean ==
  ASSUME TypedInv, IdInv, CleanInv, NEW s \in Sessions, Script(s) \/ Abandon(s)
  PROVE  CleanInv'
<1>u. UiTyped
  BY DEF TypedInv
<1>s. SessionInv(s)
  BY DEF CleanInv
<1>d. UNCHANGED db
  BY DEF Script, AfterAddCart, AfterAddStock, SaveNextLine, AfterSaveStock, AfterSaveCart,
         AfterCreateOrder, CleanupNextRow, AfterCleanup, Abandon
<1>n. /\ NothingReturns
      /\ userId'[s] = userId[s] => \A r : OrderedFor(s, r) => OrderedFor(s, r)'
  BY <1>d DEF db, NothingReturns, OrderedFor
<1>o. ASSUME NEW x \in Sessions, x # s PROVE SessionInv(x)'
  <2>1. /\ pc'[x] = pc[x] /\ shown'[x] = shown[x] /\ todo'[x] = todo[x]
        /\ userId'[x] = userId[x] /\ call'[x] = call[x] /\ reply'[x] = reply[x]
    BY <1>o, <1>u, AbandonEndsFlow
    DEF Script, AfterAddCart, AfterAddStock, SaveNextLine, AfterSaveStock, AfterSaveCart,
        AfterCreateOrder, CleanupNextRow, AfterCleanup, Send, Goto, Stop, ClearAndStop, UiTyped
  <2> QED
    BY <1>n, <2>1, BystanderKeeps DEF CleanInv
<1> SUFFICES SessionInv(s)'
  BY <1>o DEF CleanInv
<1>1. CASE Stop(s) \/ ClearAndStop(s) \/ Abandon(s)
  BY <1>1, <1>u, AbandonEndsFlow, ElsewhereIsClean DEF Stop, ClearAndStop, Goto, UiTyped
<1>2. ASSUME NEW c, NEW at \in {"add_stock", "save_stock", "save_cart"}, Send(s, c, at)
      PROVE  SessionInv(s)'
  BY <1>2, <1>u, ElsewhereIsClean DEF Send, UiTyped
<1>3. CASE Goto(s, "save_next")
  BY <1>3, <1>u, ElsewhereIsClean DEF Goto, UiTyped
<1>4. CASE AfterCreateOrder(s) /\ ~Stop(s)
  <2>1. /\ pc[s] = "order" /\ reply[s] = "ok" /\ pc'[s] = "cleanup_next"
        /\ UNCHANGED <<userId, shown>>
        /\ \A e \in todo'[s] : e.row \in shown[s]
    BY <1>4, <1>u DEF AfterCreateOrder, Goto, UiTyped
  <2>2. \A r \in shown[s] : OrderedFor(s, r)'
    BY <1>n, <1>s, <2>1 DEF SessionInv, Ordering
  <2> QED
    BY <2>1, <2>2 DEF SessionInv, Ordering, CleaningUp
<1>5. CASE (CleanupNextRow(s) \/ AfterCleanup(s)) /\ ~Stop(s) /\ ~ClearAndStop(s)
  <2>1. /\ Cleaning(s) /\ pc'[s] \in {"cleanup", "cleanup_next"}
        /\ UNCHANGED <<userId, shown>>
        /\ todo'[s] \subseteq todo[s]
    BY <1>5, <1>u DEF CleanupNextRow, AfterCleanup, Cleaning, Send, Goto, UiTyped
  <2> QED
    BY <1>n, <1>s, <2>1 DEF SessionInv, Ordering, CleaningUp
<1>6. CASE AfterAddCart(s)
  BY <1>1, <1>2, <1>6 DEF AfterAddCart
<1>7. CASE AfterAddStock(s)
  BY <1>1, <1>7 DEF AfterAddStock
<1>8. CASE SaveNextLine(s)
  BY <1>1, <1>2, <1>8 DEF SaveNextLine
<1>9. CASE AfterSaveStock(s)
  BY <1>1, <1>2, <1>3, <1>9 DEF AfterSaveStock
<1>10. CASE AfterSaveCart(s)
  BY <1>1, <1>3, <1>10 DEF AfterSaveCart
<1> QED
  BY <1>1, <1>4, <1>5, <1>6, <1>7, <1>8, <1>9, <1>10 DEF Script

\* Clicks: an order is placed for the customer the session remembers, and that
\* customer does not change before its end.
LEMMA ClickKeepsClean ==
  ASSUME TypedInv, IdInv, CleanInv, NEW s \in Sessions, Click(s)
  PROVE  CleanInv'
<1>u. UiTyped
  BY DEF TypedInv
<1>n. NothingReturns
  BY DEF Click, ClickAddToCart, ListCartItems, ClickSaveChanges, ClickCreateOrder,
         db, NothingReturns
<1>o. ASSUME NEW x \in Sessions, x # s PROVE SessionInv(x)'
  <2>1. /\ pc'[x] = pc[x] /\ shown'[x] = shown[x] /\ todo'[x] = todo[x]
        /\ userId'[x] = userId[x] /\ call'[x] = call[x] /\ reply'[x] = reply[x]
    BY <1>o, <1>u
    DEF Click, ClickAddToCart, ListCartItems, ClickSaveChanges, ClickCreateOrder,
        Send, Goto, UiTyped
  <2> QED
    BY <1>n, <2>1, BystanderKeeps DEF CleanInv
<1> SUFFICES SessionInv(s)'
  BY <1>o DEF CleanInv
<1>1. CASE ~ClickCreateOrder(s)
  <2>1. pc'[s] \in {"idle", "add_cart", "save_next"}
    BY <1>1, <1>u DEF Click, ListCartItems, ClickAddToCart, ClickSaveChanges, Send, Goto, UiTyped
  <2> QED
    BY <2>1, ElsewhereIsClean
<1>2. CASE ClickCreateOrder(s)
  <2>1. /\ pc'[s] = "order" /\ call'[s] = OrderCall(userId[s]) /\ reply'[s] = "none"
        /\ UNCHANGED userId
    BY <1>2, <1>u DEF ClickCreateOrder, Send, UiTyped
  <2> QED
    BY <2>1 DEF SessionInv, Ordering, CleaningUp, Cleaning, OrderCall
<1> QED
  BY <1>1, <1>2

\* Nobody orders or cleans up in the beginning.
LEMMA CleanInit == Init => CleanInv
  BY DEF Init, CleanInv, SessionInv, Ordering, CleaningUp, Cleaning

\* Every step keeps the promises.
LEMMA CleanStep == TypedInv /\ IdInv /\ CleanInv /\ [Next]_vars => CleanInv'
<1> SUFFICES ASSUME TypedInv, IdInv, CleanInv, [Next]_vars PROVE CleanInv'
  OBVIOUS
<1>1. CASE UNCHANGED vars
  <2>1. NothingReturns
    BY <1>1 DEF vars, db, NothingReturns
  <2> QED
    BY <1>1, <2>1, BystanderKeeps DEF vars, ui, CleanInv
<1> QED
  BY <1>1, ScriptKeepsClean, ClickKeepsClean, ServiceKeepsClean DEF Next

\* Of the customer it ordered for, the clean-up of "Create Order" deletes only
\* rows that were ordered: for any sessions and customers, however many tabs a
\* customer has open, however old the grid, and whatever is refused, times out
\* or is abandoned (cart_ui.py and create_order of order/app.py).
THEOREM CleanupDeletesOnlyOrdered == Spec => []CleanupOnlyOrdered
<1>1. TypedInv /\ IdInv /\ CleanInv /\ [Next]_vars => TypedInv' /\ IdInv' /\ CleanInv'
  BY TypedStep, IdStep, CleanStep
<1> QED
  BY <1>1, TypedInit, IdInit, CleanInit, CleanInvIsCleanupOnlyOrdered, PTL DEF Spec

-----------------------------------------------------------------------------
(***************************************************************************)
(* Flows get on.  StepsLeft is a number because grids and loops are finite,*)
(* and it falls with every answer because a call is only pending at a      *)
(* place of the script that waits for it.                                  *)
(***************************************************************************)
Finite(s) == IsFiniteSet(shown[s]) /\ IsFiniteSet(todo[s])

Placed(s) ==
    /\ pc[s] \in {"idle", "save_next", "cleanup_next"} => call[s] = NoCall
    /\ call[s].op = "create_order" => pc[s] = "order"

GetOnInv == IsFiniteSet(cart) /\ \A s \in Sessions : Finite(s) /\ Placed(s)

\* What a step of the script of a session achieves.
Gets(s) ==
    /\ Finite(s)' /\ Placed(s)'
    /\ pc[s] # "idle" => StepsLeft(s)' < StepsLeft(s)

\* The cart is finite: each call adds at most one row.
LEMMA HandleKeepsFinite ==
  ASSUME IsFiniteSet(cart), NEW c, NEW ok, Handle(c, ok)
  PROVE  IsFiniteSet(cart')
<1>1. CASE AddCartItem(c, ok)
  BY <1>1, FS_AddElement DEF AddCartItem
<1>2. CASE UpdateCartItem(c, ok)
  <2> DEFINE f == [r \in cart |-> IF r.id = c.id THEN [r EXCEPT !.qty = c.qty] ELSE r]
  <2>1. f \in Surjection(cart, cart')
    BY <1>2 DEF UpdateCartItem, Surjection
  <2> HIDE DEF f
  <2> QED
    BY <2>1, FS_Surjection
<1>3. CASE DeleteCartItem(c, ok)
  <2>1. cart' \in SUBSET cart
    BY <1>3 DEF DeleteCartItem
  <2> QED
    BY <2>1, FS_Subset
<1>4. CASE UpdateStock(c, ok) \/ InsertOrder(c, ok)
  BY <1>4 DEF UpdateStock, InsertOrder
<1> QED
  BY <1>1, <1>2, <1>3, <1>4 DEF Handle

\* A user edits finitely many lines, since a line is edited in one way.
LEMMA EditsFinite ==
  ASSUME NEW s \in Sessions, IsFiniteSet(shown[s]), NEW edits \in Edits(s)
  PROVE  IsFiniteSet(edits)
<1> DEFINE f == [e \in edits |-> e.row]
<1>1. /\ \A e \in edits : e.row \in shown[s]
      /\ \A e, g \in edits : e.row = g.row => e = g
  BY DEF Edits
<1>2. f \in Injection(edits, shown[s])
  BY <1>1 DEF Injection, IsInjective
<1> HIDE DEF f
<1> QED
  BY <1>2, FS_Injection

\* The steps that are left are a number, and more than none in the middle of a
\* flow.
LEMMA StepsLeftPositive ==
  ASSUME TypedInv, NEW s \in Sessions, Finite(s)
  PROVE  StepsLeft(s) \in Nat /\ (pc[s] # "idle" => StepsLeft(s) > 0)
<1> DEFINE lines == Cardinality(todo[s])
           rows == Cardinality(shown[s])
<1>1. lines \in Nat /\ rows \in Nat
  BY FS_CardinalityType DEF Finite
<1>2. pc[s] \in {"save_stock", "save_cart", "cleanup"} => lines > 0
  <2>1. todo[s] # {} => lines # 0
    BY FS_EmptySet DEF Finite
  <2> QED
    BY <1>1, <2>1 DEF TypedInv, FlowInv, AtLine
<1>3. pc[s] \in Pc
  BY DEF TypedInv, UiTyped
<1> HIDE DEF lines, rows
<1> QED
  BY <1>1, <1>2, <1>3 DEF StepsLeft, Pc, lines, rows

\* A script that ends has no step left.
LEMMA StopGets ==
  ASSUME TypedInv, NEW s \in Sessions, Finite(s), Stop(s) \/ ClearAndStop(s)
  PROVE  Gets(s)
<1>1. /\ pc'[s] = "idle" /\ call'[s] = NoCall /\ todo'[s] = {}
      /\ shown'[s] = shown[s] \/ shown'[s] = {}
  BY DEF Stop, ClearAndStop, Goto, TypedInv, UiTyped
<1>2. Finite(s)' /\ Placed(s)'
  BY <1>1, FS_EmptySet DEF Finite, Placed, NoCall
<1>3. StepsLeft(s)' = 0
  BY <1>1 DEF StepsLeft
<1> QED
  BY <1>2, <1>3, StepsLeftPositive DEF Gets

\* Neither has one that is abandoned.
LEMMA AbandonGets ==
  ASSUME TypedInv, NEW s \in Sessions, Finite(s), Abandon(s)
  PROVE  Gets(s)
<1>1. /\ pc'[s] = "idle" /\ call'[s] = NoCall /\ todo'[s] = {} /\ shown'[s] = shown[s]
  BY AbandonEndsFlow DEF TypedInv
<1>2. Finite(s)' /\ Placed(s)'
  BY <1>1, FS_EmptySet DEF Finite, Placed, NoCall
<1>3. StepsLeft(s)' = 0
  BY <1>1 DEF StepsLeft
<1> QED
  BY <1>2, <1>3, StepsLeftPositive DEF Gets

\* A script gets on with every step.
LEMMA ScriptGets ==
  ASSUME TypedInv, NEW s \in Sessions, Finite(s), Placed(s), Script(s)
  PROVE  Gets(s)
<1>u. UiTyped /\ FlowInv
  BY DEF TypedInv
<1> DEFINE lines == Cardinality(todo[s])
           rows == Cardinality(shown[s])
<1>n. lines \in Nat /\ rows \in Nat
  BY FS_CardinalityType DEF Finite
<1>a. ASSUME NEW c, NEW at, Send(s, c, at), UNCHANGED <<shown, todo>>,
             c.op = "create_order" => at = "order",
             at \notin {"idle", "save_next", "cleanup_next"}
      PROVE  /\ Finite(s)' /\ Placed(s)'
             /\ pc'[s] = at /\ reply'[s] = "none" /\ shown' = shown /\ todo' = todo
  <2>1. pc'[s] = at /\ call'[s] = c /\ reply'[s] = "none"
    BY <1>a, <1>u DEF Send, UiTyped
  <2> QED
    BY <1>a, <2>1 DEF Finite, Placed
<1>b. ASSUME Goto(s, "save_next") \/ Goto(s, "cleanup_next"), UNCHANGED shown,
             todo' = [todo EXCEPT ![s] = @ \ {Current(s)}], AtLine(s)
      PROVE  /\ Finite(s)' /\ Placed(s)' /\ Cardinality(todo'[s]) = lines - 1
             /\ pc'[s] \in {"save_next", "cleanup_next"}
             /\ Goto(s, "save_next") => pc'[s] = "save_next"
  <2>1. /\ pc'[s] \in {"save_next", "cleanup_next"} /\ call'[s] = NoCall
        /\ Goto(s, "save_next") => pc'[s] = "save_next"
        /\ todo'[s] = todo[s] \ {Current(s)}
    BY <1>b, <1>u DEF Goto, UiTyped
  <2>2. Current(s) \in todo[s]
    BY <1>b, <1>u, LineTyped
  <2>3. IsFiniteSet(todo'[s]) /\ Cardinality(todo'[s]) = lines - 1
    BY <2>1, <2>2, FS_RemoveElement DEF Finite
  <2> QED
    BY <1>b, <2>1, <2>3 DEF Finite, Placed, NoCall
<1>1. CASE Stop(s) \/ ClearAndStop(s)
  BY <1>1, StopGets
<1>2. CASE AfterAddCart(s) /\ ~Stop(s)
  <2>1. /\ pc[s] = "add_cart" /\ UNCHANGED <<shown, todo>>
        /\ Send(s, StockCall(call[s].product, 0 - call[s].qty), "add_stock")
    BY <1>2 DEF AfterAddCart
  <2>2. /\ Finite(s)' /\ Placed(s)' /\ pc'[s] = "add_stock" /\ reply'[s] = "none"
    BY <1>a, <2>1 DEF StockCall
  <2> QED
    BY <2>1, <2>2 DEF Gets, StepsLeft
<1>3. CASE SaveNextLine(s) /\ ~Stop(s) /\ ~ClearAndStop(s)
  <2>1. /\ pc[s] = "save_next" /\ UNCHANGED <<shown, todo>>
        /\ Send(s, StockCall(Current(s).row.product,
                             IF Current(s).delete THEN Current(s).qty
                             ELSE Current(s).row.qty - Current(s).qty), "save_stock")
    BY <1>3 DEF SaveNextLine
  <2>2. /\ Finite(s)' /\ Placed(s)' /\ pc'[s] = "save_stock" /\ reply'[s] = "none"
        /\ todo' = todo
    BY <1>a, <2>1 DEF StockCall
  <2> QED
    BY <1>n, <2>1, <2>2 DEF Gets, StepsLeft
<1>4. CASE AfterSaveStock(s) /\ ~Stop(s) /\ ~ClearAndStop(s)
  <2>1. pc[s] = "save_stock" /\ AtLine(s) /\ reply[s] # "none"
    BY <1>4 DEF AfterSaveStock, AtLine
  <2>2. CASE reply[s] = "ok"
    <3>1. /\ Send(s, IF Current(s).delete THEN DeleteCall(Current(s).row.id)
                     ELSE PutCall(Current(s).row.id, Current(s).qty), "save_cart")
          /\ UNCHANGED <<shown, todo>>
      BY <1>4, <2>2 DEF AfterSaveStock
    <3>2. /\ Finite(s)' /\ Placed(s)' /\ pc'[s] = "save_cart" /\ reply'[s] = "none"
          /\ todo' = todo
      BY <1>a, <3>1 DEF DeleteCall, PutCall
    <3> QED
      BY <1>n, <2>1, <3>2 DEF Gets, StepsLeft
  <2>3. CASE reply[s] # "ok"
    <3>1. /\ Goto(s, "save_next") /\ UNCHANGED shown
          /\ todo' = [todo EXCEPT ![s] = @ \ {Current(s)}]
      BY <1>4, <2>3 DEF AfterSaveStock
    <3>2. Finite(s)' /\ Placed(s)' /\ pc'[s] = "save_next" /\ Cardinality(todo'[s]) = lines - 1
      BY <1>b, <2>1, <3>1
    <3> QED
      BY <1>n, <2>1, <3>2 DEF Gets, StepsLeft
  <2> QED
    BY <2>2, <2>3
<1>5. CASE AfterSaveCart(s) /\ ~Stop(s) /\ ~ClearAndStop(s)
  <2>1. /\ pc[s] = "save_cart" /\ AtLine(s) /\ reply[s] # "none"
        /\ Goto(s, "save_next") /\ UNCHANGED shown
        /\ todo' = [todo EXCEPT ![s] = @ \ {Current(s)}]
    BY <1>5 DEF AfterSaveCart, AtLine
  <2>2. Finite(s)' /\ Placed(s)' /\ pc'[s] = "save_next" /\ Cardinality(todo'[s]) = lines - 1
    BY <1>b, <2>1
  <2> QED
    BY <1>n, <2>1, <2>2 DEF Gets, StepsLeft
<1>6. CASE AfterCreateOrder(s) /\ ~Stop(s)
  <2> DEFINE line(r) == [row |-> r, delete |-> TRUE, qty |-> r.qty]
             f == [r \in shown[s] |-> line(r)]
  <2>1. /\ pc[s] = "order" /\ reply[s] # "none"
        /\ pc'[s] = "cleanup_next" /\ call'[s] = NoCall
        /\ todo'[s] = {line(r) : r \in shown[s]} /\ shown' = shown
    BY <1>6, <1>u DEF AfterCreateOrder, Goto, UiTyped
  <2>2. f \in Surjection(shown[s], todo'[s])
    BY <2>1 DEF Surjection
  <2>3. IsFiniteSet(todo'[s]) /\ Cardinality(todo'[s]) <= rows
    <3> HIDE DEF f
    <3> QED
      BY <2>2, FS_Surjection DEF Finite
  <2>4. Finite(s)' /\ Placed(s)' /\ Cardinality(todo'[s]) \in Nat
    BY <2>1, <2>3, FS_CardinalityType DEF Finite, Placed, NoCall
  <2> QED
    BY <1>n, <2>1, <2>3, <2>4 DEF Gets, StepsLeft
<1>7. CASE CleanupNextRow(s) /\ ~ClearAndStop(s)
  <2>1. /\ pc[s] = "cleanup_next" /\ UNCHANGED <<shown, todo>>
        /\ Send(s, DeleteCall(Current(s).row.id), "cleanup")
    BY <1>7 DEF CleanupNextRow
  <2>2. Finite(s)' /\ Placed(s)' /\ pc'[s] = "cleanup" /\ reply'[s] = "none" /\ todo' = todo
    BY <1>a, <2>1 DEF DeleteCall
  <2> QED
    BY <1>n, <2>1, <2>2 DEF Gets, StepsLeft
<1>8. CASE AfterCleanup(s) /\ ~Stop(s)
  <2>1. /\ pc[s] = "cleanup" /\ AtLine(s) /\ reply[s] # "none"
        /\ Goto(s, "cleanup_next") /\ UNCHANGED shown
        /\ todo' = [todo EXCEPT ![s] = @ \ {Current(s)}]
    BY <1>8 DEF AfterCleanup, AtLine
  <2>2. /\ Finite(s)' /\ Placed(s)' /\ Cardinality(todo'[s]) = lines - 1
        /\ pc'[s] = "cleanup_next"
    BY <1>b, <1>u, <2>1 DEF Goto, UiTyped
  <2> QED
    BY <1>n, <2>1, <2>2 DEF Gets, StepsLeft
<1> QED
  BY <1>1, <1>2, <1>3, <1>4, <1>5, <1>6, <1>7, <1>8 DEF Script, AfterAddStock

\* A click starts a flow with a finite grid.
LEMMA ClickGets ==
  ASSUME TypedInv, IsFiniteSet(cart), NEW s \in Sessions, Finite(s), Placed(s), Click(s)
  PROVE  Gets(s)
<1>u. UiTyped
  BY DEF TypedInv
<1>1. pc[s] = "idle"
  BY DEF Click, ListCartItems, ClickAddToCart, ClickSaveChanges, ClickCreateOrder
<1>2. ASSUME NEW u \in UsersOf[s], ListCartItems(s, u) PROVE Finite(s)' /\ Placed(s)'
  <2>1. /\ shown'[s] = shown[s] \/ shown'[s] = CartOf(u)
        /\ UNCHANGED <<pc, todo, call>>
    BY <1>2, <1>u DEF ListCartItems, UiTyped
  <2>2. IsFiniteSet(CartOf(u))
    <3>1. CartOf(u) \in SUBSET cart
      BY DEF CartOf
    <3> QED
      BY <3>1, FS_Subset
  <2> QED
    BY <2>1, <2>2 DEF Finite, Placed
<1>3. ASSUME NEW u \in UsersOf[s], NEW p \in Products, NEW q \in Quantities,
             ClickAddToCart(s, u, p, q)
      PROVE  Finite(s)' /\ Placed(s)'
  BY <1>3, <1>u DEF ClickAddToCart, Send, AddCall, UiTyped, Finite, Placed
<1>4. CASE ClickSaveChanges(s)
  <2>1. PICK edits \in Edits(s) : todo' = [todo EXCEPT ![s] = edits]
    BY <1>4 DEF ClickSaveChanges
  <2>2. IsFiniteSet(edits)
    BY EditsFinite DEF Finite
  <2> QED
    BY <1>1, <1>4, <1>u, <2>1, <2>2
    DEF ClickSaveChanges, Goto, UiTyped, Finite, Placed, NoCall, Gets
<1>5. CASE ClickCreateOrder(s)
  BY <1>1, <1>5, <1>u DEF ClickCreateOrder, Send, UiTyped, Finite, Placed, Gets
<1> QED
  BY <1>1, <1>2, <1>3, <1>4, <1>5 DEF Click, Gets

\* An answer, a refusal and a time-out are nearer to the end as well.
LEMMA AnswerGets ==
  ASSUME TypedInv, NEW s \in Sessions, Finite(s), Placed(s),
         Service(s) \/ Refuse(s) \/ Timeout(s)
  PROVE  Gets(s)
<1>u. UiTyped /\ pc[s] \in Pc
  BY DEF TypedInv, UiTyped
<1>n. Cardinality(todo[s]) \in Nat /\ Cardinality(shown[s]) \in Nat
  BY FS_CardinalityType DEF Finite
<1>1. reply[s] = "none" /\ call[s] # NoCall /\ UNCHANGED <<pc, shown, todo>>
  BY DEF Service, Serve, ServeCreateOrder, Refuse, Timeout, Handle, AddCartItem,
         UpdateCartItem, DeleteCartItem, UpdateStock, InsertOrder, NoCall
<1>2. CASE call' = call /\ reply'[s] # "none"
  <2>1. Finite(s)' /\ Placed(s)'
    BY <1>1, <1>2 DEF Finite, Placed
  <2> QED
    BY <1>1, <1>2, <1>n, <1>u, <2>1 DEF Gets, StepsLeft, Placed, Pc
<1>3. CASE /\ call[s].op = "create_order" /\ call'[s].op = "insert_order" /\ reply' = reply
  <2>1. pc[s] = "order" /\ Finite(s)' /\ Placed(s)'
    BY <1>1, <1>3 DEF Finite, Placed
  <2> QED
    BY <1>1, <1>3, <1>n, <2>1 DEF Gets, StepsLeft
<1> QED
  BY <1>2, <1>3, <1>u DEF Service, Serve, ServeCreateOrder, Refuse, Timeout, InsertCall, UiTyped

\* Every step keeps grids finite and calls in their places, and gets the flow
\* it belongs to nearer to its end.
LEMMA GetOnStep ==
  TypedInv /\ GetOnInv /\ [Next]_vars =>
    /\ GetOnInv'
    /\ [\A s \in Sessions : pc[s] # "idle" =>
          \/ StepsLeft(s)' < StepsLeft(s)
          \/ UNCHANGED <<pc[s], call[s], reply[s], shown[s], todo[s]>>]_vars
<1> SUFFICES ASSUME TypedInv, GetOnInv, [Next]_vars
             PROVE  /\ IsFiniteSet(cart')
                    /\ \A s \in Sessions :
                          \/ Gets(s)
                          \/ /\ Finite(s)' /\ Placed(s)'
                             /\ UNCHANGED <<pc[s], call[s], reply[s], shown[s], todo[s]>>
  BY DEF GetOnInv, Gets
<1>u. UiTyped
  BY DEF TypedInv
<1>o. ASSUME NEW x \in Sessions, pc'[x] = pc[x], call'[x] = call[x], reply'[x] = reply[x],
             shown'[x] = shown[x], todo'[x] = todo[x]
      PROVE  /\ Finite(x)' /\ Placed(x)'
             /\ UNCHANGED <<pc[x], call[x], reply[x], shown[x], todo[x]>>
  BY <1>o DEF GetOnInv, Finite, Placed
<1>1. CASE UNCHANGED vars
  BY <1>1, <1>o DEF vars, db, ui, GetOnInv
<1>2. ASSUME NEW s \in Sessions, Script(s) \/ Abandon(s) \/ Click(s)
      PROVE  /\ cart' = cart /\ Gets(s)
             /\ \A x \in Sessions \ {s} :
                   /\ pc'[x] = pc[x] /\ call'[x] = call[x] /\ reply'[x] = reply[x]
                   /\ shown'[x] = shown[x] /\ todo'[x] = todo[x]
  <2>1. cart' = cart
    BY <1>2 DEF Script, AfterAddCart, AfterAddStock, SaveNextLine, AfterSaveStock,
      AfterSaveCart, AfterCreateOrder, CleanupNextRow, AfterCleanup, Abandon, Click,
      ClickAddToCart, ListCartItems, ClickSaveChanges, ClickCreateOrder, db
  <2>2. Gets(s)
    BY <1>2, ScriptGets, AbandonGets, ClickGets DEF GetOnInv
  <2>3. \A x \in Sessions \ {s} :
           /\ pc'[x] = pc[x] /\ call'[x] = call[x] /\ reply'[x] = reply[x]
           /\ shown'[x] = shown[x] /\ todo'[x] = todo[x]
    BY <1>2, <1>u, AbandonEndsFlow
    DEF Script, AfterAddCart, AfterAddStock, SaveNextLine, AfterSaveStock, AfterSaveCart,
        AfterCreateOrder, CleanupNextRow, AfterCleanup, Click, ClickAddToCart, ListCartItems,
        ClickSaveChanges, ClickCreateOrder, Send, Goto, Stop, ClearAndStop, UiTyped
  <2> QED
    BY <2>1, <2>2, <2>3
<1>3. ASSUME NEW s \in Sessions, Service(s) \/ Refuse(s) \/ Timeout(s)
      PROVE  /\ IsFiniteSet(cart') /\ Gets(s)
             /\ \A x \in Sessions \ {s} :
                   /\ pc'[x] = pc[x] /\ call'[x] = call[x] /\ reply'[x] = reply[x]
                   /\ shown'[x] = shown[x] /\ todo'[x] = todo[x]
  <2>1. Gets(s)
    BY <1>3, AnswerGets DEF GetOnInv
  <2>2. IsFiniteSet(cart')
    BY <1>3, HandleKeepsFinite
    DEF Service, Serve, ServeCreateOrder, Refuse, Timeout, db, GetOnInv
  <2>3. \A x \in Sessions \ {s} :
           /\ pc'[x] = pc[x] /\ call'[x] = call[x] /\ reply'[x] = reply[x]
           /\ shown'[x] = shown[x] /\ todo'[x] = todo[x]
    BY <1>3, <1>u DEF Service, Serve, ServeCreateOrder, Refuse, Timeout, UiTyped
  <2> QED
    BY <2>1, <2>2, <2>3
<1>4. ASSUME NEW l \in late, LateService(l) PROVE IsFiniteSet(cart') /\ UNCHANGED ui
  BY <1>4, HandleKeepsFinite
  DEF LateService, ServeLate, ServeCreateOrderLate, Lose, db, GetOnInv
<1>5. ASSUME NEW p \in Products, WithdrawProduct(p) PROVE cart' = cart /\ UNCHANGED ui
  BY <1>5 DEF WithdrawProduct
<1>6. UNCHANGED ui /\ IsFiniteSet(cart') =>
        \A s \in Sessions : /\ Finite(s)' /\ Placed(s)'
                            /\ UNCHANGED <<pc[s], call[s], reply[s], shown[s], todo[s]>>
  BY <1>o DEF ui
<1>7. CASE \E s \in Sessions :
              Script(s) \/ Abandon(s) \/ Click(s) \/ Service(s) \/ Refuse(s) \/ Timeout(s)
  BY <1>7, <1>2, <1>3, <1>o DEF GetOnInv
<1>8. CASE \/ \E l \in late : LateService(l)
           \/ \E p \in Products : WithdrawProduct(p)
  BY <1>8, <1>4, <1>5, <1>6 DEF GetOnInv
<1> QED
  BY <1>1, <1>7, <1>8 DEF Next

\* Every flow is finite, for any number of sessions, rows and faults: each of
\* its steps and each answer it gets, if only a refusal or a time-out, brings
\* its end nearer, and nobody else's step moves it away.  With the fairness of
\* FairSpec this is why flows end (the loops of ui/cart_ui.py over a grid that
\* other sessions' calls change at the same time).
THEOREM FlowsAlwaysGetOn == Spec => FlowsGetOn
<1>1. Init => TypedInv /\ GetOnInv
  <2>1. Init => GetOnInv
    BY FS_EmptySet DEF Init, GetOnInv, Finite, Placed, NoCall
  <2> QED
    BY <2>1, TypedInit
<1>2. TypedInv /\ GetOnInv /\ [Next]_vars => TypedInv' /\ GetOnInv'
  BY TypedStep, GetOnStep
<1> QED
  BY <1>1, <1>2, GetOnStep, PTL DEF Spec, FlowsGetOn
=============================================================================
