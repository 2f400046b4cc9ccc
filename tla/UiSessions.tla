------------------------------ MODULE UiSessions ------------------------------
(***************************************************************************)
(* Browser sessions of the Streamlit UI (ui/online_store_ui.py): the set-up*)
(* of telemetry at the start of a script run (otel/otel.py), the sidebar   *)
(* that selects organisation, tenant and acting user, and the calls of the *)
(* pages with the attribution that travels in their headers                *)
(* (otel/tenant.py).  The user service is the module UserService.          *)
(*                                                                         *)
(* A session has one script run at a time, in a thread of its own or in the*)
(* thread of its last run.  `ctx' holds the three context variables of that*)
(* thread, `side' what the sidebar of the current run shows, `flow' the    *)
(* calls that the page still has to make.                                  *)
(*                                                                         *)
(* `chains' are the calls being served: `sent' the headers of the call that*)
(* is under way, `ctx' the context of the handler that serves it (OnWire   *)
(* while there is none), `shown' what the sidebar showed when the UI made  *)
(* the first call of the chain, `live' whether the UI still waits for it.  *)
(***************************************************************************)
EXTENDS Integers, Sequences, FiniteSets

CONSTANTS
    Sessions,     \* browser sessions
    Orgs,         \* DEMO_ORGS: the organisations
    TenantsOf,    \* DEMO_ORGS: the tenants of each
    FallbackIds,  \* ids of the built-in list of users
    PageNames,    \* service names that the page modules configure
    HomeName,     \* the service name that the main script configures
    NoValue,      \* an empty context variable, an absent header
    OnWire,       \* no handler has taken the call yet
    GridLines,    \* bound on the lines of a grid that a run works through
    MaxRuns,      \* bound on script runs
    MaxLate,      \* bound on calls that are served though nobody waits
    Pods, LastNames, Seeds, MaxUsers, MaxCrashes   \* of UserService

ASSUME SidebarAssumption ==
    /\ FallbackIds \subseteq Nat \ {0}
    /\ GridLines \in Nat /\ MaxRuns \in Nat /\ MaxLate \in Nat
ASSUME DirectoryAssumption ==
    Seeds \in Seq(LastNames) /\ MaxUsers \in Nat /\ MaxCrashes \in Nat

VARIABLES
    users, userSeq, pod, pos, crashes,   \* the user service
    memo, handlers,   \* _telemetry_configured_resources, handlers of the root logger
    pc, ctx, side, flow, chains,
    runs              \* script runs so far

Directory == INSTANCE UserService

directory == <<users, userSeq, pod, pos, crashes>>
telemetry == <<memo, handlers>>
script == <<pc, ctx, side, flow, runs>>
vars == <<directory, telemetry, script, chains>>
-----------------------------------------------------------------------------
\* The header carries the id alone; `by' (who selected it) and `person' (who
\* had the id then, 0 for the built-in list) are kept for the properties.
Customer == [by : Sessions, id : Nat \ {0}, person : Nat]
Tenants == UNION {TenantsOf[o] : o \in Orgs}
Attribution == [org : Orgs \cup {NoValue}, tenant : Tenants \cup {NoValue},
                customer : Customer \cup {NoValue}]
Nobody == [org |-> NoValue, tenant |-> NoValue, customer |-> NoValue]

Names == PageNames \cup {HomeName}

\* attribution_headers: an empty value is not sent, and the hook of the server
\* reads an absent header as an empty value.
Send(s, to, first) ==
    chains' = chains \cup {[by |-> s, to |-> to, first |-> first, sent |-> ctx'[s],
                            shown |-> side'[s], ctx |-> OnWire, live |-> TRUE]}

Goto(s, l) == pc' = [pc EXCEPT ![s] = l]
Waits(s, c) == c.by = s /\ c.live

Init ==
    /\ Directory!Init
    /\ memo = {} /\ handlers = [n \in Names |-> 0]
    /\ pc = [s \in Sessions |-> "idle"]
    /\ ctx = [s \in Sessions |-> Nobody]
    /\ side = [s \in Sessions |-> Nobody]
    /\ flow = [s \in Sessions |-> <<>>]
    /\ chains = {} /\ runs = 0
-----------------------------------------------------------------------------
(***************************************************************************)
(* The calls of one run of each page, at most; a run can end earlier.      *)
(***************************************************************************)
Operations ==
    {"list_users", "edit_user", "list_orders", "add_product", "list_products",
     "update_product", "delete_product", "add_to_cart", "update_stock",
     "list_cart", "create_order", "update_cart_item", "delete_cart_item", "onward"}

Chain == [by : Sessions, to : Operations, first : BOOLEAN, sent : Attribution,
          shown : Attribution, ctx : Attribution \cup {OnWire}, live : BOOLEAN]

EachLine(op) == [i \in 1 .. GridLines |-> op]

UserPage == {<<"list_users">>, <<"edit_user">>}   \* add, update or remove

OrderPage == {<<"list_users", "list_orders">>}

ProductPage ==
    {<<"add_product">>,
     <<"list_products", "list_users", "add_to_cart", "update_stock">>,
     <<"list_products", "update_product">>,
     <<"list_products">> \o EachLine("delete_product")}

\* "Save Changes": for each edited line the stock, then its row.
SaveChanges ==
    {[i \in 1 .. 2 * GridLines |-> IF i % 2 = 1 THEN "update_stock" ELSE kinds[i \div 2]] :
        kinds \in [1 .. GridLines -> {"update_cart_item", "delete_cart_item"}]}

\* "Create Order", and the clean-up of every row of the grid.
CreateOrder == <<"create_order">> \o EachLine("delete_cart_item")

\* The cart is loaded in a run that shows "List Cart Items"; the grid stays in
\* the session state, so that its buttons also work in a run that does not.
CartPage ==
    {load \o click : load \in {<<>>, <<"list_users", "list_cart">>},
                     click \in SaveChanges \cup {CreateOrder}}

Flows == {<<>>} \cup UserPage \cup OrderPage \cup ProductPage \cup CartPage

\* What is left of a run whose call is refused: the loops that delete rows go
\* on with the next row, a save that cannot give back the units of a deleted
\* line goes on with the next line, and everything else breaks off.
AfterRefusal(op, rest) ==
    LET next == IF rest = <<>> THEN "end" ELSE Head(rest) IN
    IF op \in {"delete_product", "delete_cart_item"} /\ next = op THEN rest
    ELSE IF op = "update_stock" /\ next = "delete_cart_item" THEN Tail(rest)
    ELSE <<>>
-----------------------------------------------------------------------------
\* Streamlit's threads, which are outside this code: a run gets a new thread,
\* whose context is empty, or it is a rerun in the thread of the session's last
\* run and finds the values of that.
StartRun(s) ==
    /\ pc[s] = "idle" /\ runs < MaxRuns
    /\ runs' = runs + 1
    /\ Goto(s, "import")
    /\ ctx' \in {ctx, [ctx EXCEPT ![s] = Nobody]}
    /\ UNCHANGED <<directory, telemetry, side, flow, chains>>

\* Each page module configures its name when it is first imported, under the
\* import lock.  Every configuration adds a handler to the root logger.
ImportPages(s) ==
    /\ pc[s] = "import"
    /\ Goto(s, "check")
    /\ handlers' = [n \in Names |->
                       IF n \in PageNames \ memo THEN handlers[n] + 1 ELSE handlers[n]]
    /\ memo' = memo \cup PageNames
    /\ UNCHANGED <<runs, directory, ctx, side, flow, chains>>

(***************************************************************************)
(* configure_telemetry, called by every run of the main script: nothing    *)
(* locks the memo between the look and the entry.                          *)
(***************************************************************************)
CheckMemo(s) ==
    /\ pc[s] = "check"
    /\ Goto(s, IF HomeName \in memo THEN "sidebar" ELSE "configure")
    /\ UNCHANGED <<runs, directory, telemetry, ctx, side, flow, chains>>

ConfigureHome(s) ==
    /\ pc[s] = "configure"
    /\ Goto(s, "fill")
    /\ handlers' = [handlers EXCEPT ![HomeName] = @ + 1]
    /\ UNCHANGED <<runs, directory, memo, ctx, side, flow, chains>>

FillMemo(s) ==
    /\ pc[s] = "fill"
    /\ Goto(s, "sidebar")
    /\ memo' = memo \cup {HomeName}
    /\ UNCHANGED <<runs, directory, handlers, ctx, side, flow, chains>>
-----------------------------------------------------------------------------
(***************************************************************************)
(* The sidebar.                                                            *)
(***************************************************************************)
SelectOrg(s) ==
    /\ pc[s] = "sidebar"
    /\ Goto(s, "tenant")
    /\ \E o \in Orgs :
          /\ ctx' = [ctx EXCEPT ![s].org = o]
          /\ side' = [side EXCEPT ![s].org = o]
    /\ UNCHANGED <<runs, directory, telemetry, flow, chains>>

\* Then _sidebar_users asks for the users, before set_current_customer.
SelectTenant(s) ==
    /\ pc[s] = "tenant"
    /\ Goto(s, "users")
    /\ \E t \in TenantsOf[side[s].org] :
          /\ ctx' = [ctx EXCEPT ![s].tenant = t]
          /\ side' = [side EXCEPT ![s].tenant = t]
    /\ Send(s, "list_users", TRUE)
    /\ UNCHANGED <<runs, directory, telemetry, flow>>

\* Mutation: the index in the list in place of the id.
SelectCustomerByIndex(s, id, person) ==
    LET c == [by |-> s, id |-> id - 1, person |-> person] IN
    /\ Goto(s, "page")
    /\ ctx' = [ctx EXCEPT ![s].customer = c]
    /\ side' = [side EXCEPT ![s].customer = c]
    /\ \E f \in Flows : flow' = [flow EXCEPT ![s] = f]
    /\ UNCHANGED <<runs, directory, telemetry>>

\* The page is opened right after.
SelectCustomer(s, id, person) ==
    LET c == [by |-> s, id |-> id, person |-> person] IN
    /\ Goto(s, "page")
    /\ ctx' = [ctx EXCEPT ![s].customer = c]
    /\ side' = [side EXCEPT ![s].customer = c]
    /\ \E f \in Flows : flow' = [flow EXCEPT ![s] = f]
    /\ UNCHANGED <<runs, directory, telemetry>>

(***************************************************************************)
(* What a call ends in.  A session that gives up leaves the call behind: it*)
(* is lost or, when its handler makes a call of its own, may still do so.  *)
(* Other calls that are served late do what they do for another session.   *)
(***************************************************************************)
Handled(c) ==
    /\ c.ctx # OnWire /\ c.to # "create_order"
    /\ c.to \in {"list_users", "edit_user"} => Directory!Serving
Abandoned == {c \in chains : ~c.live}

GiveUp(c) ==
    \/ chains' = chains \ {c}
    \/ /\ c.to \in {"create_order", "onward"}
       /\ Cardinality(Abandoned) < MaxLate
       /\ chains' = (chains \ {c}) \cup {[c EXCEPT !.live = FALSE]}

\* The handlers of the user service; a request they refuse has no effect.
Effect(c) ==
    IF c.to = "edit_user" THEN Directory!Handler \/ UNCHANGED directory
                          ELSE UNCHANGED directory

\* The list of the service, or the built-in one when the service does not
\* answer in time, refuses, or knows no users.
ListUsers(s) ==
    /\ pc[s] = "users"
    /\ \E c \in chains :
          /\ Waits(s, c)
          /\ \/ /\ Handled(c)
                /\ chains' = chains \ {c}
                /\ \E r \in users : SelectCustomer(s, r.id, r.person)
             \/ /\ GiveUp(c)
                /\ \E i \in FallbackIds : SelectCustomer(s, i, 0)

\* A widget is touched while the run shows the sidebar or a page: Streamlit
\* abandons the run at its next st call.  Or the run is over.
EndRun(s) ==
    /\ pc[s] \in {"sidebar", "tenant", "page"}
    /\ Goto(s, "idle")
    /\ flow' = [flow EXCEPT ![s] = <<>>]
    /\ side' = [side EXCEPT ![s] = Nobody]
    /\ UNCHANGED <<runs, directory, telemetry, ctx, chains>>
-----------------------------------------------------------------------------
(***************************************************************************)
(* The pages.                                                              *)
(***************************************************************************)
CallService(s) ==
    /\ pc[s] = "page" /\ flow[s] # <<>>
    /\ Goto(s, "call")
    /\ flow' = [flow EXCEPT ![s] = Tail(@)]
    /\ UNCHANGED <<runs, directory, telemetry, ctx, side>>
    /\ Send(s, Head(flow[s]), FALSE)

Answered(s) ==
    /\ pc[s] = "call"
    /\ Goto(s, "page")
    /\ \E c \in chains :
          /\ Waits(s, c) /\ Handled(c)
          /\ chains' = chains \ {c}
          /\ Effect(c)
    /\ UNCHANGED <<runs, telemetry, ctx, side, flow>>

Refused(s) ==
    /\ pc[s] = "call"
    /\ Goto(s, "page")
    /\ \E c \in chains :
          /\ Waits(s, c)
          /\ chains' = chains \ {c}
          /\ flow' = [flow EXCEPT ![s] = AfterRefusal(c.to, @)]
    /\ UNCHANGED <<runs, directory, telemetry, ctx, side>>

\* The exception ends the script; create_order goes on in its service.
Timeout(s) ==
    /\ pc[s] = "call"
    /\ Goto(s, "page")
    /\ \E c \in chains : Waits(s, c) /\ GiveUp(c)
    /\ flow' = [flow EXCEPT ![s] = <<>>]
    /\ UNCHANGED <<runs, directory, telemetry, ctx, side>>
-----------------------------------------------------------------------------
(***************************************************************************)
(* The services.                                                           *)
(***************************************************************************)
\* Mutation: the values are globals of the process instead of context
\* variables, so every handler of the order service sees those of the last
\* request.
ServerRequestHookGlobal(c) ==
    /\ c.ctx = OnWire
    /\ chains' = {IF d = c \/ ({c.to, d.to} \subseteq {"create_order", "list_orders"}
                               /\ d.ctx # OnWire)
                  THEN [d EXCEPT !.ctx = c.sent] ELSE d : d \in chains}
    /\ UNCHANGED <<directory, telemetry, script>>

\* Every handler runs in a context of its own, with the values of its headers.
ServerRequestHook(c) ==
    /\ c.ctx = OnWire
    /\ chains' = (chains \ {c}) \cup {[c EXCEPT !.ctx = c.sent]}
    /\ UNCHANGED <<directory, telemetry, script>>

\* create_order asks the cart service; what remains of it changes no
\* attribution, so that the chain ends with the answer of the cart service.
CallOnwards(c) ==
    /\ c.ctx # OnWire /\ c.to = "create_order"
    /\ chains' = (chains \ {c}) \cup
          {[c EXCEPT !.to = "onward", !.sent = c.ctx, !.ctx = OnWire]}
    /\ UNCHANGED <<directory, telemetry, script>>

\* The end of a call nobody waits for.
ServeLate(c) ==
    /\ ~c.live
    /\ chains' = chains \ {c}
    /\ UNCHANGED <<directory, telemetry, script>>
-----------------------------------------------------------------------------
Script(s) ==
    \/ ImportPages(s) \/ CheckMemo(s) \/ ConfigureHome(s) \/ FillMemo(s)
    \/ SelectOrg(s) \/ SelectTenant(s) \/ ListUsers(s)
    \/ CallService(s) \/ Answered(s) \/ Refused(s) \/ Timeout(s) \/ EndRun(s)

Service(c) == ServerRequestHook(c) \/ CallOnwards(c) \/ ServeLate(c)

UserPod(p) == Directory!PodStep(p) /\ UNCHANGED <<telemetry, script, chains>>

Next ==
    \/ \E s \in Sessions : StartRun(s) \/ Script(s)
    \/ \E c \in chains : Service(c)
    \/ \E p \in Pods : UserPod(p)

Spec == Init /\ [][Next]_vars
-----------------------------------------------------------------------------
TypeOK ==
    /\ Directory!TypeOK
    /\ memo \subseteq Names /\ handlers \in [Names -> Nat]
    /\ pc \in [Sessions -> {"idle", "import", "check", "configure", "fill",
                            "sidebar", "tenant", "users", "page", "call"}]
    /\ ctx \in [Sessions -> Attribution] /\ side \in [Sessions -> Attribution]
    /\ flow \in [Sessions -> Seq(Operations)] /\ runs \in 0 .. MaxRuns
    /\ chains \subseteq Chain

\* "A whole call chain stays attributed to the same org / tenant / customer":
\* each call of a session, and what a service calls for it, carries what this
\* session showed when the call was made, whatever other sessions and late calls
\* are served meanwhile.  Of the call that lists the users, which goes out
\* before a user is shown, this is true of organisation and tenant.
ChainStaysAttributed ==
    \A c \in chains :
        /\ c.sent.org = c.shown.org /\ c.sent.tenant = c.shown.tenant
        /\ ~c.first => c.sent.customer = c.shown.customer

\* The id a session or a call acts as never comes to mean another person:
\* users may be removed, added and populated again at any time.
ActedAs == {ctx[s].customer : s \in Sessions} \cup {c.sent.customer : c \in chains}

ActsAsOnePerson ==
    \A a \in ActedAs \ {NoValue}, r \in users :
        a.person # 0 /\ r.id = a.id => r.person = a.person
=============================================================================
