# Verification of the online store and its telemetry storage

TLA+ models of the programs in this repository that keep state and run
concurrently: the services and the UI of the demo online store
(`src/online_store/`) and the Kusto storage plugin for Jaeger
(`src/jaeger/plugin/`). TLC checks the models on small instances, TLAPS proves
the main results for every value of the constants. All paths below are relative
to `src/`; `PROJECT.json` maps each definition to the lines it models.

## 1. The system

The repository deploys a demo shop on Kubernetes, collects its telemetry and
stores it in Azure Data Explorer (Kusto), where Jaeger and Grafana read it.

### Components, their state and their operations

| Component | State | Operations | What makes it correct |
|---|---|---|---|
| Product service `online_store/product/app.py` | table `products` (UNIQUE `product_id`, stock level) in one SQLite file | `init_db` with `populate_products.sql`; list, add, delete; `update_stock` (relative, SELECT then UPDATE); `update_product` (absolute, after a sleep of 5 s) | every answered request takes effect once and as asked; identifiers stay unique; a restart resets nothing; no request hangs |
| Cart service `online_store/cart/app.py` | table `cart_items` (AUTOINCREMENT id, user, product, quantity) | list, add, update by id, delete by id | a row id means one row for ever, because rows are addressed without their owner |
| Order service `online_store/order/app.py` | tables `orders`, `order_items` | list; `create_order`: GET the cart over HTTP, then one transaction | what is ordered is the cart as it was read, which only those who share it can outdate |
| Shopping flows `online_store/ui/cart_ui.py`, `product_ui.py` | per browser session: `cart_user_id`, `cart_df_full`, the grid; the position in the script | add to cart (cart row, then stock); save changes (per line: stock, then cart row); create order (order, then delete each row) | no unit of stock is lost; only what was ordered is cleaned up; flows end |
| Span writer and shutdown `jaeger/plugin/store/writer.go`, `runner/server.go` | channel `spanInput`, channel `shutdown`, worker goroutines, gRPC server | `WriteSpan`, `ingestWorker`, `Close`, the signal handler | closed only after the last write; acknowledged spans are kept; a signal stops the process |
| Reader `jaeger/plugin/store/reader.go`, `config/kusto_config.go` | the slice `defaultReadOptions`, shared by all handlers | eight kinds of query | a query goes out with its own client request id; a search finds what it asks for and misses nothing |
| Searches `store/queryUtils.go`, `reader.go` | none | `validateQuery`, the query text of `FindTraceIDs` and `FindTraces` | the filters mean what the parameters mean to Jaeger |
| Span conversion `store/kustoSpan.go` | none | pure functions | conversions keep what they are given |
| Plugin configuration `config/plugin_config.go`, `shared.go` | none after start | defaults, file, environment | the later source wins |
| User service `online_store/user/app.py` | table `users` (AUTOINCREMENT id, UNIQUE `last_name`) | `init_db` with `populate_users.sql`; list, add, remove by name, update by id | an id means one person for ever, because headers, carts and orders name users by id |
| Attribution `online_store/otel/tenant.py`, `ui/online_store_ui.py` | three context variables per script thread and per handler | set organisation, tenant, customer; inject headers; restore them in a service | a chain of calls carries what its own session showed |
| Telemetry set-up `online_store/otel/otel.py` | a memo, log handlers of the root logger | `configure_telemetry` | log records are not duplicated with every run |
| Pages `ui/order_ui.py`, `user_ui.py`, `product_ui.py`, `cart_ui.py` | per session: the script run | the sequences of calls of each page | as Attribution |

### Interactions

The UI calls every service over HTTP, one call after the other, inside the
script run that Streamlit starts for each click. The order service calls the
cart service. All services of the shop share one SQLite file, each on its own
tables. Nothing is transactional across calls. Jaeger calls the plugin over
gRPC; each call is a goroutine, and the handlers share one reader and one
writer. The collector fills the table that the reader queries.

### What is hard

* **Interleaving of flows**: the sessions read and write the same rows and
  levels between the calls of each other's flows.
* **Stale grids**: the UI addresses rows by what it loaded earlier and keeps
  user and grid across runs.
* **Partial failure**: a refused call skips a line, leaves the loop or leaves the
  script; a timed-out call may still be applied.
* **Start-up and restart**: the SQL script runs in autocommit at every start, a
  rolling update overlaps two pods on one file.
* **Coroutines**: `update_stock` is atomic only because nothing in it awaits;
  `update_product` awaits for five seconds.
* **Context variables**: Streamlit may run a script in the thread of an earlier run, and
  the services interleave their handlers; the values that travel in headers must be those
  of the own session or request.
* **Users that come and go**: the UI acts under an id from a list fetched earlier, while the
  user is removed and the table is populated again.
* **Go channels and slices**: an unbuffered channel without a receiver, a bounded
  one that nobody drains, `append` on a shared slice.
* **One process**: a panic in one read handler ends all other calls and loses the spans
  that were acknowledged; a shutdown waits for calls of both kinds.
* **Searches against a table that grows**: limits, defaults and bounds of a query that runs
  while spans are stored.

`PROJECT.json` lists each of these hazards at its line under `hazards`, with the
properties that would catch it.

## 2. The modules

| Module | Models | Builds on |
|---|---|---|
| `StockLedger` | what the product service promises: a ledger of levels, atomic requests | |
| `ProductService` | the product service with pods, start-up, crashes, suspended handlers | implements `StockLedger` (`INSTANCE ... WITH`) |
| `OnlineStore` | UI sessions with the cart, order and product services | takes the promise of `StockLedger` for stock changes |
| `UserService` | the user service with pods, start-up and crashes | |
| `UiSessions` | script runs of the UI: telemetry set-up, sidebar, calls of the pages, headers, the services' contexts | `UserService` (`INSTANCE`) |
| `SpanWriter` | the write path and the graceful shutdown | |
| `TraceQuery` | the searches: validation, filters, limits, and what the parameters mean | |
| `SpanReads` | what the read path promises: calls that each look once at a table that grows | |
| `KustoReader` | the concurrent read handlers, their options and their results | `TraceQuery`; implements `SpanReads` |
| `JaegerPlugin` | the plugin as one process | composes `SpanWriter` and `KustoReader` |
| `MC...` | instances for TLC | the module they extend |
| `SumTheorems` | what the library's sums over finite sets are: theorems without a model | `FiniteSetsExt`, `TLAPS` |
| `...Proofs` | theorems and proofs (`OwnCartProofs` continues `OnlineStoreProofs`) | the module they extend, `TLAPS` |

### StockLedger and ProductService

`ProductService` keeps `products` (rows with rowid, id and level), `rowSeq` (the
AUTOINCREMENT counter), and for each pod `pod` (down, booting, up) and `pos` (its
line of the SQL script). `req` is the request of a client that stopped half-way.

* `StartInitDb`, `PopulateRow`, `FinishInitDb` are `init_db`. `executescript`
  commits each INSERT by itself and stops at the first identifier that is already
  there; the error is only logged, and the pod comes up.
* `Crash` kills a pod at any point, including inside the script, and drops its
  requests. With two elements in `Pods` it is also the end of the old pod of a
  rolling update (`scripts/restart-online-store.sh`).
* `AddProduct` and `DeleteProduct` do all their work between two awaits and are
  one step each, with all their answers: `add_product` refuses a stock of 0
  (`not all([...])`), a missing row makes `delete_product` answer 500 because it
  commits on a closed connection.
* `UpdateStockSelect` and `UpdateStockWrite` are the two statements of
  `update_stock`. In between nothing of the same pod runs (`LoopFree`: the
  handler has no `await` there), but other pods do.
* `UpdateProductStart` and `UpdateProductWrite` are the two sides of the sleep.

Rows are abstracted to identifier and level, the name of a product is a function
of its identifier (no route changes a name), other columns are left out. A
`database is locked` error of SQLite is not modelled; it would answer 500 and
change nothing.

`StockLedger` has no pods, no suspended requests and no rows. Each success changes
the ledger by exactly what was asked in the step that answers it, each failure
has a reason (`RefuseAdd`, `RefuseChange`, ...) that holds in that step.
`ImplementsLedger` is the statement that the service with one pod and products of
different names is a ledger: the lost update that a SELECT followed by an UPDATE
invites does not happen, and restarts are invisible.

### OnlineStore

Database: `onSale` and `stock` (products), `cart` with `cartSeq`, `orders` with
`orderSeq`. Sessions: `pc` (position in the script), `call` and `reply` (the HTTP
call it waits for), `userId` and `shown` (`cart_user_id` and `cart_df_full` of the
session state), `todo` (lines the current loop still has to do). `late` holds calls
that are still served after their session gave up. `supply` is a history variable:
the units that were brought in and not withdrawn.

A flow is a sequence of steps that each wait for one call:

* add to cart: `ClickAddToCart`, `AfterAddCart`, `AfterAddStock`;
* `ListCartItems`: stores the user first, replaces the grid only when the answer
  is a non-empty cart;
* save: `ClickSaveChanges`, then for each line `SaveNextLine`, `AfterSaveStock`,
  `AfterSaveCart`. A line that is deleted gives its units back before the row is
  deleted; a refusal of the stock is `continue` for a deleted line and `break` for
  an edited one;
* order: `ClickCreateOrder`, `AfterCreateOrder`, then `CleanupNextRow` and
  `AfterCleanup` for every row of the stored grid.

`shown` stands for `cart_df_full` and `cart_df_display_original`, which are replaced one
line after the other; a run abandoned between the two (`ui/cart_ui.py:91-92`) is left out.

A service answers in one step (`Serve`, by `AddCartItem`, `UpdateCartItem`,
`DeleteCartItem`, `UpdateStock`, `InsertOrder`), except `create_order`, which reads
the cart (`ServeCreateOrder`) and commits the order later (`InsertOrder`).

`Events` selects what may happen beside clicks and answers: a refused call
(`refuse`), a timeout after which the call may still be served or be lost
(`timeout`), a script that Streamlit abandons because the user touched a widget
(`rerun`), a product that is withdrawn (`withdraw`), and a line that is both edited and
marked for deletion (`edit_deleted`). `Abandon` is the run that ends early: at a
message about an answer (`ShowsMessage`), or among the keys it deletes from the session
state (`ClearsKeys`), when `cart_user_id` may be gone and the grid still there.

### UserService and UiSessions

`UserService` keeps `users` (id, last name and `person`, the number of the INSERT that
made the row, which no action reads), `userSeq` (AUTOINCREMENT) and the pods as
`ProductService` does. Each handler is one statement in one transaction, so one step.
A pod's script inserts the users in order and ends at the first duplicate last name.

`UiSessions` is one script run per session after the other:

* `StartRun` is Streamlit's part, external to this code: a run has the thread of the session's
  last run, with its context variables, or a new one, with empty ones;
* `ImportPages`, `CheckMemo`, `ConfigureHome`, `FillMemo` are the set-up of telemetry: the
  page modules configure their names under Python's import lock, the main script
  configures its own name at every run without a lock;
* `SelectOrg`, `SelectTenant` (which sends the call that lists the users), `ListUsers` with
  `SelectCustomer`: the order in which the sidebar sets the three variables. When the user
  service does not answer, the built-in list takes its place (`FallbackIds`);
* `CallService`, `Answered`, `Refused`, `Timeout` run one of the `Flows` of the page that is
  open. Each flow is the longest sequence of calls of one branch of a page; `EndRun` may end
  the run before any call, as Streamlit does when a widget is touched. A run of the cart page
  is *Save Changes* (stock, then row, for up to `GridLines` lines), *Create Order* (order, then
  up to `GridLines` deletions) or neither, each with or without loading the grid first. After a
  refused call, `AfterRefusal` says with which calls the run can still go on.

`chains` holds the calls that are served, each with the headers it was sent with and
the context of its handler. `ServerRequestHook` is the hook of a service that puts the
headers into the context of the request; `CallOnwards` is `create_order`, which asks the cart
service in that context. `ServeLate` ends a call whose session gave up. What the shop's
tables do is `OnlineStore`'s subject and left out here, but for the user service.

### SpanWriter

`spanInput` is the buffered channel, `writes` the state of each `WriteSpan` call,
`worker` the goroutines, `server` the state of the signal handler's goroutine.
`IngestWorker` is the whole body of the worker in the source: it creates a ticker
and a CSV writer and returns. So no action takes a span out of the channel and no
action receives the shutdown message: the handshake of `Close` on the unbuffered channel
`shutdown` has no second half, and the state after it is never reached. That there is no
receiver is read off the source: the writer starts no goroutine but `ingestWorker`, which
returns at once, and nothing else mentions the channel. `Crash` ends the process and its channel; a
span that was acknowledged and is in it becomes `lost`.

### TraceQuery and KustoReader

`ParseKustoConfig` appends one option for each flag and one for the application;
`append` grows capacities 1, 2, 4. With both flags the slice has length 3 and
capacity 4: a handler that appends one option writes into the shared array
(`Aliased`), and the model keeps that one element as `spare`. A handler that
appends two options always copies. `PanicOnSpanKind` is `GetOperations` with a span
kind: the iterator is nil and the process dies; `RestartReader` starts it again.

`TraceQuery` has the filters of a search one clause after the other (`Filter`), the
limit (`Sample`, any n of them), and the two searches, `FindTraceIDs` and `FindTraces`.
`Matches` is what `spanstore.TraceQueryParameters` mean, written without regard to the
code. A question is validated and capped first (`Valid`, `Capped`). `KustoReader` asks the
question against `stored`, the table, in the step that runs the query (`Query`); the collector
adds spans at any time (`Ingest`). `seen` is a history variable: what the table held when
the call came.

`SpanReads` has neither options nor queries, iterators or a process: a call asks, and is
answered in one step from one table that lies between what was stored before the call and
what is stored now, or fails. `ImplementsPromise` maps a call that is built or being read to
an open one and hides its result until it is answered; the query of the handler, which is
where it really looks, is a step the client does not see.

Times and durations are integers of one unit. The source compares `datetime_diff` in
microseconds with a timespan parameter; how Kusto converts between the two is not modelled.

### JaegerPlugin

The composition of the two paths. A stopping server accepts neither writes nor reads
(`Refuse`, `Arrive`), `StopGracefully` waits for both, a panic is `PanicOnSpanKind` and
`Crash` in one step, and `Restart` starts both again.

## 3. What the runs check

| Run | Instance | Result |
|---|---|---|
| `store_own_carts` | two sessions, a customer each, one product with two units that may be withdrawn, quantities 1 and 2 | `NoUnitsLost`, `RowIdentity`, `TypeOK` hold |
| `store_mixed_carts` | one session that serves two customers, another that serves one of them, a refused or timed-out call or an abandoned run | `CleanupOnlyOrdered`, `OutdatedBySharers`, `FlowsEnd`, `FlowsGetOn` hold |
| `store_order_not_cleared` | as `store_own_carts` | `ClearedMeansCleared` is violated |
| `store_other_cart_cleaned` | one session that selects two customers | `CleanupSparesOthers` is violated |
| `product_one_pod` | one pod, two clients, two products, one crash | `ImplementsLedger`, `ChangeMovesStockItsWay`, `UniqueProductId`, `RequestsEnd`, `TypeOK` hold |
| `product_rollout_lost` | two pods that overlap | `ChangeMovesStockItsWay` is violated |
| `product_half_populated` | one pod, a crash inside the script | `StartedMeansPopulated` is violated |
| `ui_sessions` | two script runs of one session or of two, a late call, a user service with a crash, three users | `ChainStaysAttributed`, `ActsAsOnePerson`, `TypeOK` hold |
| `jaeger_plugin` | two writes for a channel of one, two searches and a call that panics, three spans of two traces one of which is still to be stored, a signal | `CloseAfterWrites`, `CloseAfterCalls`, `WriteReturnsUnlessFull`, `StopsUnlessBlocked`, `StoppingGetsOn`, `OwnRequestId`, `SearchFindsMatching`, `SearchMissesNothing`, `SearchesAgree`, `ImplementsPromise`, `TypeOK` hold |
| `writer_shutdown` | two calls, a channel of two | `GracefulShutdown` is violated |
| `reader_two_flags` | four handlers, both flags | `OwnRequestId` is violated |
| `reader_longest` | one search with a maximal duration | `SearchFindsMatching` is violated |

### The violations

Seven runs show where the code does not do what its text says (`findings`):

1. *Rows are left in a "cleared" cart* (`ui/cart_ui.py:244`). The clean-up deletes the
   rows of the grid, not those of the order. A row added after the grid was loaded is
   ordered, stays in the cart, and is ordered again next time.
2. *The cart of another customer is cleaned up* (`ui/cart_ui.py:60`). Listing a full
   cart and then an empty one leaves the second customer with the grid of the first.
3. *A change of stock goes the wrong way* (`product/app.py:184`). Two pods overlap in a
   rollout; a write of one lands between the SELECT and the UPDATE of the other.
4. *A half-populated table stays so* (`product/app.py:70`).
5. *The plugin never stops* (`store/writer.go:69`). `Close` sends to a channel that has
   no receiver; `server stopped` is never logged.
6. *A query with the request id of another* (`store/reader.go:96`).
7. *At most means more than* (`store/reader.go:225`, `:307`). The filter for a maximal
   duration is `Duration > ParamDurationMax`.

### Limits of the properties

The store has no transactions, and `NoUnitsLost` holds only under the conditions
its comment names; TLC finds a counterexample as soon as one is dropped. It needs: no refusals,
timeouts or reruns, one customer for each session and no two sessions with the same, and no
`edit_deleted`. A refused cart call after an accepted stock call leaves units nowhere; two tabs
can each delete the same row and give its units back twice, or save a quantity over the
other's; a line that is edited and deleted gives back the quantity typed into the grid instead
of the one in the cart; a script abandoned at its message after a save keeps the old grid, and
the next save computes its difference from a quantity that is no longer in the cart. Refusals
that come from the service's own state (not enough stock, product withdrawn) are always in.

The other properties of the store have no such conditions. What they leave open:

* `CleanupOnlyOrdered` speaks of the rows of the customer the order was created for, with
  shared carts, faults and abandoned runs. That the clean-up also deletes rows of somebody
  else is finding 2 (`CleanupSparesOthers`).
* `OutdatedBySharers` says who can outdate what `create_order` has read, not that nobody can:
  two tabs of one customer do, and so does a call whose session gave up. The order is then
  committed with rows that are gone from the cart.
* `SearchFindsMatching` and `SearchMissesNothing` need questions without a maximal duration
  (finding 7); the latter leaves out spans that lie exactly on a bound (the filters are
  strict), searches that reach their limit, and for `FindTraceIDs` tags whose key has a dot:
  it looks for `http_method` where `FindTraces` looks for `http.method`
  (`store/reader.go:207`, `:290`).
* `ChainStaysAttributed` covers organisation and tenant of the first call of a run, not its
  customer (below).
* `ActsAsOnePerson` says nothing about ids of the built-in list, which may name somebody
  else when the table was populated partly or after removals. A user of the script who was
  removed comes back at the next start, under a new id.

Other divergences that the models contain and no run is dedicated to:

* The first call of a script run lists the users (`ui/online_store_ui.py:118`) before the
  customer is set (`:144`). It carries none or, in a thread that served a run before, the
  customer of that run, although the comment at `:97-100` says "Set once per rerun, before any
  other service call is made" and the page itself that "Every request carries" all
  three headers (`:159`).
* The memo that is there "to avoid duplicate instrumentation configuration" (`otel/otel.py:30`)
  is looked up at line 38 and filled at line 92 without a lock: two first runs at the same time
  each add a handler to the root logger, and records are exported twice. Later runs add none.
* `FindTraces` "finds and returns full traces with spans" (`store/reader.go:265`), but the
  query that fetches the spans has the window again (`:318`): spans outside it are left out of
  a trace that is returned.
* Units can *appear*: `add_cart_item` says in its docstring (`cart/app.py:101-103`) that it
  takes the units from the stock; it does not (`:130`), the UI does so in a second call, and the
  row stays when that call is refused.

### Bounds

Each cfg names its bounds. They are chosen so that each flow can run against
another flow at every one of its steps:

* two sessions are enough for each pair of flows; three rows and two orders let a
  session order, add again and order again, which reuse of identifiers or an
  order of the wrong rows needs; the second unit lets one session's quantity change
  from 1 to 2 and back, beyond what is in stock;
* `MaxFaults = 1` puts one refusal or timeout at every call, or one abandoned run at every
  point of a script where it matters; with `late` a timed-out call takes effect at every later
  point or never. `store_mixed_carts` has two rows and one order beside it; quantities do not
  matter to its properties, so there is one, and lines are deleted but not edited.
  The safety properties and `FlowsGetOn` are proved for any bounds;
* one crash suffices to leave the script at each of its lines, and to drop a request at each
  point; two script lines separate the first from the rest;
* `MaxStock` and `MaxRows` only bound what clients ask for. `Levels` has 0, which
  `add_product` refuses and `update_product` writes;
* two script runs are a rerun in one session or two sessions side by side, and one call
  may be served after its session gave up; two organisations with a tenant each tell a mixed
  pair from a proper one; grids of two lines (`GridLines`) have a line after the one that
  is refused; three users are the two of the script and one that is added
  after a removal. The invariants of this run are proved for any bounds;
* two writes against a channel of one fill it and block one; each may also arrive after the
  signal. Two searches run beside each other and beside the panic, with questions by
  operation, by tags, by duration, with a limit, with more traces than the cap, and an
  invalid one; the first span of one trace is stored before, between or after them. The
  safety properties of this run are proved for any calls, spans, questions and bounds.

`CHECK_DEADLOCK FALSE` is set for `JaegerPlugin`, `SpanWriter` and `KustoReader`, where
the process really stops making progress (a full channel, the blocked `Close`) and whose
calls are finitely many, and for `UiSessions`, whose runs are. The other instances run with
deadlock checking: idle sessions and running pods always have a next step.

### Fairness

* `ProductService`: weak fairness for the start-up of each pod (the deployment
  restarts a terminated container) and for `UpdateStockWrite`, which nothing of its
  own pod can disable; strong fairness for `UpdateProductWrite`, since the timer that
  wakes a sleeper puts it in the FIFO queue of the event loop while other handlers come and
  go. Crashes and requests are not fair.
* `OnlineStore`: weak fairness for the script of a session and for the service that it
  waits for, because every call of the UI has a timeout. Clicks, faults, abandoned runs and
  late calls are not fair.
* `SpanWriter` and `JaegerPlugin`: weak fairness for each goroutine that can run. Neither
  calls nor the signal nor the restart are fair, and a send on a full channel is not enabled.
  `JaegerPlugin` also has it for `Read`: Kusto answers a query or fails it, since the client
  ends a query at the server timeout; with `ReadNoTimeout` the service's own limit does.
* `UiSessions` and `KustoReader` state no fairness; nothing is claimed there about what must happen.

### Mutations

The operators whose comment starts with `Mutation` are not used by any specification.
Each is a handler with a plausible bug (a thread instead of the event loop, reused
ids, a clean-up that ignores the answer, `Stop` instead of `GracefulStop`), and the
property listed with it in `PROJECT.json` fails when it replaces the real one.

## 4. What is proved

| Theorem | States | Assumes |
|---|---|---|
| `OnlineStoreProofs!StoreTypeCorrect` | `Spec => []TypeOK`; no stock level is negative | |
| `OnlineStoreProofs!RowsKeepTheirIdentity` | `Spec => []RowIdentity` | |
| `OnlineStoreProofs!CleanupDeletesOnlyOrdered` | `Spec => []CleanupOnlyOrdered` | |
| `OnlineStoreProofs!FlowsAlwaysGetOn` | `Spec => FlowsGetOn` | |
| `OwnCartProofs!NoUnitDisappears` | `Spec => []NoUnitsLost` | `Undisturbed`: each session serves one customer, no two the same; no events but withdrawals; finitely many sessions |
| `OwnCartProofs!ReadsOutdatedBySharers` | `Spec => OutdatedBySharers` | |
| `ProductServiceProofs!ProductTypeCorrect` | `Spec => []TypeOK` | |
| `ProductServiceProofs!ProductIdsUnique` | `Spec => []UniqueProductId`, any number of pods | |
| `ProductServiceProofs!OnePodImplementsLedger` | `Spec => ImplementsLedger` | `OnePod`, `OwnNames`: names differ |
| `ProductServiceProofs!OnePodMovesStockItsWay` | `Spec => ChangeMovesStockItsWay` | `OnePod`, `OwnNames` |
| `UiSessionsProofs!UiTypeCorrect` | `Spec => []TypeOK` | |
| `UiSessionsProofs!ChainsStayAttributed` | `Spec => []ChainStaysAttributed` | |
| `UiSessionsProofs!IdsKeepTheirPerson` | `Spec => []ActsAsOnePerson`, any number of pods | |
| `JaegerPluginProofs!PluginTypeOK` | `Spec => []TypeOK` | |
| `JaegerPluginProofs!PluginClosesAfterWrites`, `PluginClosesAfterCalls` | `Spec => []CloseAfterWrites`, `Spec => []CloseAfterCalls` | |
| `JaegerPluginProofs!PluginMissesNothing` | `Spec => []SearchMissesNothing` | |
| `JaegerPluginProofs!PluginStoppingGetsOn` | `Spec => StoppingGetsOn` | |
| `JaegerPluginProofs!PluginReadsOnce` | `Spec => ImplementsPromise` | |
| `JaegerPluginProofs!PluginSearchesAgree` | `Spec => []SearchesAgree` | |
| `JaegerPluginProofs!PluginFindsMatching` | `Spec => []SearchFindsMatching` | `NoMaximum`: no question has a maximal duration |
| `JaegerPluginProofs!PluginSendsOwnId` | `Spec => []OwnRequestId` | not both flags |

They hold for any sets of sessions, customers, products, pods and calls and any bounds, and
for any choice of `Events` unless the last column restricts it. The only other assumptions
are the named `ASSUME`s on the constants, which say what the constants are.

The arguments:

* **RowIdentity** is not inductive: an order that is committed takes its rows from the
  call that `create_order` suspended, so the invariant `IdInv` speaks of all *carried* rows
  (grids, loops, orders, calls in progress, late calls). Each has an
  identifier that was issued and agrees with the cart row of that identifier. A step
  either issues nothing and takes rows over from the cart or from what is carried
  (`NoNewId`), or issues the next identifier, which nothing carries (`NewId`).
* **CleanupOnlyOrdered** follows the order flow with `CleanInv`: a session that waits
  for `create_order` to commit knows that the rows it read *cover* its grid, i.e. every
  grid row of this customer still in the cart is among them; after the answer, that every
  such row is ordered. Both survive the steps of others because no handler brings a row back or
  takes an order away (`NothingReturns`); that needs `IdInv`, since an id issued twice
  would bring a row back.
* **FlowsGetOn** is the part of `FlowsEnd` that owes nothing to fairness: `StepsLeft` falls
  with each step of a script and each answer, so a flow has at most five steps for each line
  it saves and three for each row it cleans up. It is a number because grids are finite
  (a cart grows by a row at a time) and falls with an answer because a call is pending only
  at a place that waits for it (`GetOnInv`). That those steps are taken is the fairness of
  `FairSpec`, and left to TLC.
* **OutdatedBySharers**: with `OwnInv`, whatever a session remembers or asks for belongs to
  customers it serves; a call by bare id is about a line of its own loop, and by `IdInv`
  about no row of anyone else (`HandleStaysWithOwn`), however old the grid. So a call that
  changes the cart of customer u is one of a session that serves u or one whose session gave
  up; the session that waits for `create_order` makes none (`ReadOutdated`).
  `NoUnitsLost` needs a corollary: under `OwnCustomers` and with nobody late, what was read
  *is* the cart when it is committed (`CurrentInv`).
* **NoUnitsLost** says nothing of the units that are counted twice in the middle of a flow
  (in the cart and still in stock, in an order and still in the cart), so it is not
  inductive. `Balanced` is: stock, carts and orders, plus what the flows still owe (`Due`,
  negative for what a flow has yet to take out), are never below the supply. Each answer
  changes the tables and the debt of its own flow by amounts that make up for each other
  (`KeepsUnits`, one lemma for each handler), and leaves the others alone (`OthersKeepFlow`).
  That the amounts fit is `GridIsCart`: the lines that are left are rows of the
  cart *as they are now*, so a difference computed from the grid is one of the cart. It rests on
  `OwnInv` and `CurrentInv` above and on identifiers that mean one row (`TableInv`, `IdInv`). In the order flow
  the order holds at least the units of the grid, since the grid is part of the customer's
  cart and the order is all of it (`OrderKeepsUnits`). `SumTheorems` shows that sums over
  finite sets, which the library folds in an order nobody knows, change with their summands;
  `SubsetInduction` replaces the induction theorem that the provers cannot instantiate.
* **UniqueProductId** needs that `rowSeq` bounds every rowid (`TableInv`): two INSERTs of
  different pods then get different rowids, and each checks the identifier in its
  own statement.
* **ImplementsLedger** needs `PendingInv`: while `update_stock` is between its
  two statements, the row it read is still there with the level it read. With one pod
  every other step that could change it requires `LoopFree`. The mapping reads the
  ledger off the table, and `LedgerStep` has one case for each action.
* **ChangeMovesStockItsWay** comes from the same invariant: the level that is written is
  that of the row as it is, and the change. The run `product_rollout_lost` shows that
  `OnePod` cannot be dropped.
* **ChainStaysAttributed, ActsAsOnePerson** are two parts of one invariant
  of `UiSessions`. Each call knows who sent it, so the context it was sent with and the
  context of its handler are traced back to the sidebar of that session (`ChainInv`); the
  context of a thread only ever has values of its own session (`OwnContext`). For the ids,
  `IdIsPerson` says that a row's `person` and id were issued together and that no id
  above `userSeq` is in use, which needs AUTOINCREMENT.
* **JaegerPlugin**: `StepOfBoth` shows that each step of the plugin is a step or a stutter of
  `SpanWriter` and of `KustoReader`, so their inductive invariants (`WriterInv`,
  `ReaderInv`) carry over; what relates the two, one process and no read after
  `StopGracefully`, is proved on the composition.
* **CloseAfterWrites**: a call that has returned is in the channel, and nobody is sending once
  `GracefulStopped` was taken, because no call is accepted then. A crash turns all of
  them into `dropped` and `lost`.
* **StoppingGetsOn** is the part of `StopsUnlessBlocked` that owes nothing to fairness. While the
  server stops, the sets of write calls, read calls and calls that still have to send their
  query can only shrink (`StoppingAddsNothing`); they are finite in every state, because a
  step starts one handler at most (`HandlersStayFinite`), so `StopStepsLeft` falls.
* **SearchMissesNothing**: what a call has `seen` is still stored when its query runs
  (`SeenIsStored`, since the table only grows); a span that matches passes the filter
  (`MatchesFilter`); a sample smaller than its limit is everything (`SampleSize`).
  Afterwards nothing touches the result.
* **ImplementsPromise** needs `LooksOnce`: what a call is reading is a result for a table
  between what it has `seen` and what is `stored`. The query establishes it with the table
  itself, and a table that only grows keeps it until the answer (`LookKept`). A panic is a
  `Fail` of all open calls at once.
* **SearchesAgree**: without a dotted key both queries filter the same spans, and each
  sampled trace has a span that passed the filter and so lies in the window
  (`SameTracesFound`).
* **SearchFindsMatching**: a span that passes the filter matches (`FilterMatches`), each
  sampled trace has such a span in its window (`TracesFound`), and a question is capped
  before it is asked (`QuestionsPosed`).
* **OwnRequestId**: without room in the array, `append` copies, so every call that was
  built owns its options.

Only model-checked: `FlowsEnd`, `RequestsEnd`, `WriteReturnsUnlessFull` and
`StopsUnlessBlocked`: liveness under fairness is out of the prover's reach.
`FlowsGetOn` and `StoppingGetsOn` are the parts of the first and of the last that are proved.

## 5. What is not modelled

* Span conversion (`store/kustoSpan.go`): rewriting of JSON text, without state. That a row may
  fail to convert, and with it its whole call, is a case of `EndOfRows`.
* Plugin configuration: read once at start by a library; what matters afterwards is
  a constant of the modules. Tracing of the plugin itself and its diagnostics server.
* In `TraceQuery`: a nil query, which `validateQuery` refuses (`store/queryUtils.go:66-68`), and
  a negative `NumTraces`, which goes into the query as it is and which Kusto has to judge;
  units of durations (above).
* In `KustoReader`: the contents of the lists of services, operations and dependencies,
  and Kusto's cache of their results.
* In `UiSessions`: the parsing of `DEMO_ORGS` (any map of organisations to tenants is
  allowed), the attributes of metrics, logs and spans, the providers of OpenTelemetry
  (its API lets them be set once), and what is displayed. `ui/db_init.py` is called by nothing.
* `python-app/`, `application/`: demo programs that emit telemetry and keep no state.
* Collector, Fluent Bit and Grafana configuration, Terraform, plots: declarative or
  generated. The replica count and the shared volume in `IaC/app/` are facts the product
  model rests on.
* In `OnlineStore`: the fetch of the user list before a cart is listed, the answer of GET
  `/cart` as a step of its own (nothing is decided between request and answer), warnings and
  texts; negative quantities, which the cells of the data editor accept. In `ProductService`: products of one name in the ledger theorem; `update_stock`
  itself is modelled by name.

## 6. Plan

Done: the shop (`StockLedger`, `ProductService`, `OnlineStore`, `UserService`), the
sessions of the UI with their attribution (`UiSessions`), and the plugin as a process
(`TraceQuery`, `SpanReads`, `SpanWriter`, `KustoReader`, `JaegerPlugin`), with the theorems above.
What could follow:

1. Proofs: the part of `RequestsEnd` that owes nothing to fairness, as `FlowsGetOn` is for
   `FlowsEnd`: what keeps the event loop of a pod is one handler, which can go on.
2. An abstract specification of the shop with one step for each flow, for sessions that
   nothing disturbs.
3. `PluginConfig`: defaults, file, environment and validation.
