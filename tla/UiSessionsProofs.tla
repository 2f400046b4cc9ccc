-------------------------- MODULE UiSessionsProofs --------------------------
(***************************************************************************)
(* Proofs about UiSessions, for any number of sessions, script runs, late  *)
(* calls, users and crashes of the user service.                           *)
(***************************************************************************)
EXTENDS UiSessions, TLAPS

-----------------------------------------------------------------------------
(***************************************************************************)
(* The user service.                                                       *)
(***************************************************************************)
\* A row is about the person that its INSERT entered, and ids are not reused.
IdIsPerson == \A r \in users : r.person = r.id

LEMMA InsertKeeps ==
  ASSUME NEW n \in LastNames, users \subseteq Directory!Row, userSeq \in Nat,
         Directory!Insert(n)
  PROVE  /\ users' \subseteq Directory!Row /\ userSeq' \in Nat
         /\ IdIsPerson => IdIsPerson'
  BY DEF Directory!Insert, Directory!Row, IdIsPerson

\* The steps of the user service keep its types and the identity of its rows.
LEMMA DirectoryStep ==
  ASSUME Directory!TypeOK,
         \/ Directory!Handler
         \/ \E p \in Pods : Directory!PodStep(p)
         \/ UNCHANGED directory
  PROVE  Directory!TypeOK' /\ (IdIsPerson => IdIsPerson')
<1> USE DEF Directory!TypeOK
<1>1. CASE UNCHANGED directory
  BY <1>1 DEF directory, IdIsPerson
<1>2. ASSUME NEW n \in LastNames, Directory!AddUser(n)
      PROVE Directory!TypeOK' /\ (IdIsPerson => IdIsPerson')
  BY <1>2, InsertKeeps DEF Directory!AddUser
<1>3. ASSUME NEW n \in LastNames, Directory!RemoveUser(n)
      PROVE Directory!TypeOK' /\ (IdIsPerson => IdIsPerson')
  BY <1>3 DEF Directory!RemoveUser, IdIsPerson
<1>4. ASSUME NEW n \in LastNames, NEW r \in users, Directory!UpdateUser(r.id, n)
      PROVE Directory!TypeOK' /\ (IdIsPerson => IdIsPerson')
  BY <1>4 DEF Directory!UpdateUser, Directory!Row, IdIsPerson
<1>5. ASSUME NEW p \in Pods, Directory!PodStep(p)
      PROVE Directory!TypeOK' /\ (IdIsPerson => IdIsPerson')
  <2>1. CASE Directory!StartInitDb(p)
    BY <2>1 DEF Directory!StartInitDb, IdIsPerson
  <2>2. CASE Directory!PopulateRow(p)
    <3>1. pos[p] \in 1 .. Len(Seeds) /\ Seeds[pos[p]] \in LastNames
      BY <2>2, DirectoryAssumption DEF Directory!PopulateRow
    <3> QED
      BY <2>2, <3>1, InsertKeeps DEF Directory!PopulateRow
  <2>3. CASE Directory!FinishInitDb(p)
    BY <2>3, DirectoryAssumption DEF Directory!FinishInitDb, IdIsPerson
  <2>4. CASE Directory!Crash(p)
    BY <2>4, DirectoryAssumption DEF Directory!Crash, IdIsPerson
  <2> QED
    BY <1>5, <2>1, <2>2, <2>3, <2>4 DEF Directory!PodStep
<1> QED
  BY <1>1, <1>2, <1>3, <1>4, <1>5 DEF Directory!Handler
-----------------------------------------------------------------------------
(***************************************************************************)
(* Types.                                                                  *)
(***************************************************************************)
LEMMA Tuples ==
  ASSUME NEW S
  PROVE  /\ <<>> \in Seq(S) /\ \A a \in S : <<a>> \in Seq(S)
         /\ \A a, b \in S : <<a, b>> \in Seq(S)
         /\ \A a, b, c \in S : <<a, b, c>> \in Seq(S)
         /\ \A a, b, c, d \in S : <<a, b, c, d>> \in Seq(S)
  OBVIOUS

LEMMA FlowsAreSequences == Flows \subseteq Seq(Operations)
<1>1. UserPage \subseteq Seq(Operations) /\ OrderPage \subseteq Seq(Operations)
  BY Tuples DEF UserPage, OrderPage, Operations
<1>e. \A op \in Operations : EachLine(op) \in Seq(Operations)
  BY SidebarAssumption DEF EachLine
<1>2. ProductPage \subseteq Seq(Operations)
  <2>1. <<"list_products">> \o EachLine("delete_product") \in Seq(Operations)
    BY Tuples, <1>e DEF Operations
  <2> QED
    BY Tuples, <2>1 DEF ProductPage, Operations
<1>3. CartPage \subseteq Seq(Operations)
  <2>1. SaveChanges \subseteq Seq(Operations)
    <3>1. ASSUME NEW kinds \in [1 .. GridLines -> {"update_cart_item", "delete_cart_item"}]
          PROVE  [i \in 1 .. 2 * GridLines |-> IF i % 2 = 1 THEN "update_stock" ELSE kinds[i \div 2]]
                   \in Seq(Operations)
      <4>1. 2 * GridLines \in Nat
        BY SidebarAssumption
      <4>2. ASSUME NEW i \in 1 .. 2 * GridLines
            PROVE  (IF i % 2 = 1 THEN "update_stock" ELSE kinds[i \div 2]) \in Operations
        <5>1. i % 2 # 1 => i \div 2 \in 1 .. GridLines
          BY SidebarAssumption
        <5> QED
          BY <5>1 DEF Operations
      <4> QED
        BY <4>1, <4>2
    <3> QED
      BY <3>1 DEF SaveChanges
  <2>2. CreateOrder \in Seq(Operations)
    BY Tuples, <1>e DEF CreateOrder, Operations
  <2>3. <<>> \in Seq(Operations) /\ <<"list_users", "list_cart">> \in Seq(Operations)
    BY Tuples DEF Operations
  <2>4. ASSUME NEW load \in Seq(Operations), NEW click \in Seq(Operations)
        PROVE  load \o click \in Seq(Operations)
    OBVIOUS
  <2>5. ASSUME NEW load \in {<<>>, <<"list_users", "list_cart">>},
               NEW click \in SaveChanges \cup {CreateOrder}
        PROVE  load \o click \in Seq(Operations)
    <3>1. load \in Seq(Operations)
      BY <2>3, Zenon
    <3>2. click \in Seq(Operations)
      BY <2>1, <2>2
    <3> QED
      BY <2>4, <3>1, <3>2
  <2>6. ASSUME NEW f \in CartPage PROVE f \in Seq(Operations)
    <3>1. PICK load \in {<<>>, <<"list_users", "list_cart">>},
               click \in SaveChanges \cup {CreateOrder} : f = load \o click
      BY DEF CartPage
    <3> QED
      BY <2>5, <3>1
  <2> QED
    BY <2>6
<1> QED
  BY Tuples, <1>1, <1>2, <1>3 DEF Flows

\* What is left after a refusal is part of the calls that were.
LEMMA RefusalTypes ==
  ASSUME NEW op, NEW rest \in Seq(Operations)
  PROVE  AfterRefusal(op, rest) \in Seq(Operations)
  BY DEF AfterRefusal

\* The chain that a call starts, and what becomes of one that is given up.
LEMMA SendTypes ==
  ASSUME NEW s \in Sessions, NEW to \in Operations, NEW first \in BOOLEAN,
         ctx'[s] \in Attribution, side'[s] \in Attribution,
         chains \subseteq Chain, Send(s, to, first)
  PROVE  chains' \subseteq Chain
<1>1. [by |-> s, to |-> to, first |-> first, sent |-> ctx'[s], shown |-> side'[s],
       ctx |-> OnWire, live |-> TRUE] \in Chain
  BY DEF Chain
<1> QED
  BY <1>1 DEF Send

LEMMA GiveUpTypes ==
  ASSUME NEW c \in chains, chains \subseteq Chain, GiveUp(c)
  PROVE  chains' \subseteq Chain
  BY DEF GiveUp, Chain

LEMMA QuietTypes == Directory!TypeOK /\ UNCHANGED directory => Directory!TypeOK'
  BY DirectoryStep

\* A tenant is selected among those of an organisation.
OrgShown == \A s \in Sessions : pc[s] = "tenant" => side[s].org \in Orgs

\* Type correctness is preserved by every step.
LEMMA TypeStep == TypeOK /\ OrgShown /\ [Next]_vars => TypeOK'
<1> SUFFICES ASSUME TypeOK, OrgShown, [Next]_vars PROVE TypeOK'
  OBVIOUS
<1> USE DEF TypeOK
<1>1. ASSUME NEW s \in Sessions, StartRun(s) PROVE TypeOK'
  <2>1. ctx' \in [Sessions -> Attribution]
    <3>1. Nobody \in Attribution
      BY DEF Attribution, Nobody
    <3>2. CASE ctx' = ctx
      BY <3>2
    <3>3. CASE ctx' = [ctx EXCEPT ![s] = Nobody]
      BY <3>1, <3>3
    <3> QED
      BY <1>1, <3>2, <3>3 DEF StartRun
  <2>2. UNCHANGED <<directory, telemetry, side, flow, chains>> /\ runs' \in 0 .. MaxRuns
    BY <1>1, SidebarAssumption DEF StartRun
  <2> QED
    BY <1>1, <2>1, <2>2, QuietTypes DEF StartRun, Goto, telemetry
<1>2. ASSUME NEW s \in Sessions, ImportPages(s) PROVE TypeOK'
  BY <1>2, QuietTypes DEF ImportPages, Goto, Names
<1>3. ASSUME NEW s \in Sessions, CheckMemo(s) PROVE TypeOK'
  BY <1>3, QuietTypes DEF CheckMemo, Goto, telemetry
<1>4. ASSUME NEW s \in Sessions, ConfigureHome(s) PROVE TypeOK'
  BY <1>4, QuietTypes DEF ConfigureHome, Goto, Names
<1>5. ASSUME NEW s \in Sessions, FillMemo(s) PROVE TypeOK'
  BY <1>5, QuietTypes DEF FillMemo, Goto, Names
<1>6. ASSUME NEW s \in Sessions, SelectOrg(s) PROVE TypeOK'
  <2>1. ctx' \in [Sessions -> Attribution] /\ side' \in [Sessions -> Attribution]
    <3>1. PICK o \in Orgs : /\ ctx' = [ctx EXCEPT ![s].org = o]
                            /\ side' = [side EXCEPT ![s].org = o]
      BY <1>6 DEF SelectOrg
    <3>2. ctx' \in [Sessions -> Attribution]
      BY <3>1 DEF Attribution
    <3>3. side' \in [Sessions -> Attribution]
      BY <3>1 DEF Attribution
    <3> QED
      BY <3>2, <3>3
  <2> QED
    BY <1>6, <2>1, QuietTypes DEF SelectOrg, Goto, telemetry
<1>7. ASSUME NEW s \in Sessions, SelectTenant(s) PROVE TypeOK'
  <2>1. ctx' \in [Sessions -> Attribution] /\ side' \in [Sessions -> Attribution]
    <3>1. PICK t \in TenantsOf[side[s].org] :
             /\ ctx' = [ctx EXCEPT ![s].tenant = t]
             /\ side' = [side EXCEPT ![s].tenant = t]
      BY <1>7 DEF SelectTenant
    <3>2. t \in Tenants
      BY <1>7 DEF SelectTenant, OrgShown, Tenants
    <3>3. ctx' \in [Sessions -> Attribution]
      BY <3>1, <3>2 DEF Attribution
    <3>4. side' \in [Sessions -> Attribution]
      BY <3>1, <3>2 DEF Attribution
    <3> QED
      BY <3>3, <3>4
  <2>2. chains' \subseteq Chain
    <3>1. "list_users" \in Operations
      BY DEF Operations
    <3> QED
      BY <1>7, <2>1, <3>1, SendTypes DEF SelectTenant
  <2> QED
    BY <1>7, <2>1, <2>2, QuietTypes DEF SelectTenant, Goto, telemetry
<1>8. ASSUME NEW s \in Sessions, ListUsers(s) PROVE TypeOK'
  <2>1. PICK c \in chains :
           \/ /\ chains' = chains \ {c}
              /\ \E r \in users : SelectCustomer(s, r.id, r.person)
           \/ GiveUp(c) /\ \E i \in FallbackIds : SelectCustomer(s, i, 0)
    BY <1>8 DEF ListUsers
  <2>2. chains' \subseteq Chain
    BY <2>1, GiveUpTypes
  <2>3. PICK i \in Nat \ {0}, person \in Nat : SelectCustomer(s, i, person)
    BY <2>1, SidebarAssumption DEF Directory!TypeOK, Directory!Row
  <2>4. [by |-> s, id |-> i, person |-> person] \in Customer
    BY DEF Customer
  <2>5. ctx' \in [Sessions -> Attribution] /\ side' \in [Sessions -> Attribution]
    BY <2>3, <2>4 DEF SelectCustomer, Attribution
  <2>6. flow' \in [Sessions -> Seq(Operations)]
    BY <2>3, FlowsAreSequences DEF SelectCustomer
  <2> QED
    BY <2>2, <2>3, <2>5, <2>6, QuietTypes DEF SelectCustomer, Goto, telemetry
<1>9. ASSUME NEW s \in Sessions, EndRun(s) PROVE TypeOK'
  <2>1. side' \in [Sessions -> Attribution] /\ flow' \in [Sessions -> Seq(Operations)]
    BY <1>9 DEF EndRun, Attribution, Nobody
  <2> QED
    BY <1>9, <2>1, QuietTypes DEF EndRun, Goto, telemetry
<1>10. ASSUME NEW s \in Sessions, CallService(s) PROVE TypeOK'
  <2>1. Head(flow[s]) \in Operations /\ Tail(flow[s]) \in Seq(Operations)
    BY <1>10 DEF CallService
  <2>2. chains' \subseteq Chain
    BY <1>10, <2>1, SendTypes DEF CallService
  <2> QED
    BY <1>10, <2>1, <2>2, QuietTypes DEF CallService, Goto, telemetry
<1>11. ASSUME NEW s \in Sessions, Answered(s) PROVE TypeOK'
  <2>1. chains' \subseteq Chain
    BY <1>11 DEF Answered
  <2>2. Directory!TypeOK'
    BY <1>11, DirectoryStep DEF Answered, Effect
  <2> QED
    BY <1>11, <2>1, <2>2 DEF Answered, Goto, telemetry
<1>12. ASSUME NEW s \in Sessions, Refused(s) PROVE TypeOK'
  <2>1. chains' \subseteq Chain /\ flow' \in [Sessions -> Seq(Operations)]
    BY <1>12, RefusalTypes DEF Refused
  <2> QED
    BY <1>12, <2>1, QuietTypes DEF Refused, Goto, telemetry
<1>13. ASSUME NEW s \in Sessions, Timeout(s) PROVE TypeOK'
  <2>1. chains' \subseteq Chain
    BY <1>13, GiveUpTypes DEF Timeout
  <2> QED
    BY <1>13, <2>1, QuietTypes DEF Timeout, Goto, telemetry
<1>14. ASSUME NEW c \in chains, Service(c) PROVE TypeOK'
  <2>1. CASE ServerRequestHook(c)
    <3>1. [c EXCEPT !.ctx = c.sent] \in Chain
      BY DEF Chain
    <3> QED
      BY <2>1, <3>1, QuietTypes DEF ServerRequestHook, telemetry, script
  <2>2. CASE CallOnwards(c)
    <3>1. [c EXCEPT !.to = "onward", !.sent = c.ctx, !.ctx = OnWire] \in Chain
      BY <2>2 DEF CallOnwards, Chain, Operations
    <3> QED
      BY <2>2, <3>1, QuietTypes DEF CallOnwards, telemetry, script
  <2>3. CASE ServeLate(c)
    BY <2>3, QuietTypes DEF ServeLate, telemetry, script
  <2> QED
    BY <1>14, <2>1, <2>2, <2>3 DEF Service
<1>15. ASSUME NEW p \in Pods, UserPod(p) PROVE TypeOK'
  BY <1>15, DirectoryStep DEF UserPod, telemetry, script
<1>16. CASE UNCHANGED vars
  BY <1>16, QuietTypes DEF vars, telemetry, script
<1> QED
  BY <1>1, <1>2, <1>3, <1>4, <1>5, <1>6, <1>7, <1>8, <1>9, <1>10, <1>11, <1>12,
     <1>13, <1>14, <1>15, <1>16 DEF Next, Script
-----------------------------------------------------------------------------
(***************************************************************************)
(* Attribution.  In the order in which a run sets its context variables    *)
(* they come to agree with the sidebar; what is left of an earlier run was *)
(* put there by the same session.                                          *)
(***************************************************************************)
Synced ==
    \A s \in Sessions :
        /\ pc[s] \in {"tenant", "users", "page", "call"} => ctx[s].org = side[s].org
        /\ pc[s] \in {"users", "page", "call"} => ctx[s].tenant = side[s].tenant
        /\ pc[s] \in {"page", "call"} => ctx[s].customer = side[s].customer

\* A customer value was selected by session s and still names its person.
SelectedBy(s, c) ==
    c # NoValue => c.by = s /\ (c.person = 0 \/ c.person = c.id)

OwnContext == \A s \in Sessions : SelectedBy(s, ctx[s].customer)

ChainInv(c) ==
    /\ SelectedBy(c.by, c.sent.customer)
    /\ c.ctx # OnWire => c.ctx = c.sent
    /\ IF c.first THEN c.sent.org = c.shown.org /\ c.sent.tenant = c.shown.tenant
                  ELSE c.sent = c.shown

ChainsInv == \A c \in chains : ChainInv(c)

UiInv == TypeOK /\ OrgShown /\ Synced /\ OwnContext /\ ChainsInv /\ IdIsPerson

LEMMA UiInit == Init => UiInv
<1> SUFFICES ASSUME Init PROVE UiInv
  OBVIOUS
<1>1. TypeOK
  <2>1. Directory!TypeOK
    BY DirectoryAssumption DEF Init, Directory!Init, Directory!TypeOK
  <2>2. Nobody \in Attribution /\ <<>> \in Seq(Operations)
    BY DEF Attribution, Nobody
  <2> QED
    BY <2>1, <2>2, SidebarAssumption DEF Init, TypeOK
<1>2. OrgShown /\ Synced /\ OwnContext /\ ChainsInv /\ IdIsPerson
  BY DEF Init, Directory!Init, OrgShown, Synced, OwnContext, SelectedBy, Nobody,
         ChainsInv, IdIsPerson
<1> QED
  BY <1>1, <1>2 DEF UiInv

\* Records with equal fields are equal.
LEMMA SameFields ==
  ASSUME NEW a \in Attribution, NEW b \in Attribution,
         a.org = b.org, a.tenant = b.tenant, a.customer = b.customer
  PROVE  a = b
  BY DEF Attribution

\* The chain a call starts, for the call of the sidebar and for those of a page.
LEMMA SendInv ==
  ASSUME NEW s \in Sessions, NEW to, NEW first \in BOOLEAN,
         ChainsInv, Send(s, to, first), SelectedBy(s, ctx'[s].customer),
         IF first THEN /\ ctx'[s].org = side'[s].org
                       /\ ctx'[s].tenant = side'[s].tenant
                  ELSE ctx'[s] = side'[s]
  PROVE  ChainsInv'
  BY DEF Send, ChainsInv, ChainInv

\* Chains that only end, or that nobody waits for any more.
LEMMA GiveUpInv ==
  ASSUME NEW c \in chains, chains \subseteq Chain, ChainsInv, GiveUp(c)
  PROVE  ChainsInv'
<1>1. CASE chains' = chains \ {c}
  BY <1>1 DEF ChainsInv, ChainInv, SelectedBy
<1>2. CASE chains' = (chains \ {c}) \cup {[c EXCEPT !.live = FALSE]}
  BY <1>2 DEF ChainsInv, ChainInv, SelectedBy, Chain
<1> QED
  BY <1>1, <1>2 DEF GiveUp

LEMMA EndsInv ==
  ASSUME ChainsInv, chains' \subseteq chains PROVE ChainsInv'
  BY DEF ChainsInv, ChainInv, SelectedBy

\* No step breaks the invariant.
LEMMA UiStep == UiInv /\ [Next]_vars => UiInv'
<1> SUFFICES ASSUME UiInv, [Next]_vars PROVE UiInv'
  OBVIOUS
<1> USE DEF UiInv
<1>1. TypeOK'
  BY TypeStep
<1> DEFINE Rest == OrgShown' /\ Synced' /\ OwnContext'
<1>2. UNCHANGED directory => IdIsPerson'
  BY DEF directory, IdIsPerson
<1> USE DEF OrgShown, Synced, OwnContext
<1>3. ASSUME NEW s \in Sessions, StartRun(s) PROVE UiInv'
  <2>1. Rest
    <3>1. CASE ctx' = ctx
      BY <1>3, <3>1 DEF StartRun, Goto, TypeOK
    <3>2. CASE ctx' = [ctx EXCEPT ![s] = Nobody]
      BY <1>3, <3>2 DEF StartRun, Goto, TypeOK, Nobody, SelectedBy
    <3> QED
      BY <1>3, <3>1, <3>2 DEF StartRun
  <2> QED
    BY <1>1, <1>2, <1>3, <2>1, EndsInv DEF StartRun
<1>4. ASSUME NEW s \in Sessions,
             ImportPages(s) \/ CheckMemo(s) \/ ConfigureHome(s) \/ FillMemo(s)
      PROVE UiInv'
  <2>1. Rest
    BY <1>4 DEF ImportPages, CheckMemo, ConfigureHome, FillMemo, Goto, TypeOK
  <2> QED
    BY <1>1, <1>2, <1>4, <2>1, EndsInv
       DEF ImportPages, CheckMemo, ConfigureHome, FillMemo
<1>5. ASSUME NEW s \in Sessions, SelectOrg(s) PROVE UiInv'
  <2>1. Rest
    BY <1>5 DEF SelectOrg, Goto, TypeOK, Attribution
  <2> QED
    BY <1>1, <1>2, <1>5, <2>1, EndsInv DEF SelectOrg
<1>6. ASSUME NEW s \in Sessions, SelectTenant(s) PROVE UiInv'
  <2>1. Rest
    BY <1>6 DEF SelectTenant, Goto, TypeOK, Attribution
  <2>2. ctx'[s].org = side'[s].org /\ ctx'[s].tenant = side'[s].tenant
    BY <1>6, <2>1 DEF SelectTenant, Goto, TypeOK
  <2>3. ChainsInv'
    BY <1>6, <2>1, <2>2, SendInv DEF SelectTenant
  <2> QED
    BY <1>1, <1>2, <1>6, <2>1, <2>3 DEF SelectTenant
<1>7. ASSUME NEW s \in Sessions, ListUsers(s) PROVE UiInv'
  <2>1. PICK c \in chains :
           \/ /\ chains' = chains \ {c}
              /\ \E r \in users : SelectCustomer(s, r.id, r.person)
           \/ GiveUp(c) /\ \E i \in FallbackIds : SelectCustomer(s, i, 0)
    BY <1>7 DEF ListUsers
  <2>2. ChainsInv'
    BY <2>1, EndsInv, GiveUpInv DEF TypeOK
  <2>3. \E i, person : SelectCustomer(s, i, person) /\ (person = 0 \/ person = i)
    BY <2>1 DEF IdIsPerson
  <2>4. PICK i, person : SelectCustomer(s, i, person) /\ (person = 0 \/ person = i)
    BY <2>3
  <2>5. Rest
    BY <1>7, <2>4 DEF ListUsers, SelectCustomer, Goto, TypeOK, Attribution, SelectedBy
  <2> QED
    BY <1>1, <1>2, <2>2, <2>4, <2>5 DEF SelectCustomer
<1>8. ASSUME NEW s \in Sessions, EndRun(s) PROVE UiInv'
  <2>1. Rest
    BY <1>8 DEF EndRun, Goto, TypeOK
  <2> QED
    BY <1>1, <1>2, <1>8, <2>1, EndsInv DEF EndRun
<1>9. ASSUME NEW s \in Sessions, CallService(s) PROVE UiInv'
  <2>1. Rest
    BY <1>9 DEF CallService, Goto, TypeOK
  <2>2. ctx'[s] = side'[s]
    BY <1>9, SameFields DEF CallService, TypeOK
  <2>3. ChainsInv'
    BY <1>9, <2>1, <2>2, SendInv DEF CallService
  <2> QED
    BY <1>1, <1>2, <1>9, <2>1, <2>3 DEF CallService
<1>10. ASSUME NEW s \in Sessions, Answered(s) PROVE UiInv'
  <2>1. Rest
    BY <1>10 DEF Answered, Goto, TypeOK
  <2>2. ChainsInv'
    BY <1>10, EndsInv DEF Answered
  <2>3. IdIsPerson'
    BY <1>10, DirectoryStep DEF Answered, Effect, TypeOK
  <2> QED
    BY <1>1, <2>1, <2>2, <2>3
<1>11. ASSUME NEW s \in Sessions, Refused(s) \/ Timeout(s) PROVE UiInv'
  <2>1. Rest
    BY <1>11 DEF Refused, Timeout, Goto, TypeOK
  <2>2. ChainsInv'
    BY <1>11, EndsInv, GiveUpInv DEF Refused, Timeout, TypeOK
  <2> QED
    BY <1>1, <1>2, <1>11, <2>1, <2>2 DEF Refused, Timeout
<1>12. ASSUME NEW c \in chains, Service(c) PROVE UiInv'
  <2>1. Rest
    BY <1>12 DEF Service, ServerRequestHook, CallOnwards, ServeLate, script
  <2>2. ChainsInv'
    <3>1. CASE ServerRequestHook(c)
      <4>1. ChainInv([c EXCEPT !.ctx = c.sent])
        BY DEF ChainsInv, ChainInv, TypeOK, Chain
      <4> QED
        BY <3>1, <4>1 DEF ServerRequestHook, ChainsInv, ChainInv, SelectedBy
    <3>2. CASE CallOnwards(c)
      <4>1. ChainInv([c EXCEPT !.to = "onward", !.sent = c.ctx, !.ctx = OnWire])
        BY <3>2 DEF CallOnwards, ChainsInv, ChainInv, TypeOK, Chain
      <4> QED
        BY <3>2, <4>1 DEF CallOnwards, ChainsInv, ChainInv, SelectedBy
    <3>3. CASE ServeLate(c)
      BY <3>3, EndsInv DEF ServeLate
    <3> QED
      BY <1>12, <3>1, <3>2, <3>3 DEF Service
  <2> QED
    BY <1>1, <1>2, <1>12, <2>1, <2>2 DEF Service, ServerRequestHook, CallOnwards, ServeLate
<1>13. ASSUME NEW p \in Pods, UserPod(p) PROVE UiInv'
  <2>1. Rest
    BY <1>13 DEF UserPod, script
  <2>2. IdIsPerson'
    BY <1>13, DirectoryStep DEF UserPod, TypeOK
  <2> QED
    BY <1>1, <1>13, <2>1, <2>2, EndsInv DEF UserPod
<1>14. CASE UNCHANGED vars
  BY <1>1, <1>2, <1>14, EndsInv DEF vars, script
<1> QED
  BY <1>3, <1>4, <1>5, <1>6, <1>7, <1>8, <1>9, <1>10, <1>11, <1>12, <1>13, <1>14
     DEF Next, Script

LEMMA UiInvariant == Spec => []UiInv
  BY UiInit, UiStep, PTL DEF Spec

\* Type correctness, for any instance.
THEOREM UiTypeCorrect == Spec => []TypeOK
  BY UiInvariant, PTL DEF UiInv

\* A whole chain of calls stays attributed to what the session showed when it
\* made the first (of the customer: but for the call that lists the users), for any number of sessions, reruns and late calls.
THEOREM ChainsStayAttributed == Spec => []ChainStaysAttributed
<1>1. UiInv => ChainStaysAttributed
  BY DEF UiInv, ChainsInv, ChainInv, ChainStaysAttributed
<1> QED
  BY <1>1, UiInvariant, PTL

\* An id that is acted as means one person for ever, whatever is removed, added
\* and populated again, by any number of pods.
THEOREM IdsKeepTheirPerson == Spec => []ActsAsOnePerson
<1>1. UiInv => ActsAsOnePerson
  BY DEF UiInv, OwnContext, ChainsInv, ChainInv, SelectedBy, IdIsPerson, ActedAs,
         ActsAsOnePerson
<1> QED
  BY <1>1, UiInvariant, PTL
=============================================================================
