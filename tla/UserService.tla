----------------------------- MODULE UserService ------------------------------
(***************************************************************************)
(* The user service of the online store (online_store/user/app.py).        *)
(*                                                                         *)
(* `users' is the table of that name, `userSeq' its AUTOINCREMENT counter; *)
(* both survive crashes.  `pod' and `pos' are as in ProductService: a pod  *)
(* runs init_db before it serves, and during a rolling restart two pods    *)
(* serve the same file.  The handlers are plain functions that run in      *)
(* threads, each with one statement in one transaction, so each is one step*)
(* and they interleave with each other and with the script of a starting   *)
(* pod.  A request that is refused (400, 404, 500) changes nothing and is  *)
(* no step of this module; get_users only reads.                           *)
(***************************************************************************)
EXTENDS Integers, Sequences

CONSTANTS
    Pods,        \* pods of the deployment that overlap in time
    LastNames,   \* last names, UNIQUE in the table
    Seeds,       \* the INSERTs of populate_users.sql
    MaxUsers,    \* bound: no client adds a user after that many rows
    MaxCrashes   \* bound on crashes of pods

VARIABLES users, userSeq, pod, pos, crashes

vars == <<users, userSeq, pod, pos, crashes>>
-----------------------------------------------------------------------------
\* `person' counts the INSERTs: it says who a row is about, no action reads it.
Row == [id : Nat \ {0}, person : Nat \ {0}, name : LastNames]

Named(n) == {r \in users : r.name = n}
Serving == \E p \in Pods : pod[p] = "up"

\* Mutation: a plain INTEGER PRIMARY KEY, which takes the largest id in use
\* plus one.
InsertReusingIds(n) ==
    /\ userSeq' = userSeq + 1
    /\ \E i \in 1 .. userSeq + 1 :
          /\ \A r \in users : r.id < i
          /\ i > 1 => \E r \in users : r.id = i - 1
          /\ users' = users \cup {[id |-> i, person |-> userSeq + 1, name |-> n]}

Insert(n) ==
    /\ users' = users \cup {[id |-> userSeq + 1, person |-> userSeq + 1, name |-> n]}
    /\ userSeq' = userSeq + 1

TypeOK ==
    /\ users \subseteq Row
    /\ userSeq \in Nat
    /\ pod \in [Pods -> {"down", "booting", "up"}]
    /\ pos \in [Pods -> 1 .. Len(Seeds) + 1]
    /\ crashes \in 0 .. MaxCrashes

Init ==
    /\ users = {} /\ userSeq = 0
    /\ pod = [p \in Pods |-> "down"]
    /\ pos = [p \in Pods |-> 1]
    /\ crashes = 0
-----------------------------------------------------------------------------
(***************************************************************************)
(* init_db: every INSERT of the script is a transaction of its own.  The   *)
(* first error ends the script and is only logged: a duplicate last name,  *)
(* or a write lock that another service holds on the shared file for longer*)
(* than the timeout of the connection.                                     *)
(***************************************************************************)
StartInitDb(p) ==
    /\ pod[p] = "down"
    /\ pod' = [pod EXCEPT ![p] = "booting"]
    /\ UNCHANGED <<users, userSeq, pos, crashes>>

PopulateRow(p) ==
    /\ pod[p] = "booting" /\ pos[p] <= Len(Seeds)
    /\ Named(Seeds[pos[p]]) = {}
    /\ Insert(Seeds[pos[p]])
    /\ pos' = [pos EXCEPT ![p] = @ + 1]
    /\ UNCHANGED <<pod, crashes>>

\* At the end of the script, or at the error that ends it.
FinishInitDb(p) ==
    /\ pod[p] = "booting"
    /\ pod' = [pod EXCEPT ![p] = "up"]
    /\ pos' = [pos EXCEPT ![p] = 1]
    /\ UNCHANGED <<users, userSeq, crashes>>

Crash(p) ==
    /\ pod[p] # "down" /\ crashes < MaxCrashes
    /\ pod' = [pod EXCEPT ![p] = "down"]
    /\ pos' = [pos EXCEPT ![p] = 1]
    /\ crashes' = crashes + 1
    /\ UNCHANGED <<users, userSeq>>
-----------------------------------------------------------------------------
AddUser(n) ==
    /\ Serving /\ userSeq < MaxUsers
    /\ Named(n) = {}
    /\ Insert(n)
    /\ UNCHANGED <<pod, pos, crashes>>

\* By first and last name; the last name is unique.
RemoveUser(n) ==
    /\ Serving /\ Named(n) # {}
    /\ users' = users \ Named(n)
    /\ UNCHANGED <<userSeq, pod, pos, crashes>>

\* By id; the new last name must not be that of another row.
UpdateUser(i, n) ==
    /\ Serving /\ \A r \in Named(n) : r.id = i
    /\ users' = {IF r.id = i THEN [r EXCEPT !.name = n] ELSE r : r \in users}
    /\ UNCHANGED <<userSeq, pod, pos, crashes>>
-----------------------------------------------------------------------------
PodStep(p) == StartInitDb(p) \/ PopulateRow(p) \/ FinishInitDb(p) \/ Crash(p)

Handler ==
    \/ \E n \in LastNames : AddUser(n) \/ RemoveUser(n)
    \/ \E r \in users, n \in LastNames : UpdateUser(r.id, n)

Next == Handler \/ \E p \in Pods : PodStep(p)

Spec == Init /\ [][Next]_vars
=============================================================================
