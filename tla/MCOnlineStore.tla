--------------------------- MODULE MCOnlineStore ----------------------------
(***************************************************************************)
(* Instances of OnlineStore for TLC.                                       *)
(***************************************************************************)
EXTENDS OnlineStore, TLC

CONSTANTS s1, s2, u1, u2, p1

\* Each session its own customer; one session that selects either customer.
OwnCustomer == (s1 :> {u1}) @@ (s2 :> {u2})
AnyCustomer == (s1 :> {u1, u2}) @@ (s2 :> {u2})

OneUnit == [p \in Products |-> 1]
TwoUnits == [p \in Products |-> 2]
=============================================================================
