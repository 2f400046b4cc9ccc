---------------------------- MODULE MCUiSessions ----------------------------
(***************************************************************************)
(* Instance of UiSessions for TLC.                                         *)
(***************************************************************************)
EXTENDS UiSessions, TLC

\* One tenant in each organisation tells a mixed pair from a proper one.
TwoOrgs == ("northwind" :> {"acme-corp"}) @@ ("contoso" :> {"initech"})
TwoSeeds == <<"Stark", "Rogers">>

\* Nothing tells one session from another.
Browsers == Permutations(Sessions)
=============================================================================
