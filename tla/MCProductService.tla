-------------------------- MODULE MCProductService --------------------------
(***************************************************************************)
(* Instances of ProductService for TLC.                                    *)
(***************************************************************************)
EXTENDS ProductService, TLC

CONSTANTS i1, i2, n1, n2

\* Every identifier under its own name.
OwnNames == (i1 :> n1) @@ (i2 :> n2)

\* populate_products.sql with two INSERTs.
TwoRows == <<[id |-> i1, stock |-> 1], [id |-> i2, stock |-> 1]>>

PlusMinusOne == {-1, 1}
\* add_product rejects 0, update_product does not.
ZeroAndTwo == {0, 2}
\* No handler rejects a negative level.
OneAndNegative == {-1, 1}
=============================================================================
