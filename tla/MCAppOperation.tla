--------------------------- MODULE MCAppOperation ---------------------------
(***************************************************************************)
(* AppOperation on small instances.                                        *)
(***************************************************************************)
EXTENDS AppOperation

OneRetry == {0, 1}
AnyLimit == {-1, 0, 1}
=============================================================================
