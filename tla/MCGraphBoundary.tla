--------------------------- MODULE MCGraphBoundary ---------------------------
(* Two channels: an operator and an application service account.           *)
EXTENDS GraphBoundary, TLC

CONSTANTS c1, c2

TwoOwners == c1 :> "admin" @@ c2 :> "application"
=============================================================================
