----------------------------- MODULE MCCqlProxy -----------------------------
(* One forwarded connection with a few pieces in each direction.           *)
EXTENDS CqlProxy, TLC
=============================================================================
