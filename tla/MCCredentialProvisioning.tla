---------------------- MODULE MCCredentialProvisioning ----------------------
(* Two operators on one workstation and a third on another.                *)
EXTENDS CredentialProvisioning, TLC

CONSTANTS r1, r2, r3, w1, w2

TwoAndOne == (r1 :> w1) @@ (r2 :> w1) @@ (r3 :> w2)
=============================================================================
