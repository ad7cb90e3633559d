------------------------ MODULE MCLenderTransmission ------------------------
(* Small instances of LenderTransmission for TLC. *)
EXTENDS LenderTransmission, TLC

CONSTANTS r1, r2, a1, a2, l1, l2, k1

OneLender == a1 :> l1
TwoApps   == (a1 :> l1) @@ (a2 :> l2)
=============================================================================
