----------------------------- MODULE MCOutbound -----------------------------
(* Model values and symmetry for the runs of OutboundDelivery.             *)
EXTENDS OutboundDelivery, TLC

JobSymmetry == Permutations(Jobs)
=============================================================================
