----------------------------- MODULE MCInbound ------------------------------
(***************************************************************************)
(* The header of the mail, and two ways to run it: its client sends it     *)
(* twice, to accounts that stay as they are; or once, while owners open    *)
(* and delete accounts and move the mail.                                  *)
(***************************************************************************)
EXTENDS InboundDelivery, TLC

CONSTANTS a1, a2, m1

VARIABLE owners    \* the owners act

(* To: a1, a2, and a1 again                                                *)
RepeatedTo == (m1 :> <<a1, a2, a1>>)

MCInit == Init /\ owners \in BOOLEAN

MCNext ==
    /\ UNCHANGED owners
    /\ Next
    /\ owners => \A i, j \in Jobs : state'[i] # "none" /\ state'[j] # "none" => i = j
    /\ ~owners => edits' = 0 /\ (open' = open \/ \A j \in Jobs : state[j] = "none")

MCSpec == MCInit /\ [][MCNext]_<<vars, owners>> /\ Fairness
=============================================================================
