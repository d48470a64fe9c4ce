----------------------------- MODULE MCCompose ------------------------------
(* What the user may do in the run of Compose; or, with no budget, what the *)
(* limiter before its routes sees.  The two share no state, so a behaviour  *)
(* shows one or the other: in Compose any call may be refused.              *)
EXTENDS Compose, SendLimit

May(send, edit, pick, cut) ==
    [sends |-> send, edits |-> edit, files |-> pick, cuts |-> cut]

NoBudget == May(0, 0, 0, FALSE)

SomeBudgets == {May(2, 0, 0, FALSE), May(1, 1, 0, TRUE), May(0, 3, 0, TRUE),
                May(0, 2, 1, FALSE), May(0, 1, 2, FALSE), May(0, 1, 1, TRUE),
                NoBudget}

(* Requests are numbered in the order in which they begin.                  *)
FourRequests == 1 .. 4
InTurn == \A r, q \in Requests : q < r /\ at'[r] # "idle" => at'[q] # "idle"

MCInit == Init /\ LimiterInit

MCNext ==
    \/ budget # NoBudget /\ Next /\ UNCHANGED limiter
    \/ budget = NoBudget /\ LimiterNext /\ InTurn /\ UNCHANGED vars

MCSpec == MCInit /\ [][MCNext]_<<vars, limiter>> /\ Fairness
=============================================================================
