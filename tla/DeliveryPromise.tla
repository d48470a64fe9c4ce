--------------------------- MODULE DeliveryPromise ---------------------------
(***************************************************************************)
(* What outbound delivery promises, without queue, worker or retries: each *)
(* message reaches its recipient domains one after the other, possibly not *)
(* all of them and possibly more than once; "delivered" is reported only   *)
(* after the last; and the sender is notified of a failure only when the   *)
(* message was abandoned, at most once for each time it was.               *)
(***************************************************************************)
EXTENDS Naturals

CONSTANTS
    Messages,
    NumDomains   \* recipient domains of a message, served in this order

Domains == 1..NumDomains

VARIABLES
    received,    \* domains that have accepted the message
    reported,    \* messages whose sender's copy says "delivered"
    abandoned,   \* times the message was given up
    notices      \* failure notices given to the sender

vars == <<received, reported, abandoned, notices>>

Init ==
    /\ received = [m \in Messages |-> {}]
    /\ reported = {}
    /\ abandoned = [m \in Messages |-> 0]
    /\ notices = [m \in Messages |-> 0]

Receive(m, d) ==
    /\ 1..(d - 1) \subseteq received[m]
    /\ received' = [received EXCEPT ![m] = @ \cup {d}]
    /\ UNCHANGED <<reported, abandoned, notices>>

Report(m) ==
    /\ received[m] = Domains
    /\ reported' = reported \cup {m}
    /\ UNCHANGED <<received, abandoned, notices>>

(* The sender deletes the copy, or overwrites its flags.                   *)
Withdraw(m) ==
    /\ reported' = reported \ {m}
    /\ UNCHANGED <<received, abandoned, notices>>

Abandon(m) ==
    /\ abandoned' = [abandoned EXCEPT ![m] = @ + 1]
    /\ UNCHANGED <<received, reported, notices>>

Notify(m) ==
    /\ notices[m] < abandoned[m]
    /\ notices' = [notices EXCEPT ![m] = @ + 1]
    /\ UNCHANGED <<received, reported, abandoned>>

Next ==
    \E m \in Messages :
        \/ \E d \in Domains : Receive(m, d)
        \/ Report(m) \/ Withdraw(m) \/ Abandon(m) \/ Notify(m)

Spec == Init /\ [][Next]_vars
=============================================================================
