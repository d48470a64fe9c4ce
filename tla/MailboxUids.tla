---------------------------- MODULE MailboxUids ----------------------------
(***************************************************************************)
(* What an IMAP client may rely on, per mailbox: each message gets a UID   *)
(* above all that were given before it, keeps it while it is there, and a  *)
(* UID never returns for another message.                                  *)
(***************************************************************************)
EXTENDS Naturals

CONSTANTS Mailboxes

VARIABLES
    present,  \* UIDs of the messages in each mailbox
    top       \* highest UID given so far

vars == <<present, top>>

Init ==
    /\ present = [b \in Mailboxes |-> {}]
    /\ top = [b \in Mailboxes |-> 0]

(* The next UID of b: any number above top[b], which becomes the new top.  *)
TakeUid(b) ==
    /\ top'[b] > top[b]
    /\ top' = [top EXCEPT ![b] = top'[b]]

Append(b) ==
    /\ TakeUid(b)
    /\ present' = [present EXCEPT ![b] = @ \cup {top'[b]}]

Remove(b) ==
    /\ present'[b] \subseteq present[b]
    /\ present' = [present EXCEPT ![b] = present'[b]]
    /\ UNCHANGED top

Move(a, b) ==
    /\ TakeUid(b)
    /\ \E u \in present[a] :
          present' = [present EXCEPT ![a] = @ \ {u}, ![b] = @ \cup {top'[b]}]

Next ==
    \E b \in Mailboxes :
        Append(b) \/ Remove(b) \/ \E a \in Mailboxes \ {b} : Move(a, b)

Spec == Init /\ [][Next]_vars
=============================================================================
