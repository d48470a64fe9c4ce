--------------------------- MODULE InboundPromise ---------------------------
(***************************************************************************)
(* What inbound delivery promises: a mail is accepted only when it is in   *)
(* safe custody; a copy of it appears only after that, only in the inbox   *)
(* of an addressee, and only while that inbox has none.  No other copy     *)
(* ever comes into being.                                                  *)
(***************************************************************************)

EXTENDS Naturals

CONSTANTS
    Mails,
    Accounts,
    Addressees   \* accounts that a mail is addressed to

VARIABLES
    custody,     \* mails the server has taken over
    accepted,    \* mails whose sender was told so
    inbox,       \* inbox[a][m]: copies of m in the inbox of a
    aside        \* aside[a][m]: copies of m in other mailboxes of a

vars == <<custody, accepted, inbox, aside>>

Init ==
    /\ custody = {}
    /\ accepted = {}
    /\ inbox = [a \in Accounts |-> [m \in Mails |-> 0]]
    /\ aside = [a \in Accounts |-> [m \in Mails |-> 0]]

TakeOver(m) ==
    /\ custody' = custody \cup {m}
    /\ UNCHANGED <<accepted, inbox, aside>>

Accept(m) ==
    /\ m \in custody
    /\ accepted' = accepted \cup {m}
    /\ UNCHANGED <<custody, inbox, aside>>

Deliver(m, a) ==
    /\ m \in custody
    /\ a \in Addressees[m]
    /\ inbox[a][m] = 0
    /\ inbox' = [inbox EXCEPT ![a][m] = 1]
    /\ UNCHANGED <<custody, accepted, aside>>

(* An owner may move the copies of a mail about and lose some, ...         *)
Refile(a, m) ==
    /\ \E in, off \in 0..(inbox[a][m] + aside[a][m]) :
          /\ in + off <= inbox[a][m] + aside[a][m]
          /\ inbox' = [inbox EXCEPT ![a][m] = in]
          /\ aside' = [aside EXCEPT ![a][m] = off]
    /\ UNCHANGED <<custody, accepted>>

(* ... or lose all mail at once, but makes no copy.                        *)
LoseAll(a) ==
    /\ inbox' = [inbox EXCEPT ![a] = [m \in Mails |-> 0]]
    /\ aside' = [aside EXCEPT ![a] = [m \in Mails |-> 0]]
    /\ UNCHANGED <<custody, accepted>>

Next ==
    \/ \E m \in Mails : TakeOver(m) \/ Accept(m)
    \/ \E m \in Mails, a \in Accounts : Deliver(m, a) \/ Refile(a, m)
    \/ \E a \in Accounts : LoseAll(a)

Spec == Init /\ [][Next]_vars
=============================================================================
