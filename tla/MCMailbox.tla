----------------------------- MODULE MCMailbox -----------------------------
(***************************************************************************)
(* Two ways to run the store: alone, every operation of every writer with  *)
(* one call at a time and nothing failing; together, the operations with   *)
(* only relative updates of uid_next, on the inbox, in two calls that      *)
(* overlap and may fail.  Rows, calls and Message-IDs are interchangeable. *)
(***************************************************************************)
EXTENDS MailboxStore, TLC

CONSTANTS
    SharedOps,  \* operations that overlap
    MaxTaken    \* bound: UIDs taken by calls that run alone

VARIABLE together

MCInit == Init /\ together \in BOOLEAN

(* Calls that run alone take MaxTaken UIDs in all, from any mailboxes, and *)
(* leave a row unused.                                                     *)
Taken == {p \in Mailboxes \X (1..MaxUid + 1) : p[2] < uidNext[p[1]]}

SmallStart(c) ==
    (call[c] = Idle /\ call'[c].to # "none") => Cardinality(Taken) < MaxTaken

RunAlone(c) ==
    /\ \A d \in Calls \ {c} : call[d] = Idle
    /\ Deliver(c) \/ Request(c) \/ ImapCommand(c) \/ UidConflict(c)
    /\ SmallStart(c)
    /\ Rows("new")' # {}

InShare ==
    \A c \in Calls : /\ call[c].op \in SharedOps \cup {"none"}
                     /\ call[c].from \in {"inbox", "none"}
                     /\ call[c].to \in {"inbox", "none"}

MCNext ==
    /\ UNCHANGED together
    /\ \/ ~together /\ \E c \in Calls : RunAlone(c)
       \/ together /\ Next /\ InShare'

MCSpec == MCInit /\ [][MCNext]_<<vars, together>>

(* Calls that run one at a time keep message_count exact, whichever of the *)
(* API, the workers and IMAP makes them; calls that overlap do not (an     *)
(* expunge writes the count of an older listing).                          *)
CountExactAlone == ~together => CountExact

(* RFC 3501, 2.3.1.1: UIDs are assigned in strictly ascending order and    *)
(* never refer to another message.  Overlapping deliveries do reuse one:   *)
(* read by both, given by the first, expunged, given again by the second.  *)
SeenUids == [b \in Mailboxes |->
                IF together THEN {} ELSE {row[i].uid : i \in Rows(b)}]
SeenTop == [b \in Mailboxes |-> IF together THEN 0 ELSE lastUid[b]]

Uids == INSTANCE MailboxUids WITH present <- SeenUids, top <- SeenTop

(* Seen through its rows, the store gives out UIDs as IMAP requires while  *)
(* calls come one at a time.                                               *)
KeepsUidOrder == Uids!Spec

Symmetry == Permutations(Ids) \cup Permutations(Calls) \cup Permutations(Mails)
=============================================================================
