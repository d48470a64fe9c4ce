---------------------------- MODULE MailboxStore ----------------------------
(***************************************************************************)
(* The message store of one user: the rows of the messages table and the   *)
(* counters uidNext, messageCount and unreadCount of the mailboxes table.  *)
(*                                                                         *)
(* Five writers share it, each on its own connection and most of them      *)
(* without a transaction: the inbound worker, the bounces of the outbound  *)
(* worker, the compose and message routes of the API, and the IMAP         *)
(* commands.  A call in flight is a record of what it has read so far;     *)
(* every statement it sends is a step, and a transaction takes effect when *)
(* it commits (READ COMMITTED, an INSERT waits for a concurrent one of the *)
(* same key).                                                              *)
(*                                                                         *)
(* Calls with only relative updates (uid_next + 1) and calls that write    *)
(* back values they computed from an earlier read are both in the code.    *)
(* Ops chooses which of them run together.                                 *)
(***************************************************************************)
EXTENDS Integers, FiniteSets

CONSTANTS
    Calls,      \* requests and jobs that can be in flight at the same time
    Ids,        \* messages.id, a UUID: never used twice
    Mails,      \* Message-ID headers of inbound mail
    Mailboxes,  \* mailboxes of the user, named by their type
    Ops,        \* operations that run
    MayFail,    \* can a statement or the process fail between two steps?
    MaxUid,     \* bound: no call that takes a UID starts with uidNext above
    MaxUnread,  \* bound: no flag change starts with unreadCount above
    NoId, NoMail

Deliveries == {"inbound", "bounce", "send", "draft"}
AbsoluteUids == {"move", "copy", "append"}  \* operations that write uidNext back
AllOps == Deliveries \cup AbsoluteUids
            \cup {"hardDelete", "flag", "store", "expunge", "close"}

ASSUME StoreAssumption ==
    /\ NoId \notin Ids
    /\ NoMail \notin Mails
    /\ IsFiniteSet(Ids)
    /\ Mailboxes \subseteq {"inbox", "sent", "drafts", "trash", "archive"}
    /\ Ops \subseteq AllOps
    /\ MayFail \in BOOLEAN
    /\ MaxUid \in Nat
    /\ MaxUnread \in Nat

VARIABLES
    row,           \* messages: row[i].box is "new" before INSERT, "gone" after DELETE
    uidNext,       \* mailboxes.uid_next
    messageCount,  \* mailboxes.message_count
    unreadCount,   \* mailboxes.unread_count
    call,          \* what each call in flight has read, and its next statement
    lastUid        \* highest UID ever given to a message of the mailbox (history)

counters == <<uidNext, messageCount, unreadCount>>
vars == <<row, counters, call, lastUid>>

Flags == {"seen", "deleted"}
Boxes == Mailboxes \cup {"new", "gone"}

Row == [box : Boxes, uid : Nat, mail : Mails \cup {NoMail}, flags : SUBSET Flags]

Steps == {"idle", "check", "insert", "delete", "uncount", "target", "place",
          "count", "writeFlags", "locate", "unread", "storeFlags", "copyRead",
          "insertBack", "expunge", "closeList", "setCounts"}

Call == [op     : Ops \cup {"none"},
         at     : Steps,
         id     : Ids \cup {NoId},
         mail   : Mails \cup {NoMail},
         from   : Mailboxes \cup {"none"},
         to     : Mailboxes \cup {"none"},
         uid    : Nat,
         count  : Nat,
         unread : Int,
         flags  : SUBSET Flags,
         ids    : SUBSET Ids]

(* Rows, counters and calls only ever hold values of these sets: no counter *)
(* is driven below zero.                                                   *)
TypeOK ==
    /\ row \in [Ids -> Row]
    /\ uidNext \in [Mailboxes -> Nat]
    /\ messageCount \in [Mailboxes -> Nat]
    /\ unreadCount \in [Mailboxes -> Nat]
    /\ call \in [Calls -> Call]
    /\ lastUid \in [Mailboxes -> Nat]

Idle == [op |-> "none", at |-> "idle", id |-> NoId, mail |-> NoMail,
         from |-> "none", to |-> "none", uid |-> 0, count |-> 0, unread |-> 0,
         flags |-> {}, ids |-> {}]

Absent(box) == [box |-> box, uid |-> 0, mail |-> NoMail, flags |-> {}]

Init ==
    /\ row = [i \in Ids |-> Absent("new")]
    /\ uidNext = [b \in Mailboxes |-> 1]
    /\ messageCount = [b \in Mailboxes |-> 0]
    /\ unreadCount = [b \in Mailboxes |-> 0]
    /\ call = [c \in Calls |-> Idle]
    /\ lastUid = [b \in Mailboxes |-> 0]

-----------------------------------------------------------------------------
Rows(b) == {i \in Ids : row[i].box = b}
Unseen(is) == {i \in is : "seen" \notin row[i].flags}
UidTaken(b, u) == \E i \in Rows(b) : row[i].uid = u
AtLeast0(n) == IF n < 0 THEN 0 ELSE n          \* GREATEST(n, 0)
Higher(m, n) == IF m < n THEN n ELSE m

Start(c, r) ==
    /\ call[c] = Idle
    /\ r.op \in Ops
    /\ call' = [call EXCEPT ![c] = r]

Step(c, at) == call' = [call EXCEPT ![c].at = at]
Finish(c) == call' = [call EXCEPT ![c] = Idle]

(* INSERT INTO messages; the unique index on (mailbox_id, uid) holds.      *)
Insert(b, u, mail, flags) ==
    /\ ~UidTaken(b, u)
    /\ \E i \in Rows("new") :
          row' = [row EXCEPT ![i] = [box |-> b, uid |-> u, mail |-> mail,
                                     flags |-> flags]]
    /\ lastUid' = [lastUid EXCEPT ![b] = Higher(@, u)]

(* DELETE FROM messages by id.                                             *)
DeleteIds(is) ==
    row' = [i \in Ids |-> IF i \in is /\ row[i].box \in Mailboxes
                          THEN Absent("gone") ELSE row[i]]

-----------------------------------------------------------------------------
(***************************************************************************)
(* New messages: inbound delivery, bounce, Sent copy and draft.  All read  *)
(* uidNext first and commit the row with relative counter updates.         *)
(***************************************************************************)

Target(op) ==
    CASE op = "send"  -> "sent"
      [] op = "draft" -> "drafts"
      [] OTHER        -> "inbox"

(* Mutation: the Message-ID is not looked up.                              *)
ReadUidNextOnly(c, op, m) ==
    /\ Target(op) \in Mailboxes
    /\ uidNext[Target(op)] <= MaxUid
    /\ (m = NoMail) <=> (op # "inbound")
    /\ op = "inbound" => \A d \in Calls : call[d].op # "inbound"
    /\ Start(c, [Idle EXCEPT !.op = op, !.mail = m, !.to = Target(op),
                             !.at = "insert", !.uid = uidNext[Target(op)]])
    /\ UNCHANGED <<row, counters, lastUid>>

(* Only inbound mail is looked up by its Message-ID; the inbound worker    *)
(* runs one job at a time.                                                 *)
ReadUidNext(c, op, m) ==
    /\ Target(op) \in Mailboxes
    /\ uidNext[Target(op)] <= MaxUid
    /\ (m = NoMail) <=> (op # "inbound")
    /\ op = "inbound" => \A d \in Calls : call[d].op # "inbound"
    /\ Start(c, [Idle EXCEPT !.op = op, !.mail = m, !.to = Target(op),
                             !.at = IF op = "inbound" THEN "check" ELSE "insert",
                             !.uid = uidNext[Target(op)]])
    /\ UNCHANGED <<row, counters, lastUid>>

CheckDuplicate(c) ==
    /\ call[c].at = "check"
    /\ IF \E i \in Rows(call[c].to) : row[i].mail = call[c].mail
       THEN Finish(c)
       ELSE Step(c, "insert")
    /\ UNCHANGED <<row, counters, lastUid>>

CommitDelivery(c) ==
    LET r == call[c]
        unseen == r.op \in {"inbound", "bounce"} IN
    /\ r.at = "insert"
    /\ Insert(r.to, r.uid, r.mail, IF r.op = "send" THEN {"seen"} ELSE {})
    /\ uidNext' = [uidNext EXCEPT ![r.to] = @ + 1]
    /\ messageCount' = [messageCount EXCEPT ![r.to] = @ + 1]
    /\ unreadCount' = [unreadCount EXCEPT ![r.to] = @ + (IF unseen THEN 1 ELSE 0)]
    /\ Finish(c)

-----------------------------------------------------------------------------
(***************************************************************************)
(* DELETE /messages/:id in the trash, and DELETE /compose/draft/:id: the   *)
(* row, then the count.                                                    *)
(***************************************************************************)

ReadDeletable(c, i) ==
    /\ row[i].box \in Mailboxes \cap {"trash", "drafts"}
    /\ Start(c, [Idle EXCEPT !.op = "hardDelete", !.at = "delete", !.id = i,
                             !.from = row[i].box])
    /\ UNCHANGED <<row, counters, lastUid>>

(* Mutation: a draft is deleted without counting it out.                   *)
DeleteRowOnly(c) ==
    /\ call[c].at = "delete"
    /\ DeleteIds({call[c].id})
    /\ Finish(c)
    /\ UNCHANGED <<counters, lastUid>>

DeleteRow(c) ==
    /\ call[c].at = "delete"
    /\ DeleteIds({call[c].id})
    /\ Step(c, "uncount")
    /\ UNCHANGED <<counters, lastUid>>

(***************************************************************************)
(* DELETE /messages/:id elsewhere (to the trash) and                       *)
(* POST /messages/:id/move: five statements, no transaction.               *)
(***************************************************************************)

ReadMovable(c, i, b) ==
    /\ row[i].box \in Mailboxes \ {b}
    /\ uidNext[b] <= MaxUid
    /\ Start(c, [Idle EXCEPT !.op = "move", !.at = "target", !.id = i,
                             !.from = row[i].box, !.to = b])
    /\ UNCHANGED <<row, counters, lastUid>>

ReadTarget(c) ==
    /\ call[c].at = "target"
    /\ call' = [call EXCEPT ![c].at = "place", ![c].uid = uidNext[call[c].to]]
    /\ UNCHANGED <<row, counters, lastUid>>

(* An UPDATE that finds no row is no error.                                *)
PlaceRow(c) ==
    LET r == call[c] IN
    /\ r.at = "place"
    /\ IF row[r.id].box = "gone"
       THEN UNCHANGED <<row, lastUid>>
       ELSE /\ \A i \in Rows(r.to) \ {r.id} : row[i].uid # r.uid
            /\ row' = [row EXCEPT ![r.id].box = r.to, ![r.id].uid = r.uid]
            /\ lastUid' = [lastUid EXCEPT ![r.to] = Higher(@, r.uid)]
    /\ Step(c, "uncount")
    /\ UNCHANGED counters

(* The source mailbox loses one; a delete is done with that.               *)
UncountRow(c) ==
    LET r == call[c] IN
    /\ r.at = "uncount"
    /\ messageCount' = [messageCount EXCEPT ![r.from] = AtLeast0(@ - 1)]
    /\ IF r.op = "move" THEN Step(c, "count") ELSE Finish(c)
    /\ UNCHANGED <<row, uidNext, unreadCount, lastUid>>

CountRow(c) ==
    LET r == call[c] IN
    /\ r.at = "count"
    /\ messageCount' = [messageCount EXCEPT ![r.to] = @ + 1]
    /\ uidNext' = [uidNext EXCEPT ![r.to] = r.uid + 1]
    /\ Finish(c)
    /\ UNCHANGED <<row, unreadCount, lastUid>>

-----------------------------------------------------------------------------
(***************************************************************************)
(* Flags.  PATCH /messages/:id/flags merges into the flags it read and     *)
(* then adjusts unreadCount by the change it believes it made; IMAP STORE  *)
(* writes flags computed from its listing and adjusts nothing.             *)
(***************************************************************************)

ReadFlags(c, i, fs) ==
    /\ row[i].box \in Mailboxes
    /\ unreadCount[row[i].box] <= MaxUnread
    /\ \E op \in {"flag", "store"} :
          Start(c, [Idle EXCEPT
                !.op = op, !.id = i, !.flags = fs,
                !.at = IF op = "flag" THEN "writeFlags" ELSE "storeFlags",
                !.unread = (IF "seen" \in row[i].flags THEN 1 ELSE 0)
                             - (IF "seen" \in fs THEN 1 ELSE 0)])
    /\ UNCHANGED <<row, counters, lastUid>>

WriteFlags(c) ==
    LET r == call[c] IN
    /\ r.at \in {"writeFlags", "storeFlags"}
    /\ row' = IF row[r.id].box \in Mailboxes
              THEN [row EXCEPT ![r.id].flags = r.flags] ELSE row
    /\ IF r.at = "writeFlags" /\ r.unread # 0 THEN Step(c, "locate") ELSE Finish(c)
    /\ UNCHANGED <<counters, lastUid>>

(* The mailbox is read again, after the flags were written.                *)
LocateMailbox(c) ==
    LET r == call[c] IN
    /\ r.at = "locate"
    /\ IF row[r.id].box \in Mailboxes
       THEN call' = [call EXCEPT ![c].at = "unread", ![c].from = row[r.id].box]
       ELSE Finish(c)
    /\ UNCHANGED <<row, counters, lastUid>>

AdjustUnread(c) ==
    LET r == call[c] IN
    /\ r.at = "unread"
    /\ unreadCount' = [unreadCount EXCEPT ![r.from] = AtLeast0(@ + r.unread)]
    /\ Finish(c)
    /\ UNCHANGED <<row, uidNext, messageCount, lastUid>>

-----------------------------------------------------------------------------
(***************************************************************************)
(* IMAP COPY and APPEND: counters are read, and written back with the row. *)
(***************************************************************************)

ListForCopy(c, i, b) ==
    /\ row[i].box \in Mailboxes
    /\ uidNext[b] <= MaxUid
    /\ Start(c, [Idle EXCEPT !.op = "copy", !.at = "copyRead", !.to = b,
                             !.mail = row[i].mail, !.flags = row[i].flags])
    /\ UNCHANGED <<row, counters, lastUid>>

ReadDestination(c) ==
    LET r == call[c] IN
    /\ r.at = "copyRead"
    /\ call' = [call EXCEPT ![c] = [r EXCEPT !.at = "insertBack",
                                             !.uid = uidNext[r.to],
                                             !.count = messageCount[r.to],
                                             !.unread = unreadCount[r.to]]]
    /\ UNCHANGED <<row, counters, lastUid>>

(* findMailboxByName, before the transaction of appendStubMessage.         *)
FindMailbox(c, b) ==
    /\ uidNext[b] <= MaxUid
    /\ Start(c, [Idle EXCEPT !.op = "append", !.at = "insertBack", !.to = b,
                             !.uid = uidNext[b], !.count = messageCount[b],
                             !.unread = unreadCount[b]])
    /\ UNCHANGED <<row, counters, lastUid>>

CommitBack(c) ==
    LET r == call[c]
        unseen == "seen" \notin r.flags IN
    /\ r.at = "insertBack"
    /\ Insert(r.to, r.uid, r.mail, r.flags)
    /\ uidNext' = [uidNext EXCEPT ![r.to] = r.uid + 1]
    /\ messageCount' = [messageCount EXCEPT ![r.to] = r.count + 1]
    /\ unreadCount' = [unreadCount EXCEPT
                          ![r.to] = r.unread + (IF unseen THEN 1 ELSE 0)]
    /\ Finish(c)

-----------------------------------------------------------------------------
(***************************************************************************)
(* IMAP EXPUNGE deletes what its listing showed as deleted and writes the  *)
(* counts of the rest of that listing; CLOSE deletes first, then lists.    *)
(***************************************************************************)

Flagged(b) == {i \in Rows(b) : "deleted" \in row[i].flags}

ListForExpunge(c, b) ==
    LET remaining == Rows(b) \ Flagged(b) IN
    /\ Start(c, [Idle EXCEPT !.op = "expunge", !.at = "expunge", !.from = b,
                             !.ids = Flagged(b),
                             !.count = Cardinality(remaining),
                             !.unread = Cardinality(Unseen(remaining))])
    /\ UNCHANGED <<row, counters, lastUid>>

ExpungeRows(c) ==
    /\ call[c].at = "expunge"
    /\ DeleteIds(call[c].ids)
    /\ Step(c, "setCounts")
    /\ UNCHANGED <<counters, lastUid>>

CloseMailbox(c, b) ==
    /\ Start(c, [Idle EXCEPT !.op = "close", !.at = "closeList", !.from = b])
    /\ DeleteIds(Flagged(b))
    /\ UNCHANGED <<counters, lastUid>>

ListRemaining(c) ==
    LET r == call[c] IN
    /\ r.at = "closeList"
    /\ call' = [call EXCEPT ![c] = [r EXCEPT
                    !.at = "setCounts",
                    !.count = Cardinality(Rows(r.from)),
                    !.unread = Cardinality(Unseen(Rows(r.from)))]]
    /\ UNCHANGED <<row, counters, lastUid>>

(* Mutation: uidNext is set from the listing too.                          *)
SetCountsAndNext(c) ==
    LET r == call[c] IN
    /\ r.at = "setCounts"
    /\ uidNext' = [uidNext EXCEPT ![r.from] = r.count + 1]
    /\ messageCount' = [messageCount EXCEPT ![r.from] = r.count]
    /\ unreadCount' = [unreadCount EXCEPT ![r.from] = r.unread]
    /\ Finish(c)
    /\ UNCHANGED <<row, lastUid>>

SetCounts(c) ==
    LET r == call[c] IN
    /\ r.at = "setCounts"
    /\ messageCount' = [messageCount EXCEPT ![r.from] = r.count]
    /\ unreadCount' = [unreadCount EXCEPT ![r.from] = r.unread]
    /\ Finish(c)
    /\ UNCHANGED <<row, uidNext, lastUid>>

-----------------------------------------------------------------------------
(* The unique index refuses the row: the transaction rolls back, the call  *)
(* ends with an error.                                                     *)
UidConflict(c) ==
    LET r == call[c] IN
    /\ \/ r.at \in {"insert", "insertBack"} /\ UidTaken(r.to, r.uid)
       \/ /\ r.at = "place"
          /\ row[r.id].box # "gone"
          /\ \E i \in Rows(r.to) \ {r.id} : row[i].uid = r.uid
    /\ Finish(c)
    /\ UNCHANGED <<row, counters, lastUid>>

(* A statement throws or the process dies; what is committed stays.        *)
CallFails(c) ==
    /\ MayFail
    /\ call[c] # Idle
    /\ Finish(c)
    /\ UNCHANGED <<row, counters, lastUid>>

Deliver(c) ==
    \/ \E op \in Deliveries, m \in Mails \cup {NoMail} : ReadUidNext(c, op, m)
    \/ CheckDuplicate(c) \/ CommitDelivery(c)

Request(c) ==
    \/ \E i \in Ids :
          \/ ReadDeletable(c, i)
          \/ \E b \in Mailboxes : ReadMovable(c, i, b)
          \/ \E fs \in SUBSET Flags : ReadFlags(c, i, fs)
    \/ DeleteRow(c) \/ ReadTarget(c) \/ PlaceRow(c) \/ UncountRow(c) \/ CountRow(c)
    \/ WriteFlags(c) \/ LocateMailbox(c) \/ AdjustUnread(c)

ImapCommand(c) ==
    \/ \E b \in Mailboxes :
          \/ \E i \in Ids : ListForCopy(c, i, b)
          \/ FindMailbox(c, b) \/ ListForExpunge(c, b) \/ CloseMailbox(c, b)
    \/ ReadDestination(c) \/ CommitBack(c)
    \/ ExpungeRows(c) \/ ListRemaining(c) \/ SetCounts(c)

Next ==
    \E c \in Calls :
        Deliver(c) \/ Request(c) \/ ImapCommand(c) \/ UidConflict(c) \/ CallFails(c)

Spec == Init /\ [][Next]_vars

-----------------------------------------------------------------------------
(***************************************************************************)
(* Properties.                                                             *)
(***************************************************************************)

Quiet == \A c \in Calls : call[c] = Idle

(* A move has placed its row in mailbox b and not yet advanced uidNext.    *)
Placing(b) ==
    \E c \in Calls : /\ call[c].op = "move" /\ call[c].to = b
                     /\ call[c].at \in {"uncount", "count"}

(* uidNext is above every UID in use: the next message of a mailbox finds  *)
(* its UID free.  Were it not, every later delivery would be refused.      *)
UidsBelowNext ==
    \A b \in Mailboxes : \A i \in Rows(b) : row[i].uid < uidNext[b] \/ Placing(b)

(* Whenever no call is in flight, message_count is the number of rows,     *)
(* whichever of the API, the workers and IMAP changed the mailbox before.  *)
CountExact ==
    Quiet => \A b \in Mailboxes : messageCount[b] = Cardinality(Rows(b))

(* A message that is delivered again, with the same Message-ID, is stored  *)
(* once, although no index enforces it: while the worker is about to store *)
(* a mail, what it found at its check stands, and the inbox holds no copy  *)
(* of it.  Further copies are made by COPY, or by moving a mail back after *)
(* it came again, and both would also do so between check and insert: the  *)
(* calls here that overlap have relative updates only.                     *)
OneCopyPerMail ==
    \A c \in Calls : call[c].op = "inbound" /\ call[c].at = "insert"
                       => \A i \in Rows("inbox") : row[i].mail # call[c].mail

(* uidNext never steps back: no call undoes the UID another one took.      *)
NextOnlyGrows == [][\A b \in Mailboxes : uidNext[b] <= uidNext'[b]]_vars
=============================================================================
