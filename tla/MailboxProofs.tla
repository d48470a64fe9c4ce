--------------------------- MODULE MailboxProofs ---------------------------
(***************************************************************************)
(* Theorems about the message store, for every number of calls, rows,      *)
(* mails and mailboxes.                                                    *)
(***************************************************************************)
EXTENDS MCMailbox, FiniteSetTheorems, TLAPS

(* What a call has read, as far as its next statement uses it.             *)
Ready(r) ==
    /\ r.at \in {"check", "insert", "target", "place", "count", "copyRead",
                 "insertBack"} => r.to \in Mailboxes
    /\ r.at \in {"delete", "uncount", "unread", "expunge", "closeList", "setCounts"}
          => r.from \in Mailboxes
    /\ r.at \in {"delete", "target", "place", "writeFlags", "storeFlags", "locate"}
          => r.id \in Ids
    /\ r.at \in {"expunge", "setCounts", "insertBack"} => r.unread \in Nat
    /\ r.at \in {"check", "insert"} => r.op \in Deliveries
    /\ r.at \in {"target", "place"} => r.op = "move" /\ r.from \in Mailboxes
    /\ r.at = "count" => r.op = "move"
    /\ r.at \in {"copyRead", "insertBack"} => r.op \in AbsoluteUids
    /\ r.op = "move" => r.to \in Mailboxes
    /\ r.op = "inbound" => r.to = "inbox" /\ r.at \in {"check", "insert"}

TypeInv == TypeOK /\ \A c \in Calls : Ready(call[c])

-----------------------------------------------------------------------------
(* The initial store is well typed.                                        *)
LEMMA InitTyped == Init => TypeInv
<1> SUFFICES ASSUME Init PROVE TypeInv
  OBVIOUS
<1>1. TypeOK
  BY DEF Init, TypeOK, Row, Absent, Boxes, Call, Steps, Idle
<1>2. \A c \in Calls : Ready(call[c])
  BY DEF Init, Idle, Ready, Deliveries, AbsoluteUids
<1> QED BY <1>1, <1>2 DEF TypeInv

(* A call that is not in flight.                                           *)
LEMMA IdleTyped == Idle \in Call /\ Ready(Idle)
BY DEF Idle, Call, Steps, Ready, Deliveries, AbsoluteUids

(* A call that ends leaves the others as they are.                         *)
LEMMA FinishTyped ==
    ASSUME TypeInv, NEW c \in Calls, Finish(c)
    PROVE  call' \in [Calls -> Call] /\ \A d \in Calls : Ready(call'[d])
BY IdleTyped DEF TypeInv, TypeOK, Finish

(* A call that begins takes a well typed record.                           *)
LEMMA StartTyped ==
    ASSUME TypeInv, NEW c \in Calls, NEW r \in Call, Ready(r), Start(c, r)
    PROVE  call' \in [Calls -> Call] /\ \A d \in Calls : Ready(call'[d])
BY DEF TypeInv, TypeOK, Start

(* The same for a call that goes on with another record.                   *)
LEMMA SetTyped ==
    ASSUME TypeInv, NEW c \in Calls, NEW r \in Call, Ready(r),
           call' = [call EXCEPT ![c] = r]
    PROVE  call' \in [Calls -> Call] /\ \A d \in Calls : Ready(call'[d])
BY DEF TypeInv, TypeOK

(* A call that goes on to its next statement.                              *)
LEMMA StepTyped ==
    ASSUME TypeInv, NEW c \in Calls, NEW at \in Steps, Step(c, at),
           Ready([call[c] EXCEPT !.at = at])
    PROVE  call' \in [Calls -> Call] /\ \A d \in Calls : Ready(call'[d])
<1> DEFINE r == [call[c] EXCEPT !.at = at]
<1>1. r \in Call
  BY DEF TypeInv, TypeOK, Call
<1>2. call' = [call EXCEPT ![c] = r]
  BY DEF Step
<1> HIDE DEF r
<1> QED
  <2>1. Ready(r)
    BY DEF r
  <2>2. QED
    BY <1>1, <1>2, <2>1, SetTyped

(* Rows and counts of a mailbox are finite.                                *)
LEMMA CountsAreNat ==
    ASSUME NEW is \in SUBSET Ids
    PROVE  Cardinality(is) \in Nat
BY StoreAssumption, FS_Subset, FS_CardinalityType DEF StoreAssumption

(* An INSERT turns an unused row into one of the mailbox.                  *)
LEMMA InsertTyped ==
    ASSUME TypeInv, NEW b \in Mailboxes, NEW u \in Nat,
           NEW m \in Mails \cup {NoMail}, NEW fs \in SUBSET Flags,
           Insert(b, u, m, fs)
    PROVE  row' \in [Ids -> Row] /\ lastUid' \in [Mailboxes -> Nat]
<1>1. row' \in [Ids -> Row]
  BY DEF TypeInv, TypeOK, Insert, Row, Boxes, Rows
<1>2. lastUid' \in [Mailboxes -> Nat]
  BY DEF TypeInv, TypeOK, Insert, Higher
<1> QED BY <1>1, <1>2

(* A DELETE turns rows of mailboxes into deleted ones.                     *)
LEMMA DeleteTyped ==
    ASSUME TypeInv, NEW is, DeleteIds(is)
    PROVE  row' \in [Ids -> Row]
BY DEF TypeInv, TypeOK, DeleteIds, Row, Boxes, Absent

-----------------------------------------------------------------------------
(* A new message: uidNext is read, the Message-ID looked up, the row added. *)
LEMMA DeliverTyped ==
    ASSUME TypeInv, NEW c \in Calls, Deliver(c)
    PROVE  TypeInv'
<1>1. ASSUME NEW op \in Deliveries, NEW m \in Mails \cup {NoMail},
             ReadUidNext(c, op, m)
      PROVE  TypeInv'
  <2> DEFINE a == IF op = "inbound" THEN "check" ELSE "insert"
             t == Target(op)
             u == uidNext[t]
             r == [Idle EXCEPT !.op = op, !.mail = m, !.to = t, !.at = a, !.uid = u]
  <2>1. Start(c, r) /\ t \in Mailboxes
    BY <1>1 DEF ReadUidNext
  <2>2. a \in {"check", "insert"} /\ u \in Nat /\ (op = "inbound" => t = "inbox")
    BY <2>1 DEF Target, TypeInv, TypeOK
  <2>3. op # "move"
    BY DEF Deliveries
  <2> HIDE DEF a, t, u
  <2>4. op \in Ops
    BY <2>1 DEF Start, Idle
  <2>5. r \in Call
    BY <2>1, <2>2, <2>4, IdleTyped DEF Call, Steps
  <2>6. r.op = op /\ r.to = t /\ r.at = a
    BY IdleTyped DEF Call
  <2> HIDE DEF r
  <2>7. Ready(r)
    BY <2>1, <2>2, <2>3, <2>6 DEF Ready
  <2>8. QED
    BY <1>1, <2>1, <2>5, <2>7, StartTyped DEF TypeInv, TypeOK, ReadUidNext, counters
<1>2. ASSUME CheckDuplicate(c)
      PROVE  TypeInv'
  <2>1. CASE Finish(c)
    BY <1>2, <2>1, FinishTyped DEF TypeInv, TypeOK, CheckDuplicate, counters
  <2>2. CASE Step(c, "insert")
    <3> DEFINE r == [call[c] EXCEPT !.at = "insert"]
    <3>1. r \in Call /\ Ready(r) /\ call' = [call EXCEPT ![c] = r]
      BY <1>2, <2>2 DEF CheckDuplicate, Step, TypeInv, TypeOK, Call, Steps, Ready,
                        Deliveries, AbsoluteUids
    <3> HIDE DEF r
    <3>2. QED
      BY <1>2, <3>1, SetTyped DEF TypeInv, TypeOK, CheckDuplicate, counters
  <2>3. QED
    BY <1>2, <2>1, <2>2 DEF CheckDuplicate
<1>3. ASSUME CommitDelivery(c)
      PROVE  TypeInv'
  <2>1. /\ call[c].to \in Mailboxes /\ call[c].uid \in Nat
        /\ call[c].mail \in Mails \cup {NoMail}
    BY <1>3 DEF CommitDelivery, TypeInv, TypeOK, Call, Ready
  <2>2. row' \in [Ids -> Row] /\ lastUid' \in [Mailboxes -> Nat]
    <3>1. (IF call[c].op = "send" THEN {"seen"} ELSE {}) \in SUBSET Flags
      BY DEF Flags
    <3>2. QED
      BY <1>3, <2>1, <3>1, InsertTyped DEF CommitDelivery
  <2>3. /\ uidNext' \in [Mailboxes -> Nat]
        /\ messageCount' \in [Mailboxes -> Nat]
        /\ unreadCount' \in [Mailboxes -> Nat]
    BY <1>3, <2>1 DEF CommitDelivery, TypeInv, TypeOK
  <2>4. Finish(c)
    BY <1>3 DEF CommitDelivery
  <2>5. QED
    BY <2>2, <2>3, <2>4, FinishTyped DEF TypeInv, TypeOK
<1> QED BY <1>1, <1>2, <1>3 DEF Deliver

(* Requests of the API: deletes, moves and changes of flags.               *)
LEMMA RequestStartsTyped ==
    ASSUME TypeInv, NEW c \in Calls, NEW i \in Ids,
           \/ ReadDeletable(c, i)
           \/ \E b \in Mailboxes : ReadMovable(c, i, b)
           \/ \E fs \in SUBSET Flags : ReadFlags(c, i, fs)
    PROVE  TypeInv'
<1>1. CASE ReadDeletable(c, i)
  <2> DEFINE r == [Idle EXCEPT !.op = "hardDelete", !.at = "delete", !.id = i,
                               !.from = row[i].box]
  <2>1. Start(c, r) /\ r.op \in Ops /\ row[i].box \in Mailboxes
    BY <1>1 DEF ReadDeletable, Start
  <2>2. r \in Call /\ Ready(r)
    <3>1. r \in Call
      BY <2>1, IdleTyped DEF Call, Steps
    <3>2. /\ r.op = "hardDelete" /\ r.at = "delete" /\ r.from \in Mailboxes /\ r.id = i
      BY <2>1, IdleTyped DEF Call
    <3> HIDE DEF r
    <3>3. QED
      BY <3>1, <3>2 DEF Ready
  <2> HIDE DEF r
  <2>3. QED
    BY <1>1, <2>1, <2>2, StartTyped DEF TypeInv, TypeOK, ReadDeletable, counters
<1>2. ASSUME NEW b \in Mailboxes, ReadMovable(c, i, b)
      PROVE  TypeInv'
  <2> DEFINE r == [Idle EXCEPT !.op = "move", !.at = "target", !.id = i,
                               !.from = row[i].box, !.to = b]
  <2>1. Start(c, r) /\ r.op \in Ops /\ row[i].box \in Mailboxes
    BY <1>2 DEF ReadMovable, Start
  <2>2. r \in Call /\ Ready(r)
    <3>1. r \in Call
      BY <2>1, IdleTyped DEF Call, Steps
    <3>2. /\ r.op = "move" /\ r.at = "target" /\ r.from \in Mailboxes /\ r.id = i /\ r.to = b
      BY <2>1, IdleTyped DEF Call
    <3> HIDE DEF r
    <3>3. QED
      BY <3>1, <3>2 DEF Ready
  <2> HIDE DEF r
  <2>3. QED
    BY <1>2, <2>1, <2>2, StartTyped DEF TypeInv, TypeOK, ReadMovable, counters
<1>3. ASSUME NEW fs \in SUBSET Flags, NEW op \in {"flag", "store"}, ReadFlags(c, i, fs),
             Start(c, [Idle EXCEPT
                !.op = op, !.id = i, !.flags = fs,
                !.at = IF op = "flag" THEN "writeFlags" ELSE "storeFlags",
                !.unread = (IF "seen" \in row[i].flags THEN 1 ELSE 0)
                             - (IF "seen" \in fs THEN 1 ELSE 0)])
      PROVE  TypeInv'
  <2> DEFINE a == IF op = "flag" THEN "writeFlags" ELSE "storeFlags"
             n == (IF "seen" \in row[i].flags THEN 1 ELSE 0)
                    - (IF "seen" \in fs THEN 1 ELSE 0)
             r == [Idle EXCEPT !.op = op, !.id = i, !.flags = fs, !.at = a,
                               !.unread = n]
  <2>1. Start(c, r)
    BY <1>3
  <2>2. n \in Int /\ a \in {"writeFlags", "storeFlags"} /\ op \notin {"move", "inbound"}
    OBVIOUS
  <2> HIDE DEF n, a
  <2>3. op \in Ops
    BY <2>1 DEF Start, Idle
  <2>4. r \in Call
    BY <2>2, <2>3, IdleTyped DEF Call, Steps
  <2>5. r.op = op /\ r.id = i /\ r.at = a
    BY IdleTyped DEF Call
  <2> HIDE DEF r
  <2>6. Ready(r)
    BY <2>2, <2>5 DEF Ready
  <2>7. QED
    BY <1>3, <2>1, <2>4, <2>6, StartTyped DEF TypeInv, TypeOK, ReadFlags, counters
<1> QED BY <1>1, <1>2, <1>3 DEF ReadFlags

(* The further statements of deletes, moves and changes of flags.          *)
LEMMA RequestStepsTyped ==
    ASSUME TypeInv, NEW c \in Calls,
           \/ DeleteRow(c) \/ ReadTarget(c) \/ PlaceRow(c) \/ UncountRow(c)
           \/ CountRow(c) \/ WriteFlags(c) \/ LocateMailbox(c) \/ AdjustUnread(c)
    PROVE  TypeInv'
<1> DEFINE r == call[c]
<1>0. r \in Call /\ Ready(r)
  BY DEF TypeInv, TypeOK
<1>1. CASE DeleteRow(c)
  <2>1. row' \in [Ids -> Row]
    BY <1>1, DeleteTyped DEF DeleteRow
  <2>2. Step(c, "uncount") /\ r.at = "delete"
    BY <1>1 DEF DeleteRow
  <2>3. Ready([r EXCEPT !.at = "uncount"])
    BY <1>0, <2>2 DEF Ready, Call
  <2>4. QED
    BY <1>1, <2>1, <2>2, <2>3, StepTyped DEF TypeInv, TypeOK, DeleteRow, counters, Steps
<1>2. CASE ReadTarget(c)
  <2> DEFINE s == [r EXCEPT !.at = "place", !.uid = uidNext[r.to]]
  <2>1. r.at = "target" /\ r.to \in Mailboxes /\ r.op = "move"
        /\ r.from \in Mailboxes /\ r.id \in Ids
    BY <1>0, <1>2 DEF ReadTarget, Ready
  <2>2. s \in Call
    BY <1>0, <2>1 DEF Call, Steps, TypeInv, TypeOK
  <2>3. s.at = "place" /\ s.to = r.to /\ s.op = r.op /\ s.from = r.from /\ s.id = r.id
    BY <1>0 DEF Call
  <2>4. call' = [call EXCEPT ![c] = s]
    BY <1>2 DEF ReadTarget, TypeInv, TypeOK
  <2> HIDE DEF s
  <2>5. Ready(s)
    BY <2>1, <2>3 DEF Ready
  <2>6. QED
    BY <1>2, <2>2, <2>4, <2>5, SetTyped DEF TypeInv, TypeOK, ReadTarget, counters
<1>3. CASE PlaceRow(c)
  <2>1. r.at = "place" /\ r.to \in Mailboxes /\ r.id \in Ids /\ r.uid \in Nat
        /\ r.from \in Mailboxes /\ r.op = "move" /\ Step(c, "uncount")
    BY <1>0, <1>3 DEF PlaceRow, Ready, Call
  <2>2. row' \in [Ids -> Row] /\ lastUid' \in [Mailboxes -> Nat]
    BY SMTT(60), <1>3, <2>1 DEF PlaceRow, TypeInv, TypeOK, Row, Boxes, Higher
  <2>3. Ready([r EXCEPT !.at = "uncount"])
    BY <1>0, <2>1 DEF Ready, Call
  <2>4. QED
    BY <1>3, <2>1, <2>2, <2>3, StepTyped DEF TypeInv, TypeOK, PlaceRow, counters, Steps
<1>4. CASE UncountRow(c)
  <2>1. r.at = "uncount" /\ r.from \in Mailboxes
    BY <1>0, <1>4 DEF UncountRow, Ready
  <2>2. messageCount' \in [Mailboxes -> Nat]
    BY <1>4, <2>1 DEF UncountRow, TypeInv, TypeOK, AtLeast0
  <2>3. CASE r.op = "move"
    <3>1. Step(c, "count")
      BY <1>4, <2>3 DEF UncountRow
    <3>2. Ready([r EXCEPT !.at = "count"])
      BY <1>0, <2>3 DEF Ready, Call
    <3>3. QED
      BY <1>4, <2>2, <3>1, <3>2, StepTyped DEF TypeInv, TypeOK, UncountRow, Steps
  <2>4. CASE r.op # "move"
    BY <1>4, <2>2, <2>4, FinishTyped DEF TypeInv, TypeOK, UncountRow
  <2>5. QED
    BY <2>3, <2>4
<1>5. CASE CountRow(c)
  <2>1. r.to \in Mailboxes /\ r.uid \in Nat /\ Finish(c)
    BY <1>0, <1>5 DEF CountRow, Ready, Call
  <2>2. messageCount' \in [Mailboxes -> Nat] /\ uidNext' \in [Mailboxes -> Nat]
    BY <1>5, <2>1 DEF CountRow, TypeInv, TypeOK
  <2>3. QED
    BY <1>5, <2>1, <2>2, FinishTyped DEF TypeInv, TypeOK, CountRow
<1>6. CASE WriteFlags(c)
  <2>1. r.id \in Ids /\ r.flags \in SUBSET Flags
    BY <1>0, <1>6 DEF WriteFlags, Ready, Call
  <2>2. row' \in [Ids -> Row]
    BY <1>6, <2>1 DEF WriteFlags, TypeInv, TypeOK, Row
  <2>3. CASE Step(c, "locate") /\ r.at = "writeFlags"
    <3>1. Ready([r EXCEPT !.at = "locate"])
      BY <1>0, <2>1, <2>3 DEF Ready, Call
    <3>2. QED
      BY <1>6, <2>2, <2>3, <3>1, StepTyped DEF TypeInv, TypeOK, WriteFlags, counters, Steps
  <2>4. CASE Finish(c)
    BY <1>6, <2>2, <2>4, FinishTyped DEF TypeInv, TypeOK, WriteFlags, counters
  <2>5. QED
    BY <1>6, <2>3, <2>4 DEF WriteFlags
<1>7. CASE LocateMailbox(c)
  <2>1. r.id \in Ids /\ r.at = "locate"
    BY <1>0, <1>7 DEF LocateMailbox, Ready
  <2>2. CASE row[r.id].box \in Mailboxes
    <3> DEFINE s == [r EXCEPT !.at = "unread", !.from = row[r.id].box]
    <3>1. s \in Call
      BY <1>0, <2>2 DEF Call, Steps
    <3>2. s.at = "unread" /\ s.from \in Mailboxes /\ s.op = r.op /\ s.to = r.to
      BY <1>0, <2>2 DEF Call
    <3>3. call' = [call EXCEPT ![c] = s]
      BY <1>7, <2>2 DEF LocateMailbox, TypeInv, TypeOK
    <3> HIDE DEF s
    <3>4. Ready(s)
      BY <1>0, <2>1, <3>2 DEF Ready
    <3>5. QED
      BY <1>7, <3>1, <3>3, <3>4, SetTyped DEF TypeInv, TypeOK, LocateMailbox, counters
  <2>3. CASE row[r.id].box \notin Mailboxes
    BY <1>7, <2>3, FinishTyped DEF TypeInv, TypeOK, LocateMailbox, counters
  <2>4. QED
    BY <2>2, <2>3
<1>8. CASE AdjustUnread(c)
  <2>1. r.from \in Mailboxes /\ r.unread \in Int /\ Finish(c)
    BY <1>0, <1>8 DEF AdjustUnread, Ready, Call
  <2>2. unreadCount' \in [Mailboxes -> Nat]
    BY <1>8, <2>1 DEF AdjustUnread, TypeInv, TypeOK, AtLeast0
  <2>3. QED
    BY <1>8, <2>1, <2>2, FinishTyped DEF TypeInv, TypeOK, AdjustUnread
<1> QED
  BY <1>1, <1>2, <1>3, <1>4, <1>5, <1>6, <1>7, <1>8

-----------------------------------------------------------------------------
(* IMAP: COPY, APPEND, EXPUNGE and CLOSE.                                  *)
LEMMA ImapStartsTyped ==
    ASSUME TypeInv, NEW c \in Calls, NEW b \in Mailboxes,
           \/ \E i \in Ids : ListForCopy(c, i, b)
           \/ FindMailbox(c, b) \/ ListForExpunge(c, b) \/ CloseMailbox(c, b)
    PROVE  TypeInv'
<1>1. ASSUME NEW i \in Ids, ListForCopy(c, i, b)
      PROVE  TypeInv'
  <2> DEFINE r == [Idle EXCEPT !.op = "copy", !.at = "copyRead", !.to = b,
                               !.mail = row[i].mail, !.flags = row[i].flags]
  <2>1. Start(c, r)
    BY <1>1 DEF ListForCopy
  <2>2. "copy" \in Ops
    BY <2>1 DEF Start, Idle
  <2>3. row[i].mail \in Mails \cup {NoMail} /\ row[i].flags \in SUBSET Flags
    BY DEF TypeInv, TypeOK, Row
  <2>4. r \in Call
    BY <2>2, <2>3, IdleTyped DEF Call, Steps
  <2>5. r.op = "copy" /\ r.at = "copyRead" /\ r.to = b
    BY IdleTyped DEF Call
  <2> HIDE DEF r
  <2>6. Ready(r)
    BY <2>5 DEF Ready, AbsoluteUids
  <2>7. QED
    BY <1>1, <2>1, <2>4, <2>6, StartTyped DEF TypeInv, TypeOK, ListForCopy, counters
<1>2. CASE FindMailbox(c, b)
  <2> DEFINE u == uidNext[b]
             m == messageCount[b]
             n == unreadCount[b]
             r == [Idle EXCEPT !.op = "append", !.at = "insertBack", !.to = b,
                               !.uid = u, !.count = m, !.unread = n]
  <2>1. Start(c, r)
    BY <1>2 DEF FindMailbox
  <2>2. "append" \in Ops
    BY <2>1 DEF Start, Idle
  <2>3. u \in Nat /\ m \in Nat /\ n \in Nat /\ n \in Int
    BY DEF TypeInv, TypeOK
  <2> HIDE DEF u, m, n
  <2>4. r \in Call
    BY <2>2, <2>3, IdleTyped DEF Call, Steps
  <2>5. r.op = "append" /\ r.at = "insertBack" /\ r.to = b /\ r.unread = n
    BY IdleTyped DEF Call
  <2> HIDE DEF r
  <2>6. Ready(r)
    BY <2>3, <2>5 DEF Ready, AbsoluteUids
  <2>7. QED
    BY <1>2, <2>1, <2>4, <2>6, StartTyped DEF TypeInv, TypeOK, FindMailbox, counters
<1>3. CASE ListForExpunge(c, b)
  <2> DEFINE is == Flagged(b)
             m == Cardinality(Rows(b) \ Flagged(b))
             n == Cardinality(Unseen(Rows(b) \ Flagged(b)))
             r == [Idle EXCEPT !.op = "expunge", !.at = "expunge", !.from = b,
                               !.ids = is, !.count = m, !.unread = n]
  <2>1. Start(c, r)
    BY <1>3 DEF ListForExpunge
  <2>2. is \in SUBSET Ids /\ m \in Nat /\ n \in Nat /\ n \in Int
    BY CountsAreNat DEF Flagged, Rows, Unseen
  <2> HIDE DEF is, m, n
  <2>3. "expunge" \in Ops
    BY <2>1 DEF Start, Idle
  <2>4. r \in Call
    BY <2>2, <2>3, IdleTyped DEF Call, Steps
  <2>5. r.op = "expunge" /\ r.at = "expunge" /\ r.from = b /\ r.unread = n
    BY IdleTyped DEF Call
  <2> HIDE DEF r
  <2>6. Ready(r)
    BY <2>2, <2>5 DEF Ready
  <2>7. QED
    BY <1>3, <2>1, <2>4, <2>6, StartTyped DEF TypeInv, TypeOK, ListForExpunge, counters
<1>4. CASE CloseMailbox(c, b)
  <2> DEFINE r == [Idle EXCEPT !.op = "close", !.at = "closeList", !.from = b]
  <2>1. Start(c, r) /\ row' \in [Ids -> Row]
    BY <1>4, DeleteTyped DEF CloseMailbox
  <2>2. "close" \in Ops
    BY <2>1 DEF Start, Idle
  <2>3. r \in Call
    BY <2>2, IdleTyped DEF Call, Steps
  <2>4. r.op = "close" /\ r.at = "closeList" /\ r.from = b
    BY IdleTyped DEF Call
  <2> HIDE DEF r
  <2>5. Ready(r)
    BY <2>4 DEF Ready
  <2>6. QED
    BY <1>4, <2>1, <2>3, <2>5, StartTyped DEF TypeInv, TypeOK, CloseMailbox, counters
<1> QED
  BY <1>1, <1>2, <1>3, <1>4

(* The further statements of the IMAP commands.                            *)
LEMMA ImapStepsTyped ==
    ASSUME TypeInv, NEW c \in Calls,
           \/ ReadDestination(c) \/ CommitBack(c)
           \/ ExpungeRows(c) \/ ListRemaining(c) \/ SetCounts(c)
    PROVE  TypeInv'
<1> DEFINE r == call[c]
<1>0. r \in Call /\ Ready(r)
  BY DEF TypeInv, TypeOK
<1>1. CASE ReadDestination(c)
  <2> DEFINE u == uidNext[r.to]
             m == messageCount[r.to]
             n == unreadCount[r.to]
             s == [r EXCEPT !.at = "insertBack", !.uid = u, !.count = m, !.unread = n]
  <2>1. r.to \in Mailboxes /\ r.op \in AbsoluteUids
    BY <1>0, <1>1 DEF ReadDestination, Ready
  <2>2. u \in Nat /\ m \in Nat /\ n \in Nat /\ n \in Int
    BY <2>1 DEF TypeInv, TypeOK
  <2>3. call' = [call EXCEPT ![c] = s]
    BY <1>1 DEF ReadDestination
  <2> HIDE DEF u, m, n
  <2>4. s \in Call
    BY <1>0, <2>2 DEF Call, Steps
  <2>5. s.at = "insertBack" /\ s.to = r.to /\ s.op = r.op /\ s.unread = n
    BY <1>0 DEF Call
  <2> HIDE DEF s
  <2>6. Ready(s)
    BY <1>0, <2>1, <2>2, <2>5 DEF Ready, AbsoluteUids
  <2>7. QED
    BY <1>1, <2>4, <2>3, <2>6, SetTyped DEF TypeInv, TypeOK, ReadDestination, counters
<1>2. CASE CommitBack(c)
  <2>1. /\ r.to \in Mailboxes /\ r.uid \in Nat /\ r.count \in Nat /\ r.unread \in Nat
        /\ r.mail \in Mails \cup {NoMail} /\ r.flags \in SUBSET Flags
    BY <1>0, <1>2 DEF CommitBack, Ready, Call
  <2>2. row' \in [Ids -> Row] /\ lastUid' \in [Mailboxes -> Nat]
    BY <1>2, <2>1, InsertTyped DEF CommitBack
  <2>3. /\ uidNext' \in [Mailboxes -> Nat]
        /\ messageCount' \in [Mailboxes -> Nat]
        /\ unreadCount' \in [Mailboxes -> Nat]
    BY <1>2, <2>1 DEF CommitBack, TypeInv, TypeOK
  <2>4. Finish(c)
    BY <1>2 DEF CommitBack
  <2>5. QED
    BY <2>2, <2>3, <2>4, FinishTyped DEF TypeInv, TypeOK
<1>3. CASE ExpungeRows(c)
  <2>1. row' \in [Ids -> Row]
    BY <1>3, DeleteTyped DEF ExpungeRows
  <2>2. Step(c, "setCounts") /\ r.at = "expunge"
    BY <1>3 DEF ExpungeRows
  <2>3. Ready([r EXCEPT !.at = "setCounts"])
    BY <1>0, <2>2 DEF Ready, Call
  <2>4. QED
    BY <1>3, <2>1, <2>2, <2>3, StepTyped DEF TypeInv, TypeOK, ExpungeRows, counters, Steps
<1>4. CASE ListRemaining(c)
  <2> DEFINE m == Cardinality(Rows(r.from))
             n == Cardinality(Unseen(Rows(r.from)))
             s == [r EXCEPT !.at = "setCounts", !.count = m, !.unread = n]
  <2>1. m \in Nat /\ n \in Nat /\ n \in Int
    BY CountsAreNat DEF Rows, Unseen
  <2>2. call' = [call EXCEPT ![c] = s] /\ r.from \in Mailboxes /\ r.at = "closeList"
    BY <1>0, <1>4 DEF ListRemaining, Ready
  <2> HIDE DEF m, n
  <2>3. s \in Call
    BY <1>0, <2>1 DEF Call, Steps
  <2>4. s.at = "setCounts" /\ s.from = r.from /\ s.to = r.to /\ s.op = r.op /\ s.unread = n
    BY <1>0 DEF Call
  <2> HIDE DEF s
  <2>5. Ready(s)
    BY <1>0, <2>1, <2>2, <2>4 DEF Ready
  <2>6. QED
    BY <1>4, <2>2, <2>3, <2>5, SetTyped DEF TypeInv, TypeOK, ListRemaining, counters
<1>5. CASE SetCounts(c)
  <2>1. r.from \in Mailboxes /\ r.count \in Nat /\ r.unread \in Nat /\ Finish(c)
    BY <1>0, <1>5 DEF SetCounts, Ready, Call
  <2>2. messageCount' \in [Mailboxes -> Nat] /\ unreadCount' \in [Mailboxes -> Nat]
    BY <1>5, <2>1 DEF SetCounts, TypeInv, TypeOK
  <2>3. QED
    BY <1>5, <2>1, <2>2, FinishTyped DEF TypeInv, TypeOK, SetCounts
<1> QED
  BY <1>1, <1>2, <1>3, <1>4, <1>5

(* Every step of every call keeps the types.                               *)
LEMMA NextTyped == TypeInv /\ [Next]_vars => TypeInv'
<1> SUFFICES ASSUME TypeInv, [Next]_vars PROVE TypeInv'
  OBVIOUS
<1>1. CASE UNCHANGED vars
  BY <1>1 DEF vars, counters, TypeInv, TypeOK
<1>2. ASSUME NEW c \in Calls, Deliver(c) PROVE TypeInv'
  BY <1>2, DeliverTyped
<1>3. ASSUME NEW c \in Calls, Request(c) PROVE TypeInv'
  BY <1>3, RequestStartsTyped, RequestStepsTyped DEF Request
<1>4. ASSUME NEW c \in Calls, ImapCommand(c) PROVE TypeInv'
  BY <1>4, ImapStartsTyped, ImapStepsTyped DEF ImapCommand
<1>5. ASSUME NEW c \in Calls, UidConflict(c) \/ CallFails(c) PROVE TypeInv'
  <2>1. Finish(c) /\ UNCHANGED <<row, counters, lastUid>>
    BY <1>5 DEF UidConflict, CallFails
  <2>2. QED
    BY <2>1, FinishTyped DEF TypeInv, TypeOK, counters
<1> QED
  BY <1>1, <1>2, <1>3, <1>4, <1>5 DEF Next

(* The types hold in every state.                                          *)
LEMMA AlwaysTyped == Spec => []TypeInv
BY InitTyped, NextTyped, PTL DEF Spec

(* Rows, counters and calls keep their types whatever operations run and   *)
(* overlap: no counter is driven below zero, although moves, expunges and  *)
(* flag changes write values computed from stale reads.                    *)
THEOREM TypeCorrect == Spec => []TypeOK
<1>1. TypeInv => TypeOK
  BY DEF TypeInv
<1> QED BY <1>1, AlwaysTyped, PTL

-----------------------------------------------------------------------------
(***************************************************************************)
(* When every operation updates uid_next relatively, calls may overlap in  *)
(* any number.                                                             *)
(***************************************************************************)
RelativeOnly == Ops \cap AbsoluteUids = {}

(* A step that adds no message and begins no delivery.                     *)
Harmless ==
    /\ UNCHANGED uidNext
    /\ \A i \in Ids :
          \/ row'[i].box \notin Mailboxes
          \/ /\ row'[i].box = row[i].box
             /\ row'[i].uid = row[i].uid
             /\ row'[i].mail = row[i].mail
    /\ \A c \in Calls :
          \/ call'[c] = call[c]
          \/ call'[c].op # "inbound" /\ call'[c].at \notin {"check", "insert"}

(* No call is then at a statement of a move, a COPY or an APPEND.          *)
LEMMA NoAbsoluteSteps ==
    ASSUME TypeInv, RelativeOnly, NEW c \in Calls
    PROVE  /\ call[c].at \notin {"target", "place", "count", "copyRead", "insertBack"}
           /\ call[c].op \notin AbsoluteUids
<1>1. call[c].op \in Ops \cup {"none"} /\ Ready(call[c])
  BY DEF TypeInv, TypeOK, Call
<1>2. call[c].op \notin AbsoluteUids
  BY <1>1 DEF RelativeOnly, AbsoluteUids
<1> QED
  BY <1>1, <1>2 DEF Ready, AbsoluteUids

(* A call that ends begins no delivery.                                    *)
LEMMA FinishHarmless ==
    ASSUME TypeInv, NEW c \in Calls, Finish(c), NEW d \in Calls
    PROVE  \/ call'[d] = call[d]
           \/ call'[d].op # "inbound" /\ call'[d].at \notin {"check", "insert"}
<1>1. Idle.op = "none" /\ Idle.at = "idle"
  BY DEF Idle
<1> QED
  BY <1>1 DEF Finish, TypeInv, TypeOK

(* Nor does one that goes on, if it is no delivery.                        *)
LEMMA StepHarmless ==
    ASSUME TypeInv, NEW c \in Calls, NEW at \in Steps \ {"check", "insert"},
           Step(c, at), call[c].at \notin {"check", "insert"}, NEW d \in Calls
    PROVE  \/ call'[d] = call[d]
           \/ call'[d].op # "inbound" /\ call'[d].at \notin {"check", "insert"}
BY DEF Step, TypeInv, TypeOK, Call, Ready

(* A DELETE leaves the other rows as they are.                             *)
LEMMA DeleteHarmless ==
    ASSUME TypeInv, NEW is, DeleteIds(is), NEW i \in Ids
    PROVE  \/ row'[i].box \notin Mailboxes
           \/ /\ row'[i].box = row[i].box
              /\ row'[i].uid = row[i].uid
              /\ row'[i].mail = row[i].mail
BY StoreAssumption DEF StoreAssumption, DeleteIds, Absent

(* Everything but a delivery is harmless.                                  *)
LEMMA StepKinds ==
    ASSUME TypeInv, RelativeOnly, [Next]_vars
    PROVE  \/ \E c \in Calls, op \in Deliveries, m \in Mails \cup {NoMail} :
                 ReadUidNext(c, op, m)
           \/ \E c \in Calls : CheckDuplicate(c) \/ CommitDelivery(c)
           \/ Harmless
<1>1. CASE UNCHANGED vars
  BY <1>1 DEF vars, counters, Harmless
<1>2. ASSUME NEW c \in Calls, UidConflict(c) \/ CallFails(c) PROVE Harmless
  <2>1. Finish(c) /\ UNCHANGED <<row, counters, lastUid>>
    BY <1>2 DEF UidConflict, CallFails
  <2>2. QED
    BY <2>1, FinishHarmless DEF Harmless, counters
<1>3. ASSUME NEW c \in Calls, Request(c) PROVE Harmless
  <2>1. ASSUME NEW i \in Ids, ReadDeletable(c, i) PROVE Harmless
    <3> DEFINE r == [Idle EXCEPT !.op = "hardDelete", !.at = "delete", !.id = i,
                                 !.from = row[i].box]
    <3>1. r.op = "hardDelete" /\ r.at = "delete"
      BY IdleTyped DEF Call
    <3>2. call' = [call EXCEPT ![c] = r]
      BY <2>1 DEF ReadDeletable, Start
    <3> HIDE DEF r
    <3>3. QED
      BY <2>1, <3>1, <3>2 DEF ReadDeletable, Harmless, counters, TypeInv, TypeOK
  <2>2. ASSUME NEW i \in Ids, NEW b \in Mailboxes, ReadMovable(c, i, b) PROVE Harmless
    <3> DEFINE r == [Idle EXCEPT !.op = "move", !.at = "target", !.id = i,
                                 !.from = row[i].box, !.to = b]
    <3>1. r.op = "move"
      BY IdleTyped DEF Call
    <3>2. Start(c, r)
      BY <2>2 DEF ReadMovable
    <3> HIDE DEF r
    <3>3. QED
      BY <3>1, <3>2 DEF Start, RelativeOnly, AbsoluteUids
  <2>3. ASSUME NEW i \in Ids, NEW fs \in SUBSET Flags, ReadFlags(c, i, fs) PROVE Harmless
    <3>1. PICK op \in {"flag", "store"} :
             Start(c, [Idle EXCEPT
                !.op = op, !.id = i, !.flags = fs,
                !.at = IF op = "flag" THEN "writeFlags" ELSE "storeFlags",
                !.unread = (IF "seen" \in row[i].flags THEN 1 ELSE 0)
                             - (IF "seen" \in fs THEN 1 ELSE 0)])
      BY <2>3 DEF ReadFlags
    <3> DEFINE a == IF op = "flag" THEN "writeFlags" ELSE "storeFlags"
               n == (IF "seen" \in row[i].flags THEN 1 ELSE 0)
                      - (IF "seen" \in fs THEN 1 ELSE 0)
               r == [Idle EXCEPT !.op = op, !.id = i, !.flags = fs, !.at = a,
                                 !.unread = n]
    <3>2. Start(c, r)
      BY <3>1
    <3>3. a \in {"writeFlags", "storeFlags"}
      OBVIOUS
    <3> HIDE DEF a, n
    <3>4. r.op = op /\ r.at = a
      BY IdleTyped DEF Call
    <3> HIDE DEF r
    <3>5. QED
      BY <2>3, <3>2, <3>3, <3>4
         DEF ReadFlags, Start, Harmless, counters, TypeInv, TypeOK
  <2>4. CASE DeleteRow(c)
    BY <2>4, StepHarmless, DeleteHarmless DEF DeleteRow, Harmless, counters, Steps
  <2>5. CASE ReadTarget(c) \/ PlaceRow(c) \/ CountRow(c)
    BY <2>5, NoAbsoluteSteps DEF ReadTarget, PlaceRow, CountRow
  <2>6. CASE UncountRow(c)
    <3>1. Finish(c)
      BY <2>6, NoAbsoluteSteps DEF UncountRow, AbsoluteUids
    <3>2. QED
      BY <2>6, <3>1, FinishHarmless DEF UncountRow, Harmless
  <2>7. CASE WriteFlags(c)
    <3>1. \A i \in Ids : /\ row'[i].box = row[i].box
                         /\ row'[i].uid = row[i].uid
                         /\ row'[i].mail = row[i].mail
      <4>1. call[c].flags \in SUBSET Flags /\ row \in [Ids -> Row]
        BY DEF TypeInv, TypeOK, Call
      <4>2. QED
        BY <2>7, <4>1 DEF WriteFlags, Row
    <3>2. CASE Step(c, "locate")
      BY <2>7, <3>1, <3>2, StepHarmless DEF WriteFlags, Harmless, counters, Steps
    <3>3. CASE Finish(c)
      BY <2>7, <3>1, <3>3, FinishHarmless DEF WriteFlags, Harmless, counters
    <3>4. QED
      BY <2>7, <3>2, <3>3 DEF WriteFlags
  <2>8. CASE LocateMailbox(c)
    <3> DEFINE s == [call[c] EXCEPT !.at = "unread", !.from = row[call[c].id].box]
    <3>1. CASE Finish(c)
      BY <2>8, <3>1, FinishHarmless DEF LocateMailbox, Harmless, counters
    <3>2. CASE call' = [call EXCEPT ![c] = s]
      <4>1. s.at = "unread" /\ s.op = call[c].op /\ call[c].op # "inbound"
        BY <2>8 DEF LocateMailbox, TypeInv, TypeOK, Call, Ready
      <4> HIDE DEF s
      <4>2. QED
        BY <2>8, <3>2, <4>1 DEF LocateMailbox, Harmless, counters, TypeInv, TypeOK
    <3>3. call' = [call EXCEPT ![c] = s] \/ Finish(c)
      BY <2>8 DEF LocateMailbox, TypeInv, TypeOK
    <3>4. QED
      BY <3>1, <3>2, <3>3
  <2>9. CASE AdjustUnread(c)
    BY <2>9, FinishHarmless DEF AdjustUnread, Harmless
  <2> QED
    BY <1>3, <2>1, <2>2, <2>3, <2>4, <2>5, <2>6, <2>7, <2>8, <2>9 DEF Request
<1>4. ASSUME NEW c \in Calls, ImapCommand(c) PROVE Harmless
  <2>1. ASSUME NEW i \in Ids, NEW b \in Mailboxes, ListForCopy(c, i, b) PROVE Harmless
    <3> DEFINE r == [Idle EXCEPT !.op = "copy", !.at = "copyRead", !.to = b,
                                 !.mail = row[i].mail, !.flags = row[i].flags]
    <3>1. r.op = "copy" /\ Start(c, r)
      BY <2>1, IdleTyped DEF ListForCopy, Call
    <3> HIDE DEF r
    <3>2. QED
      BY <3>1 DEF Start, RelativeOnly, AbsoluteUids
  <2>2. ASSUME NEW b \in Mailboxes, FindMailbox(c, b) PROVE Harmless
    <3> DEFINE r == [Idle EXCEPT !.op = "append", !.at = "insertBack", !.to = b,
                                 !.uid = uidNext[b], !.count = messageCount[b],
                                 !.unread = unreadCount[b]]
    <3>1. r.op = "append" /\ Start(c, r)
      BY <2>2, IdleTyped DEF FindMailbox, Call
    <3> HIDE DEF r
    <3>2. QED
      BY <3>1 DEF Start, RelativeOnly, AbsoluteUids
  <2>3. ASSUME NEW b \in Mailboxes, ListForExpunge(c, b) PROVE Harmless
    <3> DEFINE is == Flagged(b)
               m == Cardinality(Rows(b) \ Flagged(b))
               n == Cardinality(Unseen(Rows(b) \ Flagged(b)))
               r == [Idle EXCEPT !.op = "expunge", !.at = "expunge", !.from = b,
                                 !.ids = is, !.count = m, !.unread = n]
    <3>1. Start(c, r)
      BY <2>3 DEF ListForExpunge
    <3> HIDE DEF is, m, n
    <3>2. r.op = "expunge" /\ r.at = "expunge"
      BY IdleTyped DEF Call
    <3> HIDE DEF r
    <3>3. QED
      BY <2>3, <3>1, <3>2 DEF ListForExpunge, Start, Harmless, counters, TypeInv, TypeOK
  <2>4. ASSUME NEW b \in Mailboxes, CloseMailbox(c, b) PROVE Harmless
    <3> DEFINE r == [Idle EXCEPT !.op = "close", !.at = "closeList", !.from = b]
    <3>1. r.op = "close" /\ r.at = "closeList" /\ Start(c, r)
      BY <2>4, IdleTyped DEF CloseMailbox, Call
    <3> HIDE DEF r
    <3>2. QED
      BY <2>4, <3>1, DeleteHarmless
         DEF CloseMailbox, Start, Harmless, counters, TypeInv, TypeOK
  <2>5. CASE ReadDestination(c) \/ CommitBack(c)
    BY <2>5, NoAbsoluteSteps DEF ReadDestination, CommitBack
  <2>6. CASE ExpungeRows(c)
    BY <2>6, StepHarmless, DeleteHarmless DEF ExpungeRows, Harmless, counters, Steps
  <2>7. CASE ListRemaining(c)
    <3> DEFINE m == Cardinality(Rows(call[c].from))
               n == Cardinality(Unseen(Rows(call[c].from)))
               s == [call[c] EXCEPT !.at = "setCounts", !.count = m, !.unread = n]
    <3>1. call' = [call EXCEPT ![c] = s]
      BY <2>7 DEF ListRemaining
    <3> HIDE DEF m, n
    <3>2. s.at = "setCounts" /\ s.op = call[c].op /\ call[c].op # "inbound"
      BY <2>7 DEF ListRemaining, TypeInv, TypeOK, Call, Ready
    <3> HIDE DEF s
    <3>3. QED
      BY <2>7, <3>1, <3>2 DEF ListRemaining, Harmless, counters, TypeInv, TypeOK
  <2>8. CASE SetCounts(c)
    BY <2>8, FinishHarmless DEF SetCounts, Harmless
  <2> QED
    BY <1>4, <2>1, <2>2, <2>3, <2>4, <2>5, <2>6, <2>7, <2>8 DEF ImapCommand
<1> QED
  BY <1>1, <1>2, <1>3, <1>4 DEF Next, Deliver

-----------------------------------------------------------------------------
(* UIDs in use, and those that deliveries have read, are not above uidNext. *)
UidInv ==
    /\ \A i \in Ids : row[i].box \in Mailboxes => row[i].uid < uidNext[row[i].box]
    /\ \A c \in Calls : call[c].at \in {"check", "insert"}
                        => call[c].uid <= uidNext[call[c].to]

(* Every step keeps UidInv and lets uidNext grow at most.                  *)
LEMMA UidStep ==
    ASSUME TypeInv, RelativeOnly, UidInv, [Next]_vars
    PROVE  UidInv' /\ \A b \in Mailboxes : uidNext[b] <= uidNext'[b]
<1>0. /\ uidNext \in [Mailboxes -> Nat] /\ row \in [Ids -> Row] /\ call \in [Calls -> Call]
      /\ \A c \in Calls : Ready(call[c]) /\ call[c] \in Call
      /\ \A i \in Ids : row[i].uid \in Nat
  BY DEF TypeInv, TypeOK, Row
<1>1. CASE Harmless
  <2>1. uidNext' = uidNext
    BY <1>1 DEF Harmless
  <2>2. \A i \in Ids : row'[i].box \in Mailboxes => row'[i].uid < uidNext[row'[i].box]
    BY <1>1 DEF Harmless, UidInv
  <2>3. \A c \in Calls : call'[c].at \in {"check", "insert"}
                         => call'[c].uid <= uidNext[call'[c].to]
    BY <1>1 DEF Harmless, UidInv
  <2>4. QED
    BY <1>0, <2>1, <2>2, <2>3 DEF UidInv
<1>2. ASSUME NEW c \in Calls, NEW op \in Deliveries, NEW m \in Mails \cup {NoMail},
             ReadUidNext(c, op, m)
      PROVE  UidInv' /\ \A b \in Mailboxes : uidNext[b] <= uidNext'[b]
  <2> DEFINE a == IF op = "inbound" THEN "check" ELSE "insert"
             t == Target(op)
             u == uidNext[t]
             r == [Idle EXCEPT !.op = op, !.mail = m, !.to = t, !.at = a, !.uid = u]
  <2>1. call' = [call EXCEPT ![c] = r] /\ UNCHANGED <<row, uidNext>> /\ t \in Mailboxes
    BY <1>2 DEF ReadUidNext, Start, counters
  <2>2. u \in Nat /\ u <= uidNext[t]
    BY <1>0, <2>1
  <2> HIDE DEF a, t, u
  <2>3. r.to = t /\ r.uid = u
    BY IdleTyped DEF Call
  <2> HIDE DEF r
  <2>4. QED
    BY <1>0, <2>1, <2>2, <2>3 DEF UidInv
<1>3. ASSUME NEW c \in Calls, CheckDuplicate(c)
      PROVE  UidInv' /\ \A b \in Mailboxes : uidNext[b] <= uidNext'[b]
  <2>1. \A d \in Calls : call'[d].at \in {"check", "insert"}
            => /\ call[d].at \in {"check", "insert"}
               /\ call'[d].uid = call[d].uid /\ call'[d].to = call[d].to
    BY <1>0, <1>3 DEF CheckDuplicate, Finish, Step, Idle, Call
  <2>2. UNCHANGED <<row, uidNext>>
    BY <1>3 DEF CheckDuplicate, counters
  <2>3. QED
    BY <1>0, <2>1, <2>2 DEF UidInv
<1>4. ASSUME NEW c \in Calls, CommitDelivery(c)
      PROVE  UidInv' /\ \A b \in Mailboxes : uidNext[b] <= uidNext'[b]
  <2> DEFINE t == call[c].to
             u == call[c].uid
  <2>1. t \in Mailboxes /\ u \in Nat /\ u <= uidNext[t]
    BY <1>0, <1>4 DEF CommitDelivery, Ready, UidInv, Call
  <2>2. \A b \in Mailboxes : uidNext'[b] = IF b = t THEN uidNext[b] + 1 ELSE uidNext[b]
    BY <1>0, <1>4 DEF CommitDelivery
  <2>3. \A i \in Ids : \/ row'[i] = row[i]
                       \/ row'[i].box = t /\ row'[i].uid = u
    BY <1>0, <1>4 DEF CommitDelivery, Insert, Rows
  <2>4. \A d \in Calls : call'[d].at \in {"check", "insert"} => call'[d] = call[d]
    BY <1>0, <1>4 DEF CommitDelivery, Finish, Idle
  <2> HIDE DEF t, u
  <2>5. \A b \in Mailboxes : uidNext[b] <= uidNext'[b]
    BY <1>0, <2>2
  <2>6. ASSUME NEW i \in Ids, row'[i].box \in Mailboxes
        PROVE  row'[i].uid < uidNext'[row'[i].box]
    BY <1>0, <2>1, <2>2, <2>3, <2>6 DEF UidInv
  <2>7. ASSUME NEW d \in Calls, call'[d].at \in {"check", "insert"}
        PROVE  call'[d].uid <= uidNext'[call'[d].to]
    <3>1. call'[d] = call[d] /\ call[d].to \in Mailboxes /\ call[d].uid \in Nat
          /\ call[d].uid <= uidNext[call[d].to]
      BY <1>0, <2>4, <2>7 DEF Ready, Call, UidInv
    <3>2. QED
      BY <1>0, <2>2, <3>1
  <2>8. QED
    BY <2>5, <2>6, <2>7 DEF UidInv
<1> QED
  BY <1>1, <1>2, <1>3, <1>4, StepKinds

(* Nothing is in use at first.                                             *)
LEMMA UidInit == Init => UidInv
BY StoreAssumption DEF StoreAssumption, Init, UidInv, Absent, Idle

(* UidInv holds in every state.                                            *)
LEMMA AlwaysUid == ASSUME RelativeOnly PROVE Spec => []UidInv
<1>1. TypeInv /\ UidInv /\ [Next]_vars => UidInv'
  BY UidStep
<1> QED
  BY UidInit, AlwaysTyped, <1>1, PTL DEF Spec

(* While deliveries, bounces, sends, drafts, deletes, changes of flags and *)
(* expunges overlap in any number, uidNext stays above every UID in use:   *)
(* no later message is refused by the unique index for good.               *)
THEOREM UidsStayBelow == ASSUME RelativeOnly PROVE Spec => []UidsBelowNext
<1>1. UidInv => UidsBelowNext
  BY DEF UidInv, UidsBelowNext, Rows
<1> QED
  BY <1>1, AlwaysUid, PTL

(* Nor does uidNext ever step back, whichever of those calls fail.         *)
THEOREM UidNextGrows == ASSUME RelativeOnly PROVE Spec => NextOnlyGrows
<1>1. TypeInv /\ UidInv /\ [Next]_vars
        => [\A b \in Mailboxes : uidNext[b] <= uidNext'[b]]_vars
  BY UidStep
<1> QED
  BY <1>1, AlwaysTyped, AlwaysUid, PTL DEF Spec, NextOnlyGrows

-----------------------------------------------------------------------------
(* No two rows of the inbox are of one mail.                               *)
OneRowPerMail ==
    \A i, j \in Rows("inbox") :
        (row[i].mail = row[j].mail /\ row[i].mail # NoMail) => i = j

(* One inbound job at a time has looked its mail up, or is about to.       *)
MailInv ==
    /\ OneRowPerMail
    /\ \A c, d \in Calls : (call[c].op = "inbound" /\ call[d].op = "inbound") => c = d
    /\ \A c \in Calls :
          /\ (call[c].at \in {"check", "insert"} /\ call[c].op # "inbound")
                => call[c].mail = NoMail
          /\ call[c].op = "inbound" => call[c].mail # NoMail
          /\ (call[c].op = "inbound" /\ call[c].at = "insert")
                => \A i \in Rows("inbox") : row[i].mail # call[c].mail

(* Every step keeps MailInv.                                               *)
LEMMA MailStep ==
    ASSUME TypeInv, RelativeOnly, MailInv, [Next]_vars
    PROVE  MailInv'
<1>0. /\ row \in [Ids -> Row] /\ call \in [Calls -> Call]
      /\ \A c \in Calls : Ready(call[c]) /\ call[c] \in Call
  BY DEF TypeInv, TypeOK
<1>1. CASE Harmless
  <2>1. \A i \in Ids : row'[i].box = "inbox" /\ "inbox" \in Mailboxes
           => row[i].box = "inbox" /\ row'[i].mail = row[i].mail
    BY <1>1 DEF Harmless
  <2>2. "inbox" \in Mailboxes \/ ~ \E i \in Ids : row'[i].box = "inbox"
    BY NextTyped, StoreAssumption DEF TypeInv, TypeOK, Row, Boxes
  <2>3. \A c \in Calls :
           \/ call'[c] = call[c]
           \/ call'[c].op # "inbound" /\ call'[c].at \notin {"check", "insert"}
    BY <1>1 DEF Harmless
  <2>4. OneRowPerMail'
    BY <2>1, <2>2 DEF MailInv, OneRowPerMail, Rows
  <2>5. \A c, d \in Calls : (call'[c].op = "inbound" /\ call'[d].op = "inbound") => c = d
    BY <2>3 DEF MailInv
  <2>6. ASSUME NEW c \in Calls
        PROVE  /\ (call'[c].at \in {"check", "insert"} /\ call'[c].op # "inbound")
                     => call'[c].mail = NoMail
               /\ call'[c].op = "inbound" => call'[c].mail # NoMail
               /\ (call'[c].op = "inbound" /\ call'[c].at = "insert")
                     => \A i \in Ids : row'[i].box = "inbox" => row'[i].mail # call'[c].mail
    BY <2>1, <2>2, <2>3 DEF MailInv, Rows
  <2>7. QED
    BY <2>4, <2>5, <2>6 DEF MailInv, Rows
<1>2. ASSUME NEW c \in Calls, NEW op \in Deliveries, NEW m \in Mails \cup {NoMail},
             ReadUidNext(c, op, m)
      PROVE  MailInv'
  <2> DEFINE a == IF op = "inbound" THEN "check" ELSE "insert"
             t == Target(op)
             u == uidNext[t]
             r == [Idle EXCEPT !.op = op, !.mail = m, !.to = t, !.at = a, !.uid = u]
  <2>1. /\ call' = [call EXCEPT ![c] = r] /\ UNCHANGED row
        /\ (m = NoMail) <=> (op # "inbound")
        /\ op = "inbound" => \A d \in Calls : call[d].op # "inbound"
    BY <1>2 DEF ReadUidNext, Start, counters
  <2>2. op = "inbound" => a = "check"
    OBVIOUS
  <2> HIDE DEF a, t, u
  <2>3. r.op = op /\ r.mail = m /\ r.at = a
    BY IdleTyped DEF Call
  <2> HIDE DEF r
  <2>4. \A d \in Calls : call'[d] = IF d = c THEN r ELSE call[d]
    BY <1>0, <2>1
  <2>5. \A d, e \in Calls : (call'[d].op = "inbound" /\ call'[e].op = "inbound") => d = e
    BY <2>1, <2>3, <2>4 DEF MailInv
  <2>6. \A d \in Calls :
          /\ (call'[d].at \in {"check", "insert"} /\ call'[d].op # "inbound")
                => call'[d].mail = NoMail
          /\ call'[d].op = "inbound" => call'[d].mail # NoMail
          /\ (call'[d].op = "inbound" /\ call'[d].at = "insert")
                => \A i \in Rows("inbox") : row[i].mail # call'[d].mail
    BY <2>1, <2>2, <2>3, <2>4 DEF MailInv
  <2>7. QED
    BY <2>1, <2>5, <2>6 DEF MailInv, OneRowPerMail, Rows
<1>3. ASSUME NEW c \in Calls, CheckDuplicate(c)
      PROVE  MailInv'
  <2>1. UNCHANGED row
    BY <1>3 DEF CheckDuplicate
  <2>2. CASE Finish(c)
    <3>1. \A d \in Calls : \/ call'[d] = call[d]
                           \/ call'[d].op = "none" /\ call'[d].at = "idle"
      BY <1>0, <2>2 DEF Finish, Idle
    <3>2. \A d, e \in Calls : (call'[d].op = "inbound" /\ call'[e].op = "inbound") => d = e
      BY <3>1 DEF MailInv
    <3>3. \A d \in Calls :
            /\ (call'[d].at \in {"check", "insert"} /\ call'[d].op # "inbound")
                  => call'[d].mail = NoMail
            /\ call'[d].op = "inbound" => call'[d].mail # NoMail
            /\ (call'[d].op = "inbound" /\ call'[d].at = "insert")
                  => \A i \in Rows("inbox") : row[i].mail # call'[d].mail
      BY <3>1 DEF MailInv
    <3>4. QED
      BY <2>1, <3>2, <3>3 DEF MailInv, OneRowPerMail, Rows
  <2>3. CASE Step(c, "insert") /\ ~ \E i \in Rows(call[c].to) : row[i].mail = call[c].mail
    <3>1. \A d \in Calls : call'[d].op = call[d].op /\ call'[d].mail = call[d].mail
                           /\ (d # c => call'[d] = call[d])
      BY <1>0, <2>3 DEF Step, Call
    <3>2. call[c].at = "check" /\ (call[c].op = "inbound" => call[c].to = "inbox")
      BY <1>0, <1>3 DEF CheckDuplicate, Ready
    <3>3. \A d, e \in Calls : (call'[d].op = "inbound" /\ call'[e].op = "inbound") => d = e
      BY <3>1 DEF MailInv
    <3>4. \A d \in Calls :
            /\ (call'[d].at \in {"check", "insert"} /\ call'[d].op # "inbound")
                  => call'[d].mail = NoMail
            /\ call'[d].op = "inbound" => call'[d].mail # NoMail
            /\ (call'[d].op = "inbound" /\ call'[d].at = "insert")
                  => \A i \in Rows("inbox") : row[i].mail # call'[d].mail
      BY <2>3, <3>1, <3>2 DEF MailInv
    <3>5. QED
      BY <2>1, <3>3, <3>4 DEF MailInv, OneRowPerMail, Rows
  <2>4. QED
    BY <1>3, <2>2, <2>3 DEF CheckDuplicate
<1>4. ASSUME NEW c \in Calls, CommitDelivery(c)
      PROVE  MailInv'
  <2> DEFINE m == call[c].mail
  <2>1. PICK n \in Ids : /\ row[n].box = "new"
                         /\ row'[n].box = call[c].to /\ row'[n].mail = m
                         /\ \A i \in Ids \ {n} : row'[i] = row[i]
    BY <1>0, <1>4 DEF CommitDelivery, Insert, Rows
  <2>2. \A d \in Calls : /\ d # c => call'[d] = call[d]
                         /\ call'[c].op = "none" /\ call'[c].at = "idle"
    BY <1>0, <1>4 DEF CommitDelivery, Finish, Idle
  <2>3. m = NoMail \/ call[c].op = "inbound"
    BY <1>4 DEF CommitDelivery, MailInv
  <2>4. \A i \in Rows("inbox") : m # NoMail => row[i].mail # m
    BY <1>4, <2>3 DEF CommitDelivery, MailInv
  <2>5. OneRowPerMail'
    BY <2>1, <2>4 DEF MailInv, OneRowPerMail, Rows
  <2>6. \A d, e \in Calls : (call'[d].op = "inbound" /\ call'[e].op = "inbound") => d = e
    BY <2>2 DEF MailInv
  <2>7. ASSUME NEW d \in Calls, call'[d].op = "inbound", call'[d].at = "insert",
               NEW i \in Ids, row'[i].box = "inbox"
        PROVE  row'[i].mail # call'[d].mail
    <3>1. d # c /\ call'[d] = call[d]
      BY <2>2, <2>7
    <3>2. call[c].op # "inbound" /\ m = NoMail
      BY <2>3, <2>7, <3>1 DEF MailInv
    <3>3. call[d].mail # NoMail
      BY <1>0, <2>7, <3>1 DEF MailInv
    <3>4. QED
      BY <2>1, <2>7, <3>1, <3>2, <3>3 DEF MailInv, Rows
  <2>8. \A d \in Calls :
          /\ (call'[d].at \in {"check", "insert"} /\ call'[d].op # "inbound")
                => call'[d].mail = NoMail
          /\ call'[d].op = "inbound" => call'[d].mail # NoMail
    BY <2>2 DEF MailInv
  <2>9. QED
    BY <2>5, <2>6, <2>7, <2>8 DEF MailInv, Rows
<1> QED
  BY <1>1, <1>2, <1>3, <1>4, StepKinds

(* No mail is stored at first.                                             *)
LEMMA MailInit == Init => MailInv
BY StoreAssumption
   DEF StoreAssumption, Init, MailInv, OneRowPerMail, Rows, Absent, Idle

(* A mail that is sent or processed again is in the inbox once, although   *)
(* no index holds it and bounces, expunges and changes of flags overlap:   *)
(* what the worker found at its check stands when it stores, so that two   *)
(* rows are never of one mail.                                             *)
THEOREM StoredOnce == ASSUME RelativeOnly PROVE Spec => [](OneCopyPerMail /\ OneRowPerMail)
<1>1. TypeInv /\ MailInv /\ [Next]_vars => MailInv'
  BY MailStep
<1>2. MailInv => OneCopyPerMail /\ OneRowPerMail
  BY DEF MailInv, OneCopyPerMail
<1> QED
  BY MailInit, AlwaysTyped, <1>1, <1>2, PTL DEF Spec

-----------------------------------------------------------------------------
(***************************************************************************)
(* Calls that come one at a time, of all the operations: message_count and *)
(* the order of UIDs.                                                      *)
(***************************************************************************)

(* The call under way, or none.                                            *)
Current(f) ==
    IF \E c \in Calls : f[c] # Idle THEN f[CHOOSE c \in Calls : f[c] # Idle] ELSE Idle

OneAtATime == \A c, d \in Calls : call[c] # Idle /\ call[d] # Idle => c = d

(* UIDs name rows, and lastUid bounds them.                                *)
UidsName(b) ==
    /\ \A i \in Rows(b) : row[i].uid <= lastUid[b]
    /\ \A i, j \in Rows(b) : row[i].uid = row[j].uid => i = j

Counted(b) == messageCount[b] = Cardinality(Rows(b))

(* Mailboxes whose message_count r has still to write: it has changed the  *)
(* rows before.                                                            *)
Owed(r) ==
    (IF r.at \in {"uncount", "closeList", "setCounts"} THEN {r.from} ELSE {})
        \cup (IF r.at \in {"uncount", "count"} /\ r.op = "move" THEN {r.to} ELSE {})

(* A move has given b a UID and not yet advanced uidNext.                  *)
Given(r, b) == r.at \in {"uncount", "count"} /\ r.op = "move" /\ r.to = b

(* What r has read is still so, and what it writes makes up for what it    *)
(* has done.                                                               *)
Informed(r) ==
    /\ r.at \in {"check", "insert", "place", "insertBack"} => r.uid = uidNext[r.to]
    /\ r.at = "insertBack" => r.count = messageCount[r.to]
    /\ r.at \in {"delete", "target", "place"} => row[r.id].box = r.from
    /\ r.at = "delete" => r.op = "hardDelete"
    /\ r.at \in {"target", "place", "uncount", "count"} /\ r.op = "move" => r.from # r.to
    /\ r.at = "expunge" => /\ r.ids = Flagged(r.from)
                           /\ r.count = Cardinality(Rows(r.from) \ r.ids)
    /\ r.at = "setCounts" => r.count = Cardinality(Rows(r.from))
    /\ r.at = "uncount" => messageCount[r.from] = Cardinality(Rows(r.from)) + 1
    /\ r.at \in {"uncount", "count"} /\ r.op = "move" =>
          /\ messageCount[r.to] + 1 = Cardinality(Rows(r.to))
          /\ lastUid[r.to] = r.uid

StoreIs(r) ==
    /\ \A b \in Mailboxes : UidsName(b)
    /\ \A b \in Mailboxes : lastUid[b] < uidNext[b] \/ Given(r, b)
    /\ \A b \in Mailboxes \ Owed(r) : Counted(b)
    /\ Informed(r)

AloneInv == OneAtATime /\ StoreIs(Current(call))

(* The store seen through its rows.                                        *)
RowUids == [b \in Mailboxes |-> {row[i].uid : i \in Rows(b)}]

Store == INSTANCE MailboxUids WITH present <- RowUids, top <- lastUid

(* The rows of a mailbox are finitely many.                                *)
LEMMA RowsFinite ==
    ASSUME NEW b
    PROVE  /\ Rows(b) \subseteq Ids
           /\ IsFiniteSet(Rows(b))
           /\ Cardinality(Rows(b)) \in Nat
<1>1. Rows(b) \in SUBSET Ids
  BY DEF Rows
<1>2. QED
  BY <1>1, StoreAssumption, FS_Subset, FS_CardinalityType DEF StoreAssumption

(* A step that leaves the rows where they are.                             *)
LEMMA RowsSame ==
    ASSUME TypeInv, TypeInv', \A b \in Mailboxes : UidsName(b),
           \A i \in Ids : row'[i].box = row[i].box /\ row'[i].uid = row[i].uid,
           UNCHANGED lastUid
    PROVE  /\ \A b \in Mailboxes : {i \in Ids : row'[i].box = b} = Rows(b)
           /\ \A b \in Mailboxes : UidsName(b)'
           /\ UNCHANGED <<RowUids, lastUid>>
<1>1. \A b \in Mailboxes : {i \in Ids : row'[i].box = b} = Rows(b)
  BY DEF Rows
<1>2. \A b \in Mailboxes : UidsName(b)'
  BY <1>1 DEF UidsName, Rows
<1>3. \A b \in Mailboxes : {row'[i].uid : i \in Rows(b)'} = {row[i].uid : i \in Rows(b)}
  BY <1>1 DEF Rows
<1>4. RowUids' = RowUids
  BY <1>3 DEF RowUids
<1>5. QED
  BY <1>1, <1>2, <1>4

(* A new row, with a UID above all that were given before.                 *)
LEMMA RowInserted ==
    ASSUME TypeInv, TypeInv', \A a \in Mailboxes : UidsName(a),
           NEW b \in Mailboxes, NEW u \in Nat, NEW m, NEW fs,
           Insert(b, u, m, fs), lastUid[b] < u
    PROVE  /\ \A a \in Mailboxes \ {b} : {i \in Ids : row'[i].box = a} = Rows(a)
           /\ Cardinality({i \in Ids : row'[i].box = b}) = Cardinality(Rows(b)) + 1
           /\ \A a \in Mailboxes : UidsName(a)'
           /\ lastUid' = [lastUid EXCEPT ![b] = u]
           /\ Store!Next
<1>1. /\ row \in [Ids -> Row] /\ lastUid \in [Mailboxes -> Nat]
      /\ \A i \in Ids : row[i].uid \in Nat
      /\ "new" \notin Mailboxes
  BY StoreAssumption DEF StoreAssumption, TypeInv, TypeOK, Row
<1>2. PICK i \in Rows("new") :
         row' = [row EXCEPT ![i] = [box |-> b, uid |-> u, mail |-> m, flags |-> fs]]
  BY DEF Insert
<1>3. i \in Ids /\ row[i].box = "new"
  BY <1>2 DEF Rows
<1>4. /\ row'[i].box = b /\ row'[i].uid = u
      /\ \A j \in Ids \ {i} : row'[j] = row[j]
  BY <1>1, <1>2, <1>3
<1>5. lastUid' = [lastUid EXCEPT ![b] = u]
  BY <1>1 DEF Insert, Higher
<1>6. \A a \in Mailboxes \ {b} : {j \in Ids : row'[j].box = a} = Rows(a)
  BY <1>1, <1>3, <1>4 DEF Rows
<1>7. {j \in Ids : row'[j].box = b} = Rows(b) \cup {i} /\ i \notin Rows(b)
  BY <1>1, <1>3, <1>4 DEF Rows
<1>8. Cardinality(Rows(b) \cup {i}) = Cardinality(Rows(b)) + 1
  BY <1>7, RowsFinite, FS_AddElement
<1>9. \A j \in Rows(b) : row[j].uid <= lastUid[b] /\ row[j].uid # u
  BY <1>1, RowsFinite DEF UidsName
<1>10. UidsName(b)'
  <2>1. lastUid'[b] = u
    BY <1>1, <1>5
  <2>2. \A j \in Rows(b)' : (j = i /\ row'[j].uid = u)
                             \/ (j \in Rows(b) /\ row'[j].uid = row[j].uid)
    BY <1>4, <1>7 DEF Rows
  <2>3. \A j \in Rows(b)' : row'[j].uid <= lastUid'[b]
    BY <1>1, <1>9, <2>1, <2>2, RowsFinite
  <2>4. \A j, k \in Rows(b)' : row'[j].uid = row'[k].uid => j = k
    BY <1>9, <2>2 DEF UidsName
  <2>5. QED
    BY <2>3, <2>4, Zenon DEF UidsName
<1>11. ASSUME NEW a \in Mailboxes \ {b} PROVE UidsName(a)'
  <2>1. Rows(a)' = Rows(a) /\ \A j \in Rows(a) : row'[j].uid = row[j].uid
    BY <1>1, <1>3, <1>4, <1>6 DEF Rows
  <2>2. lastUid'[a] = lastUid[a]
    BY <1>1, <1>5
  <2>3. QED
    BY <2>1, <2>2 DEF UidsName
<1>12. RowUids' = [RowUids EXCEPT ![b] = @ \cup {u}]
  <2>1. {row'[j].uid : j \in Rows(b)'} = {row[j].uid : j \in Rows(b)} \cup {u}
    <3>1. Rows(b)' = Rows(b) \cup {i}
      BY <1>7 DEF Rows
    <3>2. \A j \in Rows(b) : row'[j].uid = row[j].uid
      BY <1>4, <1>7, RowsFinite
    <3>3. row'[i].uid = u
      BY <1>4
    <3>4. \A j \in Rows(b)' : row'[j].uid \in {row[k].uid : k \in Rows(b)} \cup {u}
      BY <3>1, <3>2, <3>3
    <3>5. \A j \in Rows(b) : row[j].uid \in {row'[k].uid : k \in Rows(b)'}
      BY <3>1, <3>2
    <3>6. u \in {row'[k].uid : k \in Rows(b)'}
      BY <3>1, <3>3
    <3>7. QED
      BY <3>4, <3>5, <3>6
  <2>2. \A a \in Mailboxes \ {b} : {row'[j].uid : j \in Rows(a)'} = {row[j].uid : j \in Rows(a)}
    BY <1>1, <1>3, <1>4, <1>6 DEF Rows
  <2>3. QED
    BY <2>1, <2>2 DEF RowUids
<1>13. Store!Append(b)
  <2>1. lastUid'[b] = u
    BY <1>1, <1>5
  <2>2. QED
    BY <1>1, <1>5, <1>12, <2>1 DEF Store!Append, Store!TakeUid
<1>14. QED
  BY <1>5, <1>6, <1>7, <1>8, <1>10, <1>11, <1>13 DEF Store!Next

(* Rows of one mailbox are deleted.                                        *)
LEMMA RowsDeleted ==
    ASSUME TypeInv, TypeInv', \A a \in Mailboxes : UidsName(a),
           NEW b \in Mailboxes, NEW is \in SUBSET Rows(b), DeleteIds(is),
           UNCHANGED lastUid
    PROVE  /\ \A a \in Mailboxes \ {b} : {i \in Ids : row'[i].box = a} = Rows(a)
           /\ {i \in Ids : row'[i].box = b} = Rows(b) \ is
           /\ \A a \in Mailboxes : UidsName(a)'
           /\ Store!Next
<1>1. "gone" \notin Mailboxes
  BY StoreAssumption DEF StoreAssumption
<1>2. \A i \in Ids : IF i \in is THEN row'[i].box = "gone" /\ row[i].box = b
                                 ELSE row'[i] = row[i]
  BY DEF DeleteIds, Rows, Absent
<1>3. \A a \in Mailboxes \ {b} : {i \in Ids : row'[i].box = a} = Rows(a)
  BY <1>1, <1>2 DEF Rows
<1>4. {i \in Ids : row'[i].box = b} = Rows(b) \ is
  BY <1>1, <1>2 DEF Rows
<1>5. ASSUME NEW a \in Mailboxes
      PROVE  /\ Rows(a)' \subseteq Rows(a)
             /\ \A i \in Rows(a)' : row'[i].uid = row[i].uid
             /\ a # b => Rows(a)' = Rows(a)
  BY <1>1, <1>2 DEF Rows
<1>6. \A a \in Mailboxes : UidsName(a)'
  BY <1>5 DEF UidsName
<1>7. {row'[i].uid : i \in Rows(b)'} \subseteq {row[i].uid : i \in Rows(b)}
  BY <1>5
<1>8. \A a \in Mailboxes \ {b} : {row'[i].uid : i \in Rows(a)'} = {row[i].uid : i \in Rows(a)}
  BY <1>5
<1>9. Store!Remove(b)
  <2>1. RowUids'[b] \subseteq RowUids[b]
    BY <1>7 DEF RowUids
  <2>2. RowUids' = [RowUids EXCEPT ![b] = RowUids'[b]]
    BY <1>8 DEF RowUids
  <2>3. QED
    BY <2>1, <2>2 DEF Store!Remove
<1>10. QED
  BY <1>3, <1>4, <1>6, <1>9 DEF Store!Next

(* A row goes to another mailbox, where it gets a new UID.                 *)
LEMMA RowMoved ==
    ASSUME TypeInv, TypeInv', \A a \in Mailboxes : UidsName(a),
           NEW a \in Mailboxes, NEW b \in Mailboxes \ {a}, NEW i \in Rows(a),
           NEW u \in Nat, lastUid[b] < u,
           row' = [row EXCEPT ![i].box = b, ![i].uid = u],
           lastUid' = [lastUid EXCEPT ![b] = Higher(@, u)]
    PROVE  /\ \A d \in Mailboxes \ {a, b} : {j \in Ids : row'[j].box = d} = Rows(d)
           /\ Cardinality({j \in Ids : row'[j].box = a}) + 1 = Cardinality(Rows(a))
           /\ Cardinality({j \in Ids : row'[j].box = b}) = Cardinality(Rows(b)) + 1
           /\ \A d \in Mailboxes : UidsName(d)'
           /\ lastUid' = [lastUid EXCEPT ![b] = u]
           /\ Store!Next
<1>1. /\ row \in [Ids -> Row] /\ lastUid \in [Mailboxes -> Nat]
      /\ \A j \in Ids : row[j].uid \in Nat
  BY DEF TypeInv, TypeOK, Row
<1>2. i \in Ids /\ row[i].box = a
  BY DEF Rows
<1>3. /\ row'[i].box = b /\ row'[i].uid = u
      /\ \A j \in Ids \ {i} : row'[j] = row[j]
  BY <1>1, <1>2 DEF Row
<1>4. lastUid' = [lastUid EXCEPT ![b] = u]
  BY <1>1 DEF Higher
<1>5. \A d \in Mailboxes \ {a, b} : {j \in Ids : row'[j].box = d} = Rows(d)
  BY <1>2, <1>3 DEF Rows
<1>6. {j \in Ids : row'[j].box = a} = Rows(a) \ {i}
  BY <1>2, <1>3 DEF Rows
<1>7. {j \in Ids : row'[j].box = b} = Rows(b) \cup {i} /\ i \notin Rows(b)
  BY <1>2, <1>3 DEF Rows
<1>8. Cardinality(Rows(a) \ {i}) + 1 = Cardinality(Rows(a))
  <2>1. Cardinality(Rows(a) \ {i}) = Cardinality(Rows(a)) - 1
    BY RowsFinite, FS_RemoveElement
  <2>2. QED
    BY <2>1, RowsFinite
<1>9. Cardinality(Rows(b) \cup {i}) = Cardinality(Rows(b)) + 1
  BY <1>7, RowsFinite, FS_AddElement
<1>10. \A j \in Rows(b) : row[j].uid <= lastUid[b] /\ row[j].uid # u
  BY <1>1, RowsFinite DEF UidsName
<1>11. UidsName(b)'
  <2>1. lastUid'[b] = u
    BY <1>1, <1>4
  <2>2. \A j \in Rows(b)' : (j = i /\ row'[j].uid = u)
                             \/ (j \in Rows(b) /\ row'[j].uid = row[j].uid)
    BY <1>3, <1>7 DEF Rows
  <2>3. \A j \in Rows(b)' : row'[j].uid <= lastUid'[b]
    BY <1>1, <1>10, <2>1, <2>2, RowsFinite
  <2>4. \A j, k \in Rows(b)' : row'[j].uid = row'[k].uid => j = k
    BY <1>10, <2>2 DEF UidsName
  <2>5. QED
    BY <2>3, <2>4, Zenon DEF UidsName
<1>12. ASSUME NEW d \in Mailboxes \ {b} PROVE UidsName(d)'
  <2>1. Rows(d)' \subseteq Rows(d) /\ \A j \in Rows(d)' : row'[j].uid = row[j].uid
    BY <1>2, <1>3 DEF Rows
  <2>2. lastUid'[d] = lastUid[d]
    BY <1>1, <1>4
  <2>3. \A j \in Rows(d)' : row'[j].uid <= lastUid'[d]
    BY <2>1, <2>2 DEF UidsName
  <2>4. \A j, k \in Rows(d)' : row'[j].uid = row'[k].uid => j = k
    BY <2>1 DEF UidsName
  <2>5. QED
    BY <2>3, <2>4, Zenon DEF UidsName
<1>13. RowUids' = [RowUids EXCEPT ![a] = @ \ {row[i].uid}, ![b] = @ \cup {u}]
  <2>1. {row'[j].uid : j \in Rows(b)'} = {row[j].uid : j \in Rows(b)} \cup {u}
    <3>1. Rows(b)' = Rows(b) \cup {i}
      BY <1>7 DEF Rows
    <3>2. \A j \in Rows(b) : row'[j].uid = row[j].uid
      BY <1>3, <1>7, RowsFinite
    <3>3. row'[i].uid = u
      BY <1>3
    <3>4. \A j \in Rows(b)' : row'[j].uid \in {row[k].uid : k \in Rows(b)} \cup {u}
      BY <3>1, <3>2, <3>3
    <3>5. \A j \in Rows(b) : row[j].uid \in {row'[k].uid : k \in Rows(b)'}
      BY <3>1, <3>2
    <3>6. u \in {row'[k].uid : k \in Rows(b)'}
      BY <3>1, <3>3
    <3>7. QED
      BY <3>4, <3>5, <3>6
  <2>2. {row'[j].uid : j \in Rows(a)'} = {row[j].uid : j \in Rows(a)} \ {row[i].uid}
    <3>1. Rows(a)' = Rows(a) \ {i}
      BY <1>6 DEF Rows
    <3>2. \A j \in Rows(a) \ {i} : row'[j].uid = row[j].uid /\ row[j].uid # row[i].uid
      BY <1>3, RowsFinite DEF UidsName
    <3>3. QED
      BY <3>1, <3>2
  <2>3. ASSUME NEW d \in Mailboxes \ {a, b}
        PROVE  {row'[j].uid : j \in Rows(d)'} = {row[j].uid : j \in Rows(d)}
    <3>1. Rows(d)' = Rows(d) /\ \A j \in Rows(d) : row'[j].uid = row[j].uid
      BY <1>2, <1>3, <1>5 DEF Rows
    <3>2. QED
      BY <3>1
  <2>4. QED
    BY <2>1, <2>2, <2>3 DEF RowUids
<1>14. Store!Move(a, b)
  <2>1. lastUid'[b] = u
    BY <1>1, <1>4
  <2>2. row[i].uid \in RowUids[a]
    BY DEF RowUids
  <2>3. QED
    BY <1>1, <1>4, <1>13, <2>1, <2>2 DEF Store!Move, Store!TakeUid
<1>15. QED
  BY <1>4, <1>5, <1>6, <1>7, <1>8, <1>9, <1>11, <1>12, <1>14 DEF Store!Next

-----------------------------------------------------------------------------
(* With one call under way at most, Current is that call's record.         *)
LEMMA CurrentIs ==
    ASSUME NEW f, NEW c \in Calls, \A d \in Calls \ {c} : f[d] = Idle
    PROVE  Current(f) = f[c]
<1>1. CASE f[c] = Idle
  BY <1>1 DEF Current
<1>2. CASE f[c] # Idle
  <2>1. \E d \in Calls : f[d] # Idle
    BY <1>2
  <2>2. (CHOOSE d \in Calls : f[d] # Idle) = c
    BY <1>2
  <2>3. QED
    BY <2>1, <2>2 DEF Current
<1>3. QED
  BY <1>1, <1>2

(* What holds of no call.                                                  *)
LEMMA IdleKnows == Owed(Idle) = {} /\ Informed(Idle) /\ \A b : ~Given(Idle, b)
BY DEF Idle, Owed, Informed, Given

(* It stays so.                                                            *)
LEMMA IdleKnowsNext == Informed(Idle)'
BY DEF Idle, Informed

(* What a step has to show: the store is as the call's next statement      *)
(* needs it, and the rows moved as an IMAP client may see them move.       *)
Kept(c) == StoreIs(call[c])' /\ [Store!Next]_(Store!vars)

(* A step that only reads.                                                 *)
LEMMA ReadKept ==
    ASSUME TypeInv, TypeInv', NEW c \in Calls, StoreIs(call[c]),
           UNCHANGED <<row, counters, lastUid>>,
           Owed(call[c]) \subseteq Owed(call'[c]),
           \A b \in Mailboxes : Given(call[c], b) => Given(call'[c], b),
           Informed(call[c])'
    PROVE  Kept(c)
<1>1. /\ \A b \in Mailboxes : {i \in Ids : row'[i].box = b} = Rows(b)
      /\ \A b \in Mailboxes : UidsName(b)'
      /\ UNCHANGED <<RowUids, lastUid>>
  BY RowsSame DEF StoreIs
<1>2. \A b \in Mailboxes : lastUid'[b] < uidNext'[b] \/ Given(call'[c], b)
  BY DEF StoreIs, counters
<1>3. \A b \in Mailboxes \ Owed(call'[c]) : Counted(b)'
  BY <1>1 DEF StoreIs, counters, Counted, Rows
<1>4. QED
  BY <1>1, <1>2, <1>3 DEF Kept, StoreIs, Store!vars

(* A call that ends without having written.                                *)
LEMMA EndKept ==
    ASSUME TypeInv, TypeInv', NEW c \in Calls, StoreIs(call[c]),
           UNCHANGED <<row, counters, lastUid>>, Finish(c),
           Owed(call[c]) = {}, \A b \in Mailboxes : ~Given(call[c], b)
    PROVE  Kept(c)
<1>1. call'[c] = Idle
  BY DEF Finish, TypeInv, TypeOK
<1>2. Informed(call[c])'
  BY <1>1, IdleKnowsNext
<1>3. QED
  BY <1>2, ReadKept

(* A call that begins has written nothing yet.                             *)
LEMMA StartKept ==
    ASSUME TypeInv, TypeInv', NEW c \in Calls, StoreIs(call[c]),
           UNCHANGED <<row, counters, lastUid>>,
           call[c] = Idle, Informed(call[c])'
    PROVE  Kept(c)
BY IdleKnows, ReadKept

-----------------------------------------------------------------------------
(* New messages.                                                           *)
LEMMA DeliverKept ==
    ASSUME TypeInv, TypeInv', NEW c \in Calls, StoreIs(call[c]), Deliver(c)
    PROVE  Kept(c)
<1>1. ASSUME NEW op \in Deliveries, NEW m \in Mails \cup {NoMail}, ReadUidNext(c, op, m)
      PROVE  Kept(c)
  <2>1. /\ call[c] = Idle
        /\ call'[c].op = op /\ op \in Deliveries
        /\ call'[c].at \in {"check", "insert"}
        /\ call'[c].uid = uidNext[call'[c].to]
    BY <1>1 DEF ReadUidNext, Start, TypeInv, TypeOK, Idle
  <2>2. UNCHANGED <<row, counters, lastUid>>
    BY <1>1 DEF ReadUidNext
  <2>3. Informed(call[c])'
    BY <2>1, <2>2 DEF Informed, Deliveries, counters
  <2>4. QED
    BY <2>1, <2>2, <2>3, StartKept
<1>2. CASE CheckDuplicate(c)
  <2>1. call[c].at = "check" /\ call[c].op \in Deliveries
    BY <1>2 DEF CheckDuplicate, TypeInv, Ready
  <2>2. UNCHANGED <<row, counters, lastUid>>
    BY <1>2 DEF CheckDuplicate
  <2>3. Owed(call[c]) = {} /\ \A b : ~Given(call[c], b)
    BY <2>1 DEF Owed, Given
  <2>4. CASE Finish(c)
    BY <2>2, <2>3, <2>4, EndKept
  <2>5. CASE Step(c, "insert")
    <3>1. call'[c] = [call[c] EXCEPT !.at = "insert"]
      BY <2>5 DEF Step, TypeInv, TypeOK
    <3>2. /\ call'[c].at = "insert" /\ call'[c].op = call[c].op
          /\ call'[c].uid = call[c].uid /\ call'[c].to = call[c].to
      BY <3>1 DEF TypeInv, TypeOK, Call
    <3>3. call[c].uid = uidNext[call[c].to]
      BY <2>1 DEF StoreIs, Informed
    <3>4. Informed(call[c])'
      BY <2>1, <2>2, <3>2, <3>3 DEF Informed, Deliveries, counters
    <3>5. QED
      BY <2>2, <2>3, <3>4, ReadKept
  <2>6. QED
    BY <1>2, <2>4, <2>5 DEF CheckDuplicate
<1>3. CASE CommitDelivery(c)
  <2>1. /\ call[c].at = "insert" /\ call[c].op \in Deliveries
        /\ call[c].to \in Mailboxes /\ call[c].uid = uidNext[call[c].to]
    BY <1>3 DEF CommitDelivery, TypeInv, Ready, StoreIs, Informed
  <2>2. PICK b \in Mailboxes : b = call[c].to
    BY <2>1
  <2>3. PICK u \in Nat : u = call[c].uid
    BY DEF TypeInv, TypeOK, Call
  <2>4. Owed(call[c]) = {} /\ \A a : ~Given(call[c], a)
    BY <2>1 DEF Owed, Given, Deliveries
  <2>5. u = uidNext[b] /\ lastUid[b] < u
    BY <2>1, <2>2, <2>3, <2>4 DEF StoreIs
  <2>6. \A a \in Mailboxes : UidsName(a)
    BY DEF StoreIs
  <2>7. \E m, fs : Insert(b, u, m, fs)
    BY <1>3, <2>2, <2>3 DEF CommitDelivery
  <2>8. /\ \A a \in Mailboxes \ {b} : {i \in Ids : row'[i].box = a} = Rows(a)
        /\ Cardinality({i \in Ids : row'[i].box = b}) = Cardinality(Rows(b)) + 1
        /\ \A a \in Mailboxes : UidsName(a)'
        /\ lastUid' = [lastUid EXCEPT ![b] = u]
        /\ Store!Next
    BY <2>5, <2>6, <2>7, RowInserted
  <2>9. /\ uidNext' = [uidNext EXCEPT ![b] = @ + 1]
        /\ messageCount' = [messageCount EXCEPT ![b] = @ + 1]
        /\ call'[c] = Idle
    BY <1>3, <2>2 DEF CommitDelivery, Finish, TypeInv, TypeOK
  <2>10. \A a \in Mailboxes : lastUid'[a] < uidNext'[a]
    BY <2>4, <2>5, <2>8, <2>9 DEF StoreIs, TypeInv, TypeOK
  <2>11. \A a \in Mailboxes : Counted(a)
    BY <2>4 DEF StoreIs
  <2>12. \A a \in Mailboxes : Counted(a)'
    BY <2>8, <2>9, <2>11 DEF Counted, Rows, TypeInv, TypeOK
  <2>13. Informed(call[c])'
    BY <2>9, IdleKnowsNext
  <2>14. QED
    BY <2>8, <2>10, <2>12, <2>13 DEF Kept, StoreIs
<1>4. QED
  BY <1>1, <1>2, <1>3 DEF Deliver

-----------------------------------------------------------------------------
(* Requests that begin.                                                    *)
LEMMA RequestStartsKept ==
    ASSUME TypeInv, TypeInv', NEW c \in Calls, StoreIs(call[c]), NEW i \in Ids,
           \/ ReadDeletable(c, i)
           \/ \E b \in Mailboxes : ReadMovable(c, i, b)
           \/ \E fs \in SUBSET Flags : ReadFlags(c, i, fs)
    PROVE  Kept(c)
<1>1. CASE ReadDeletable(c, i)
  <2>1. /\ call[c] = Idle /\ UNCHANGED <<row, counters, lastUid>>
        /\ call'[c].op = "hardDelete" /\ call'[c].at = "delete"
        /\ call'[c].id = i /\ call'[c].from = row[i].box
    BY <1>1 DEF ReadDeletable, Start, TypeInv, TypeOK, Idle
  <2>2. Informed(call[c])'
    BY <2>1 DEF Informed
  <2>3. QED
    BY <2>1, <2>2, StartKept
<1>2. ASSUME NEW b \in Mailboxes, ReadMovable(c, i, b) PROVE Kept(c)
  <2>1. /\ call[c] = Idle /\ UNCHANGED <<row, counters, lastUid>>
        /\ call'[c].op = "move" /\ call'[c].at = "target"
        /\ call'[c].id = i /\ call'[c].from = row[i].box /\ call'[c].to = b
        /\ row[i].box # b
    BY <1>2 DEF ReadMovable, Start, TypeInv, TypeOK, Idle
  <2>2. Informed(call[c])'
    BY <2>1 DEF Informed
  <2>3. QED
    BY <2>1, <2>2, StartKept
<1>3. ASSUME NEW fs \in SUBSET Flags, ReadFlags(c, i, fs) PROVE Kept(c)
  <2>1. /\ call[c] = Idle /\ UNCHANGED <<row, counters, lastUid>>
        /\ call'[c].op \in {"flag", "store"}
        /\ call'[c].at \in {"writeFlags", "storeFlags"}
    <3>1. PICK op \in {"flag", "store"} :
             Start(c, [Idle EXCEPT
                !.op = op, !.id = i, !.flags = fs,
                !.at = IF op = "flag" THEN "writeFlags" ELSE "storeFlags",
                !.unread = (IF "seen" \in row[i].flags THEN 1 ELSE 0)
                             - (IF "seen" \in fs THEN 1 ELSE 0)])
      BY <1>3 DEF ReadFlags
    <3>2. call[c] = Idle /\ UNCHANGED <<row, counters, lastUid>>
      BY <1>3, <3>1 DEF ReadFlags, Start
    <3>3. /\ call'[c].op = op
          /\ call'[c].at = IF op = "flag" THEN "writeFlags" ELSE "storeFlags"
      BY <3>1 DEF Start, TypeInv, TypeOK, Idle
    <3>4. QED
      BY <3>2, <3>3
  <2>2. Informed(call[c])'
    BY <2>1 DEF Informed
  <2>3. QED
    BY <2>1, <2>2, StartKept
<1>4. QED
  BY <1>1, <1>2, <1>3

(* A row is deleted, and is still to be counted out.                       *)
LEMMA DeleteRowKept ==
    ASSUME TypeInv, TypeInv', NEW c \in Calls, StoreIs(call[c]), DeleteRow(c)
    PROVE  Kept(c)
<1>1. /\ call[c].at = "delete" /\ call[c].from \in Mailboxes /\ call[c].id \in Ids
      /\ row[call[c].id].box = call[c].from /\ call[c].op = "hardDelete"
  BY DEF DeleteRow, TypeInv, Ready, StoreIs, Informed
<1>2. PICK b \in Mailboxes : b = call[c].from
  BY <1>1
<1>3. PICK i \in Ids : i = call[c].id
  BY <1>1
<1>4. i \in Rows(b)
  BY <1>1, <1>2, <1>3 DEF Rows
<1>5. DeleteIds({i}) /\ UNCHANGED <<counters, lastUid>>
  BY <1>3 DEF DeleteRow
<1>6. /\ \A a \in Mailboxes \ {b} : {j \in Ids : row'[j].box = a} = Rows(a)
      /\ {j \in Ids : row'[j].box = b} = Rows(b) \ {i}
      /\ \A a \in Mailboxes : UidsName(a)'
      /\ Store!Next
  <2>1. \A a \in Mailboxes : UidsName(a)
    BY DEF StoreIs
  <2>2. {i} \in SUBSET Rows(b) /\ UNCHANGED lastUid
    BY <1>4, <1>5
  <2>3. QED
    BY <1>5, <2>1, <2>2, RowsDeleted
<1>7. Cardinality(Rows(b) \ {i}) + 1 = Cardinality(Rows(b))
  <2>1. Cardinality(Rows(b) \ {i}) = Cardinality(Rows(b)) - 1
    BY <1>4, RowsFinite, FS_RemoveElement
  <2>2. QED
    BY <2>1, RowsFinite
<1>8. /\ call'[c].at = "uncount" /\ call'[c].op = "hardDelete" /\ call'[c].from = b
  BY <1>1, <1>2 DEF DeleteRow, Step, TypeInv, TypeOK, Call
<1>9. Owed(call[c]) = {} /\ \A a : ~Given(call[c], a)
  BY <1>1 DEF Owed, Given
<1>10. Owed(call'[c]) = {b}
  BY <1>8 DEF Owed
<1>11. \A a \in Mailboxes : Counted(a)
  BY <1>9 DEF StoreIs
<1>12. \A a \in Mailboxes \ {b} : Counted(a)'
  BY <1>5, <1>6, <1>11 DEF Counted, Rows, counters
<1>13. \A a \in Mailboxes : lastUid'[a] < uidNext'[a]
  BY <1>5, <1>9 DEF StoreIs, counters
<1>14. Informed(call[c])'
  <2>1. messageCount'[b] = Cardinality(Rows(b)') + 1
    BY <1>5, <1>6, <1>7, <1>11 DEF Counted, Rows, counters
  <2>2. QED
    BY <1>8, <2>1 DEF Informed
<1>15. QED
  BY <1>6, <1>10, <1>12, <1>13, <1>14 DEF Kept, StoreIs

(* A move reads uidNext.                                                   *)
LEMMA ReadTargetKept ==
    ASSUME TypeInv, TypeInv', NEW c \in Calls, StoreIs(call[c]), ReadTarget(c)
    PROVE  Kept(c)
<1>1. /\ call[c].at = "target" /\ UNCHANGED <<row, counters, lastUid>>
      /\ row[call[c].id].box = call[c].from /\ call[c].from # call[c].to
      /\ call[c].op = "move"
  BY DEF ReadTarget, StoreIs, Informed, TypeInv, Ready
<1>2. call'[c] = [call[c] EXCEPT !.at = "place", !.uid = uidNext[call[c].to]]
  BY DEF ReadTarget, TypeInv, TypeOK
<1>3. /\ call'[c].at = "place" /\ call'[c].uid = uidNext[call[c].to]
      /\ call'[c].op = "move" /\ call'[c].id = call[c].id
      /\ call'[c].from = call[c].from /\ call'[c].to = call[c].to
  BY <1>1, <1>2 DEF TypeInv, TypeOK, Call
<1>4. Informed(call[c])'
  BY <1>1, <1>3 DEF Informed, counters
<1>5. Owed(call[c]) = {} /\ \A b : ~Given(call[c], b)
  BY <1>1 DEF Owed, Given
<1>6. QED
  BY <1>1, <1>4, <1>5, ReadKept

(* A move places its row: two counts are to follow.                        *)
LEMMA PlaceRowKept ==
    ASSUME TypeInv, TypeInv', NEW c \in Calls, StoreIs(call[c]), PlaceRow(c)
    PROVE  Kept(c)
<1>1. /\ call[c].at = "place" /\ call[c].op = "move"
      /\ call[c].from \in Mailboxes /\ call[c].to \in Mailboxes
      /\ call[c].id \in Ids /\ row[call[c].id].box = call[c].from
      /\ call[c].from # call[c].to /\ call[c].uid = uidNext[call[c].to]
  BY DEF PlaceRow, StoreIs, Informed, TypeInv, Ready
<1>2. PICK a \in Mailboxes : a = call[c].from
  BY <1>1
<1>3. PICK b \in Mailboxes \ {a} : b = call[c].to
  BY <1>1, <1>2
<1>4. PICK i \in Ids : i = call[c].id
  BY <1>1
<1>5. PICK u \in Nat : u = call[c].uid
  BY DEF TypeInv, TypeOK, Call
<1>6. i \in Rows(a) /\ row[i].box # "gone"
  BY <1>1, <1>2, <1>4, StoreAssumption DEF Rows, StoreAssumption
<1>7. Owed(call[c]) = {} /\ \A d : ~Given(call[c], d)
  BY <1>1 DEF Owed, Given
<1>8. u = uidNext[b] /\ lastUid[b] < u
  BY <1>1, <1>3, <1>5, <1>7 DEF StoreIs
<1>9. /\ row' = [row EXCEPT ![i].box = b, ![i].uid = u]
      /\ lastUid' = [lastUid EXCEPT ![b] = Higher(@, u)]
      /\ UNCHANGED counters
  BY <1>3, <1>4, <1>5, <1>6 DEF PlaceRow
<1>10. /\ \A d \in Mailboxes \ {a, b} : {j \in Ids : row'[j].box = d} = Rows(d)
       /\ Cardinality({j \in Ids : row'[j].box = a}) + 1 = Cardinality(Rows(a))
       /\ Cardinality({j \in Ids : row'[j].box = b}) = Cardinality(Rows(b)) + 1
       /\ \A d \in Mailboxes : UidsName(d)'
       /\ lastUid' = [lastUid EXCEPT ![b] = u]
       /\ Store!Next
  <2>1. \A d \in Mailboxes : UidsName(d)
    BY DEF StoreIs
  <2>2. i \in Rows(a) /\ lastUid[b] < u
    BY <1>6, <1>8
  <2>3. /\ row' = [row EXCEPT ![i].box = b, ![i].uid = u]
        /\ lastUid' = [lastUid EXCEPT ![b] = Higher(@, u)]
    BY <1>9
  <2>4. QED
    BY <2>1, <2>2, <2>3, RowMoved, ZenonT(60)
<1>11. /\ call'[c].at = "uncount" /\ call'[c].op = "move" /\ call'[c].uid = u
       /\ call'[c].from = a /\ call'[c].to = b
  BY <1>1, <1>2, <1>3, <1>5 DEF PlaceRow, Step, TypeInv, TypeOK, Call
<1>12. Owed(call'[c]) = {a, b} /\ Given(call'[c], b)
  BY <1>11 DEF Owed, Given
<1>13. \A d \in Mailboxes : Counted(d)
  BY <1>7 DEF StoreIs
<1>14. \A d \in Mailboxes \ {a, b} : Counted(d)'
  BY <1>9, <1>10, <1>13 DEF Counted, Rows, counters
<1>15. \A d \in Mailboxes : lastUid'[d] < uidNext'[d] \/ Given(call'[c], d)
  BY <1>7, <1>9, <1>10, <1>12 DEF StoreIs, counters, TypeInv, TypeOK
<1>16. Informed(call[c])'
  <2>1. messageCount'[a] = Cardinality(Rows(a)') + 1
    BY <1>9, <1>10, <1>13 DEF Counted, Rows, counters
  <2>2. messageCount'[b] + 1 = Cardinality(Rows(b)')
    BY <1>9, <1>10, <1>13 DEF Counted, Rows, counters
  <2>3. lastUid'[b] = u
    BY <1>10 DEF TypeInv, TypeOK
  <2>4. QED
    BY <1>3, <1>11, <2>1, <2>2, <2>3 DEF Informed
<1>17. QED
  BY <1>10, <1>12, <1>14, <1>15, <1>16 DEF Kept, StoreIs

(* The mailbox a row has left is counted down.                             *)
LEMMA UncountRowKept ==
    ASSUME TypeInv, TypeInv', NEW c \in Calls, StoreIs(call[c]), UncountRow(c)
    PROVE  Kept(c)
<1>1. call[c].at = "uncount" /\ call[c].from \in Mailboxes
  BY DEF UncountRow, TypeInv, Ready
<1>2. PICK a \in Mailboxes : a = call[c].from
  BY <1>1
<1>3. messageCount[a] = Cardinality(Rows(a)) + 1
  BY <1>1, <1>2 DEF StoreIs, Informed
<1>4. messageCount' = [messageCount EXCEPT ![a] = AtLeast0(@ - 1)]
      /\ UNCHANGED <<row, uidNext, lastUid>>
  BY <1>2 DEF UncountRow
<1>5. messageCount'[a] = Cardinality(Rows(a))
  BY <1>3, <1>4, RowsFinite DEF AtLeast0, TypeInv, TypeOK
<1>6. \A d \in Mailboxes \ {a} : messageCount'[d] = messageCount[d]
  BY <1>4 DEF TypeInv, TypeOK
<1>7. /\ \A d \in Mailboxes : {i \in Ids : row'[i].box = d} = Rows(d)
      /\ \A d \in Mailboxes : UidsName(d)'
      /\ UNCHANGED <<RowUids, lastUid>>
  BY <1>4, RowsSame DEF StoreIs
<1>8. Owed(call[c]) \ {a} \subseteq Owed(call'[c])
      /\ (\A d \in Mailboxes : Given(call[c], d) => Given(call'[c], d))
      /\ Informed(call[c])'
  <2>1. CASE call[c].op = "move"
    <3>1. /\ call[c].from # call[c].to /\ call[c].to \in Mailboxes
          /\ messageCount[call[c].to] + 1 = Cardinality(Rows(call[c].to))
          /\ lastUid[call[c].to] = call[c].uid
      BY <1>1, <2>1 DEF StoreIs, Informed, TypeInv, Ready
    <3>2. PICK b \in Mailboxes \ {a} : b = call[c].to
      BY <1>2, <3>1
    <3>3. /\ call'[c].at = "count" /\ call'[c].op = "move" /\ call'[c].to = b
          /\ call'[c].uid = call[c].uid /\ call'[c].from = a
      BY <1>2, <2>1, <3>2 DEF UncountRow, Step, TypeInv, TypeOK, Call
    <3>4. messageCount'[b] + 1 = Cardinality(Rows(b)') /\ lastUid'[b] = call[c].uid
      BY <1>4, <1>6, <1>7, <3>1, <3>2 DEF Rows
    <3>5. Informed(call[c])'
      BY <1>2, <3>2, <3>3, <3>4 DEF Informed
    <3>6. Owed(call[c]) = {a, b} /\ Owed(call'[c]) = {b}
      BY <1>1, <1>2, <2>1, <3>2, <3>3 DEF Owed
    <3>7. \A d \in Mailboxes : Given(call[c], d) => Given(call'[c], d)
      BY <3>2, <3>3 DEF Given
    <3>8. QED
      BY <3>5, <3>6, <3>7
  <2>2. CASE call[c].op # "move"
    <3>1. call'[c] = Idle
      BY <2>2 DEF UncountRow, Finish, TypeInv, TypeOK
    <3>2. Informed(call[c])'
      BY <3>1, IdleKnowsNext
    <3>3. Owed(call[c]) = {a} /\ \A d : ~Given(call[c], d)
      BY <1>1, <1>2, <2>2 DEF Owed, Given
    <3>4. QED
      BY <3>2, <3>3
  <2>3. QED
    BY <2>1, <2>2
<1>9. \A d \in Mailboxes \ Owed(call'[c]) : Counted(d)'
  BY <1>5, <1>6, <1>7, <1>8 DEF StoreIs, Counted, Rows
<1>10. \A d \in Mailboxes : lastUid'[d] < uidNext'[d] \/ Given(call'[c], d)
  BY <1>4, <1>8 DEF StoreIs
<1>11. QED
  BY <1>7, <1>8, <1>9, <1>10 DEF Kept, StoreIs, Store!vars

(* The mailbox that got it is counted up, and uidNext goes above the UID   *)
(* that was given.                                                         *)
LEMMA CountRowKept ==
    ASSUME TypeInv, TypeInv', NEW c \in Calls, StoreIs(call[c]), CountRow(c)
    PROVE  Kept(c)
<1>1. /\ call[c].at = "count" /\ call[c].op = "move" /\ call[c].to \in Mailboxes
      /\ messageCount[call[c].to] + 1 = Cardinality(Rows(call[c].to))
      /\ lastUid[call[c].to] = call[c].uid
  BY DEF CountRow, TypeInv, Ready, StoreIs, Informed
<1>2. PICK b \in Mailboxes : b = call[c].to
  BY <1>1
<1>3. PICK u \in Nat : u = call[c].uid
  BY DEF TypeInv, TypeOK, Call
<1>4. /\ messageCount' = [messageCount EXCEPT ![b] = @ + 1]
      /\ uidNext' = [uidNext EXCEPT ![b] = u + 1]
      /\ UNCHANGED <<row, lastUid>> /\ call'[c] = Idle
  BY <1>2, <1>3 DEF CountRow, Finish, TypeInv, TypeOK
<1>5. Owed(call[c]) = {b} /\ \A d \in Mailboxes \ {b} : ~Given(call[c], d)
  BY <1>1, <1>2 DEF Owed, Given
<1>6. /\ \A d \in Mailboxes : {i \in Ids : row'[i].box = d} = Rows(d)
      /\ \A d \in Mailboxes : UidsName(d)'
      /\ UNCHANGED <<RowUids, lastUid>>
  BY <1>4, RowsSame DEF StoreIs
<1>7. \A d \in Mailboxes : messageCount'[d] = Cardinality(Rows(d))
  BY <1>1, <1>2, <1>4, <1>5 DEF StoreIs, Counted, TypeInv, TypeOK
<1>8. \A d \in Mailboxes : Counted(d)'
  BY <1>6, <1>7 DEF Counted, Rows
<1>9. \A d \in Mailboxes : lastUid'[d] < uidNext'[d]
  BY <1>1, <1>2, <1>3, <1>4, <1>5 DEF StoreIs, TypeInv, TypeOK
<1>10. Informed(call[c])'
  BY <1>4, IdleKnowsNext
<1>11. QED
  BY <1>6, <1>8, <1>9, <1>10 DEF Kept, StoreIs, Store!vars

(* Flags are neither counted here nor part of what a UID means.            *)
LEMMA FlagsKept ==
    ASSUME TypeInv, TypeInv', NEW c \in Calls, StoreIs(call[c]),
           WriteFlags(c) \/ LocateMailbox(c) \/ AdjustUnread(c)
    PROVE  Kept(c)
<1>1. /\ call[c].at \in {"writeFlags", "storeFlags", "locate", "unread"}
      /\ UNCHANGED <<uidNext, messageCount, lastUid>>
  BY DEF WriteFlags, LocateMailbox, AdjustUnread, counters
<1>2. \A i \in Ids : row'[i].box = row[i].box /\ row'[i].uid = row[i].uid
  <2>1. CASE UNCHANGED row
    BY <2>1
  <2>2. ASSUME NEW r, row' = [row EXCEPT ![r].flags = call[c].flags]
        PROVE  \A i \in Ids : row'[i].box = row[i].box /\ row'[i].uid = row[i].uid
    BY <2>2 DEF TypeInv, TypeOK, Row
  <2>3. QED
    BY <2>1, <2>2 DEF WriteFlags, LocateMailbox, AdjustUnread
<1>3. /\ \A d \in Mailboxes : {i \in Ids : row'[i].box = d} = Rows(d)
      /\ \A d \in Mailboxes : UidsName(d)'
      /\ UNCHANGED <<RowUids, lastUid>>
  BY <1>1, <1>2, RowsSame DEF StoreIs
<1>4. Owed(call[c]) = {} /\ \A d : ~Given(call[c], d)
  BY <1>1 DEF Owed, Given
<1>5. \A d \in Mailboxes : Counted(d)' /\ lastUid'[d] < uidNext'[d]
  BY <1>1, <1>3, <1>4 DEF StoreIs, Counted, Rows
<1>6. Informed(call[c])'
  <2>1. CASE Finish(c)
    <3>1. call'[c] = Idle
      BY <2>1 DEF Finish, TypeInv, TypeOK
    <3>2. QED
      BY <3>1, IdleKnowsNext
  <2>2. CASE call'[c].at \in {"locate", "unread"}
    BY <2>2 DEF Informed
  <2>3. Finish(c) \/ call'[c].at \in {"locate", "unread"}
    BY DEF WriteFlags, LocateMailbox, AdjustUnread, Step, TypeInv, TypeOK, Call
  <2>4. QED
    BY <2>1, <2>2, <2>3
<1>7. QED
  BY <1>3, <1>5, <1>6 DEF Kept, StoreIs, Store!vars

-----------------------------------------------------------------------------
(* IMAP commands that begin; CLOSE deletes at once.                        *)
LEMMA ImapStartsKept ==
    ASSUME TypeInv, TypeInv', NEW c \in Calls, StoreIs(call[c]), NEW b \in Mailboxes,
           \/ \E i \in Ids : ListForCopy(c, i, b)
           \/ FindMailbox(c, b) \/ ListForExpunge(c, b) \/ CloseMailbox(c, b)
    PROVE  Kept(c)
<1>1. ASSUME NEW i \in Ids, ListForCopy(c, i, b) PROVE Kept(c)
  <2>1. /\ call[c] = Idle /\ UNCHANGED <<row, counters, lastUid>>
        /\ call'[c].op = "copy" /\ call'[c].at = "copyRead"
    BY <1>1 DEF ListForCopy, Start, TypeInv, TypeOK, Idle
  <2>2. Informed(call[c])'
    BY <2>1 DEF Informed
  <2>3. QED
    BY <2>1, <2>2, StartKept
<1>2. CASE FindMailbox(c, b)
  <2>1. /\ call[c] = Idle /\ UNCHANGED <<row, counters, lastUid>>
        /\ call'[c].op = "append" /\ call'[c].at = "insertBack" /\ call'[c].to = b
        /\ call'[c].uid = uidNext[b] /\ call'[c].count = messageCount[b]
    BY <1>2 DEF FindMailbox, Start, TypeInv, TypeOK, Idle
  <2>2. Informed(call[c])'
    BY <2>1 DEF Informed, counters
  <2>3. QED
    BY <2>1, <2>2, StartKept
<1>3. CASE ListForExpunge(c, b)
  <2>1. /\ call[c] = Idle /\ UNCHANGED <<row, counters, lastUid>>
        /\ call'[c].op = "expunge" /\ call'[c].at = "expunge" /\ call'[c].from = b
        /\ call'[c].ids = Flagged(b)
        /\ call'[c].count = Cardinality(Rows(b) \ Flagged(b))
    BY <1>3 DEF ListForExpunge, Start, TypeInv, TypeOK, Idle
  <2>2. Flagged(b)' = Flagged(b) /\ Rows(b)' = Rows(b)
    BY <2>1 DEF Flagged, Rows
  <2>4. Informed(call[c])'
    BY <2>1, <2>2 DEF Informed, Flagged, Rows
  <2>5. QED
    BY <2>1, <2>4, StartKept
<1>4. CASE CloseMailbox(c, b)
  <2>1. /\ call[c] = Idle /\ DeleteIds(Flagged(b)) /\ UNCHANGED <<counters, lastUid>>
        /\ call'[c].op = "close" /\ call'[c].at = "closeList" /\ call'[c].from = b
    BY <1>4 DEF CloseMailbox, Start, TypeInv, TypeOK, Idle
  <2>2. Flagged(b) \in SUBSET Rows(b)
    BY DEF Flagged
  <2>3. /\ \A a \in Mailboxes \ {b} : {i \in Ids : row'[i].box = a} = Rows(a)
        /\ \A a \in Mailboxes : UidsName(a)'
        /\ Store!Next
    <3>1. \A a \in Mailboxes : UidsName(a)
      BY DEF StoreIs
    <3>2. UNCHANGED lastUid
      BY <2>1
    <3>3. QED
      BY <2>1, <2>2, <3>1, <3>2, RowsDeleted
  <2>4. Owed(call[c]) = {} /\ (\A d : ~Given(call[c], d)) /\ Owed(call'[c]) = {b}
    BY <2>1, IdleKnows DEF Owed
  <2>5. \A d \in Mailboxes \ {b} : Counted(d)'
    BY <2>1, <2>3, <2>4 DEF StoreIs, Counted, Rows, counters
  <2>6. \A d \in Mailboxes : lastUid'[d] < uidNext'[d]
    BY <2>1, <2>4 DEF StoreIs, counters
  <2>7. Informed(call[c])'
    BY <2>1 DEF Informed
  <2>8. QED
    BY <2>3, <2>4, <2>5, <2>6, <2>7 DEF Kept, StoreIs
<1>5. QED
  BY <1>1, <1>2, <1>3, <1>4

(* IMAP COPY reads the counters it will write back.                        *)
LEMMA ReadDestinationKept ==
    ASSUME TypeInv, TypeInv', NEW c \in Calls, StoreIs(call[c]), ReadDestination(c)
    PROVE  Kept(c)
<1>1. call[c].at = "copyRead" /\ UNCHANGED <<row, counters, lastUid>>
  BY DEF ReadDestination
<1>2. call'[c] = [call[c] EXCEPT !.at = "insertBack", !.uid = uidNext[call[c].to],
                                 !.count = messageCount[call[c].to],
                                 !.unread = unreadCount[call[c].to]]
  BY DEF ReadDestination, TypeInv, TypeOK
<1>3. /\ call'[c].at = "insertBack" /\ call'[c].to = call[c].to
      /\ call'[c].uid = uidNext[call[c].to]
      /\ call'[c].count = messageCount[call[c].to]
  BY <1>2 DEF TypeInv, TypeOK, Call
<1>4. Informed(call[c])'
  BY <1>1, <1>3 DEF Informed, counters
<1>5. Owed(call[c]) = {} /\ \A b : ~Given(call[c], b)
  BY <1>1 DEF Owed, Given
<1>6. QED
  BY <1>1, <1>4, <1>5, ReadKept

(* COPY and APPEND write the row and the counters they have read.          *)
LEMMA CommitBackKept ==
    ASSUME TypeInv, TypeInv', NEW c \in Calls, StoreIs(call[c]), CommitBack(c)
    PROVE  Kept(c)
<1>1. /\ call[c].at = "insertBack" /\ call[c].to \in Mailboxes
      /\ call[c].uid = uidNext[call[c].to]
      /\ call[c].count = messageCount[call[c].to]
  BY DEF CommitBack, TypeInv, Ready, StoreIs, Informed
<1>2. PICK b \in Mailboxes : b = call[c].to
  BY <1>1
<1>3. PICK u \in Nat : u = call[c].uid
  BY DEF TypeInv, TypeOK, Call
<1>4. Owed(call[c]) = {} /\ \A a : ~Given(call[c], a)
  BY <1>1 DEF Owed, Given
<1>5. u = uidNext[b] /\ lastUid[b] < u
  BY <1>1, <1>2, <1>3, <1>4 DEF StoreIs
<1>6. \A a \in Mailboxes : UidsName(a)
  BY DEF StoreIs
<1>7. \E m, fs : Insert(b, u, m, fs)
  BY <1>2, <1>3 DEF CommitBack
<1>8. /\ \A a \in Mailboxes \ {b} : {i \in Ids : row'[i].box = a} = Rows(a)
      /\ Cardinality({i \in Ids : row'[i].box = b}) = Cardinality(Rows(b)) + 1
      /\ \A a \in Mailboxes : UidsName(a)'
      /\ lastUid' = [lastUid EXCEPT ![b] = u]
      /\ Store!Next
  BY <1>5, <1>6, <1>7, RowInserted
<1>9. /\ uidNext' = [uidNext EXCEPT ![b] = u + 1]
      /\ messageCount' = [messageCount EXCEPT ![b] = messageCount[b] + 1]
      /\ call'[c] = Idle
  BY <1>1, <1>2, <1>3 DEF CommitBack, Finish, TypeInv, TypeOK
<1>10. \A a \in Mailboxes : lastUid'[a] < uidNext'[a]
  BY <1>4, <1>5, <1>8, <1>9 DEF StoreIs, TypeInv, TypeOK
<1>11. \A a \in Mailboxes : Counted(a)
  BY <1>4 DEF StoreIs
<1>12. \A a \in Mailboxes : Counted(a)'
  BY <1>8, <1>9, <1>11 DEF Counted, Rows, TypeInv, TypeOK
<1>13. Informed(call[c])'
  BY <1>9, IdleKnowsNext
<1>14. QED
  BY <1>8, <1>10, <1>12, <1>13 DEF Kept, StoreIs

(* EXPUNGE deletes what its listing showed as deleted.                     *)
LEMMA ExpungeRowsKept ==
    ASSUME TypeInv, TypeInv', NEW c \in Calls, StoreIs(call[c]), ExpungeRows(c)
    PROVE  Kept(c)
<1>1. /\ call[c].at = "expunge" /\ call[c].from \in Mailboxes
      /\ call[c].ids = Flagged(call[c].from)
      /\ call[c].count = Cardinality(Rows(call[c].from) \ call[c].ids)
  BY DEF ExpungeRows, TypeInv, Ready, StoreIs, Informed
<1>2. PICK b \in Mailboxes : b = call[c].from
  BY <1>1
<1>3. /\ DeleteIds(Flagged(b)) /\ UNCHANGED <<counters, lastUid>>
      /\ Flagged(b) \in SUBSET Rows(b)
  BY <1>1, <1>2 DEF ExpungeRows, Flagged
<1>4. /\ \A a \in Mailboxes \ {b} : {i \in Ids : row'[i].box = a} = Rows(a)
      /\ {i \in Ids : row'[i].box = b} = Rows(b) \ Flagged(b)
      /\ \A a \in Mailboxes : UidsName(a)'
      /\ Store!Next
  <2>1. \A a \in Mailboxes : UidsName(a)
    BY DEF StoreIs
  <2>2. UNCHANGED lastUid
    BY <1>3
  <2>3. QED
    BY <1>3, <2>1, <2>2, RowsDeleted
<1>5. /\ call'[c].at = "setCounts" /\ call'[c].from = b
      /\ call'[c].count = call[c].count
  BY <1>2 DEF ExpungeRows, Step, TypeInv, TypeOK, Call
<1>6. Owed(call[c]) = {} /\ (\A d : ~Given(call[c], d)) /\ Owed(call'[c]) = {b}
  BY <1>1, <1>5 DEF Owed, Given
<1>7. \A d \in Mailboxes \ {b} : Counted(d)'
  BY <1>3, <1>4, <1>6 DEF StoreIs, Counted, Rows, counters
<1>8. \A d \in Mailboxes : lastUid'[d] < uidNext'[d]
  BY <1>3, <1>6 DEF StoreIs, counters
<1>9. Informed(call[c])'
  <2>1. call'[c].count = Cardinality(Rows(b)')
    BY <1>1, <1>2, <1>4, <1>5 DEF Rows
  <2>2. QED
    BY <1>5, <2>1 DEF Informed, Rows
<1>10. QED
  BY <1>4, <1>6, <1>7, <1>8, <1>9 DEF Kept, StoreIs

(* CLOSE lists what it left.                                               *)
LEMMA ListRemainingKept ==
    ASSUME TypeInv, TypeInv', NEW c \in Calls, StoreIs(call[c]), ListRemaining(c)
    PROVE  Kept(c)
<1>1. /\ call[c].at = "closeList" /\ call[c].from \in Mailboxes
      /\ UNCHANGED <<row, counters, lastUid>>
  BY DEF ListRemaining, TypeInv, Ready
<1>2. PICK b \in Mailboxes : b = call[c].from
  BY <1>1
<1>3. call'[c] = [call[c] EXCEPT !.at = "setCounts", !.count = Cardinality(Rows(b)),
                                 !.unread = Cardinality(Unseen(Rows(b)))]
  BY <1>2 DEF ListRemaining, TypeInv, TypeOK
<1>4. /\ call'[c].at = "setCounts" /\ call'[c].from = b
      /\ call'[c].count = Cardinality(Rows(b)) /\ call'[c].op = call[c].op
  BY <1>2, <1>3 DEF TypeInv, TypeOK, Call
<1>5. Rows(b)' = Rows(b)
  BY <1>1 DEF Rows
<1>6. Informed(call[c])'
  BY <1>4, <1>5 DEF Informed, Rows
<1>7. Owed(call[c]) = {b} /\ Owed(call'[c]) = {b} /\ \A d : ~Given(call[c], d)
  BY <1>1, <1>2, <1>4 DEF Owed, Given
<1>8. QED
  BY <1>1, <1>6, <1>7, ReadKept

(* EXPUNGE and CLOSE write the counts of what they left.                   *)
LEMMA SetCountsKept ==
    ASSUME TypeInv, TypeInv', NEW c \in Calls, StoreIs(call[c]), SetCounts(c)
    PROVE  Kept(c)
<1>1. /\ call[c].at = "setCounts" /\ call[c].from \in Mailboxes
      /\ call[c].count = Cardinality(Rows(call[c].from))
  BY DEF SetCounts, TypeInv, Ready, StoreIs, Informed
<1>2. PICK b \in Mailboxes : b = call[c].from
  BY <1>1
<1>3. /\ messageCount' = [messageCount EXCEPT ![b] = Cardinality(Rows(b))]
      /\ UNCHANGED <<row, uidNext, lastUid>> /\ call'[c] = Idle
  BY <1>1, <1>2 DEF SetCounts, Finish, TypeInv, TypeOK
<1>4. Owed(call[c]) = {b} /\ \A d : ~Given(call[c], d)
  BY <1>1, <1>2 DEF Owed, Given
<1>5. /\ \A d \in Mailboxes : {i \in Ids : row'[i].box = d} = Rows(d)
      /\ \A d \in Mailboxes : UidsName(d)'
      /\ UNCHANGED <<RowUids, lastUid>>
  BY <1>3, RowsSame DEF StoreIs
<1>6. \A d \in Mailboxes : Counted(d)'
  BY <1>3, <1>4, <1>5 DEF StoreIs, Counted, Rows, TypeInv, TypeOK
<1>7. \A d \in Mailboxes : lastUid'[d] < uidNext'[d]
  BY <1>3, <1>4 DEF StoreIs
<1>8. Informed(call[c])'
  BY <1>3, IdleKnowsNext
<1>9. QED
  BY <1>5, <1>6, <1>7, <1>8 DEF Kept, StoreIs, Store!vars

(* A call that the unique index refuses has written nothing.               *)
LEMMA UidConflictKept ==
    ASSUME TypeInv, TypeInv', NEW c \in Calls, StoreIs(call[c]), UidConflict(c)
    PROVE  Kept(c)
<1>1. /\ call[c].at \in {"insert", "insertBack", "place"}
      /\ Finish(c) /\ UNCHANGED <<row, counters, lastUid>>
  BY DEF UidConflict
<1>2. Owed(call[c]) = {} /\ \A b : ~Given(call[c], b)
  BY <1>1 DEF Owed, Given
<1>3. QED
  BY <1>1, <1>2, EndKept

-----------------------------------------------------------------------------
(* A step of one call leaves the records of the others as they are.        *)
LEMMA OthersWait ==
    ASSUME TypeInv, NEW c \in Calls, RunAlone(c), NEW d \in Calls \ {c}
    PROVE  call'[d] = call[d]
<1>1. ASSUME NEW r, Start(c, r) PROVE call'[d] = call[d]
  BY <1>1 DEF Start, TypeInv, TypeOK
<1>2. ASSUME NEW at, Step(c, at) PROVE call'[d] = call[d]
  BY <1>2 DEF Step, TypeInv, TypeOK
<1>3. CASE Finish(c)
  BY <1>3 DEF Finish, TypeInv, TypeOK
<1>4. CASE Deliver(c)
  BY <1>1, <1>2, <1>3, <1>4
     DEF Deliver, ReadUidNext, CheckDuplicate, CommitDelivery
<1>5. CASE Request(c)
  <2>1. CASE ReadTarget(c)
    BY <2>1 DEF ReadTarget, TypeInv, TypeOK
  <2>2. CASE LocateMailbox(c)
    BY <1>3, <2>2 DEF LocateMailbox, TypeInv, TypeOK
  <2>3. QED
    BY <1>1, <1>2, <1>3, <1>5, <2>1, <2>2
       DEF Request, ReadDeletable, ReadMovable, ReadFlags, DeleteRow, PlaceRow,
           UncountRow, CountRow, WriteFlags, AdjustUnread
<1>6. CASE ImapCommand(c)
  <2>1. CASE ReadDestination(c)
    BY <2>1 DEF ReadDestination, TypeInv, TypeOK
  <2>2. CASE ListRemaining(c)
    BY <2>2 DEF ListRemaining, TypeInv, TypeOK
  <2>3. QED
    BY <1>1, <1>2, <1>3, <1>6, <2>1, <2>2
       DEF ImapCommand, ListForCopy, FindMailbox, ListForExpunge, CloseMailbox,
           CommitBack, ExpungeRows, SetCounts
<1>7. CASE UidConflict(c)
  BY <1>3, <1>7 DEF UidConflict
<1>8. QED
  BY <1>4, <1>5, <1>6, <1>7 DEF RunAlone

(* A step of the only call keeps what that call relies on.                 *)
LEMMA StepKept ==
    ASSUME TypeInv, TypeInv', NEW c \in Calls, StoreIs(call[c]), RunAlone(c)
    PROVE  Kept(c)
<1>1. CASE Deliver(c)
  BY <1>1, DeliverKept
<1>2. CASE Request(c)
  BY <1>2, RequestStartsKept, DeleteRowKept, ReadTargetKept, PlaceRowKept,
     UncountRowKept, CountRowKept, FlagsKept DEF Request
<1>3. CASE ImapCommand(c)
  BY <1>3, ImapStartsKept, ReadDestinationKept, CommitBackKept, ExpungeRowsKept,
     ListRemainingKept, SetCountsKept DEF ImapCommand
<1>4. CASE UidConflict(c)
  BY <1>4, UidConflictKept
<1>5. QED
  BY <1>1, <1>2, <1>3, <1>4 DEF RunAlone

(* The same for the whole invariant, whichever call it is.                 *)
LEMMA AloneStep ==
    ASSUME TypeInv, TypeInv', AloneInv, NEW c \in Calls, RunAlone(c)
    PROVE  AloneInv' /\ [Store!Next]_(Store!vars)
<1>1. \A d \in Calls \ {c} : call[d] = Idle
  BY DEF RunAlone
<1>2. Current(call) = call[c]
  BY <1>1, CurrentIs
<1>3. StoreIs(call[c])
  BY <1>2 DEF AloneInv
<1>4. Kept(c)
  BY <1>3, StepKept
<1>5. \A d \in Calls \ {c} : call'[d] = Idle
  BY <1>1, OthersWait
<1>6. Current(call') = call'[c]
  BY <1>5, CurrentIs
<1>7. OneAtATime'
  BY <1>5 DEF OneAtATime
<1>8. StoreIs(Current(call))'
  BY <1>4, <1>6 DEF Kept, StoreIs, Informed
<1>9. QED
  BY <1>4, <1>7, <1>8 DEF AloneInv, Kept

(* An empty store, and no call.                                            *)
LEMMA AloneInit == Init => AloneInv
<1> SUFFICES ASSUME Init PROVE AloneInv
  OBVIOUS
<1>1. \A c \in Calls : call[c] = Idle
  BY DEF Init
<1>2. Current(call) = Idle
  BY <1>1 DEF Current
<1>3. \A b \in Mailboxes : Rows(b) = {}
  BY StoreAssumption DEF StoreAssumption, Init, Rows, Absent
<1>4. \A b \in Mailboxes : UidsName(b) /\ Counted(b) /\ lastUid[b] < uidNext[b]
  BY <1>3, FS_EmptySet DEF Init, UidsName, Counted
<1>5. StoreIs(Idle)
  BY <1>4, IdleKnows DEF StoreIs
<1>6. QED
  BY <1>1, <1>2, <1>5 DEF AloneInv, OneAtATime

(* The invariant of both ways to run the store.                            *)
MCInv == TypeInv /\ (~together => AloneInv)

(* Every step keeps it, and one of calls that run alone is a step, or none, *)
(* of the abstract mailboxes.                                              *)
LEMMA MCStep ==
    ASSUME MCInv, [MCNext]_<<vars, together>>
    PROVE  /\ MCInv'
           /\ together' = together
           /\ ~together => [Store!Next]_(Store!vars)
<1>1. CASE UNCHANGED <<vars, together>>
  <2>1. UNCHANGED <<row, uidNext, messageCount, unreadCount, call, lastUid, together>>
    BY <1>1 DEF vars, counters
  <2>2. TypeInv'
    BY <2>1 DEF MCInv, TypeInv, TypeOK
  <2>3. UNCHANGED <<RowUids, lastUid>>
    BY <2>1 DEF RowUids, Rows
  <2>4. ~together => AloneInv'
    BY <2>1 DEF MCInv, AloneInv, OneAtATime, StoreIs, Informed, UidsName, Counted,
                Rows, Flagged
  <2>5. QED
    BY <2>1, <2>2, <2>3, <2>4 DEF MCInv, Store!vars
<1>2. CASE MCNext
  <2>1. together' = together
    BY <1>2 DEF MCNext
  <2>2. Next
    BY <1>2 DEF MCNext, RunAlone, Next
  <2>3. TypeInv'
    BY <2>2, NextTyped DEF MCInv
  <2>4. ASSUME ~together PROVE AloneInv' /\ [Store!Next]_(Store!vars)
    BY <1>2, <2>3, <2>4, AloneStep DEF MCNext, MCInv
  <2>5. QED
    BY <2>1, <2>3, <2>4 DEF MCInv
<1>3. QED
  BY <1>1, <1>2

(* It holds in every state of both.                                        *)
LEMMA MCAlways == MCSpec => []MCInv
<1>1. MCInit => MCInv
  BY InitTyped, AloneInit DEF MCInit, MCInv
<1>2. MCInv /\ [MCNext]_<<vars, together>> => MCInv'
  BY MCStep
<1>3. QED
  BY <1>1, <1>2, PTL DEF MCSpec

(* Whatever calls came before, each run to its end, of the workers, the    *)
(* API and IMAP: message_count is the number of rows.                      *)
THEOREM CountsAlone == MCSpec => []CountExactAlone
<1>1. MCInv => CountExactAlone
  <2> SUFFICES ASSUME MCInv, ~together, Quiet, NEW b \in Mailboxes
               PROVE  messageCount[b] = Cardinality(Rows(b))
    BY DEF CountExactAlone, CountExact
  <2>1. Current(call) = Idle
    BY DEF Quiet, Current
  <2>2. b \notin Owed(Current(call))
    BY <2>1, IdleKnows
  <2>3. QED
    BY <2>2 DEF MCInv, AloneInv, StoreIs, Counted
<1>2. QED
  BY <1>1, MCAlways, PTL

(* The store gives out UIDs as MailboxUids says: every new or moved        *)
(* message gets one above all before it, and none comes back for another.  *)
THEOREM StoreKeepsUidOrder == MCSpec => KeepsUidOrder
<1>1. MCInit => Uids!Init
  <2> SUFFICES ASSUME MCInit PROVE Uids!Init
    OBVIOUS
  <2>1. \A b \in Mailboxes : Rows(b) = {} /\ lastUid[b] = 0
    BY StoreAssumption DEF StoreAssumption, MCInit, Init, Rows, Absent
  <2>2. SeenUids = [b \in Mailboxes |-> {}] /\ SeenTop = [b \in Mailboxes |-> 0]
    BY <2>1 DEF SeenUids, SeenTop
  <2>3. QED
    BY <2>2 DEF Uids!Init
<1>2. ASSUME MCInv, MCInv', [MCNext]_<<vars, together>>
      PROVE  [Uids!Next]_(Uids!vars)
  <2>1. together' = together
    BY <1>2, MCStep
  <2>2. CASE together
    <3>1. UNCHANGED <<SeenUids, SeenTop>>
      BY <2>1, <2>2 DEF SeenUids, SeenTop
    <3>2. QED
      BY <3>1 DEF Uids!vars
  <2>3. CASE ~together
    <3>1. [Store!Next]_(Store!vars)
      BY <1>2, <2>3, MCStep
    <3>2. SeenUids = RowUids /\ SeenUids' = RowUids'
      BY <2>1, <2>3 DEF SeenUids, RowUids
    <3>3. SeenTop = lastUid /\ SeenTop' = lastUid'
      BY <1>2, <2>1, <2>3 DEF SeenTop, MCInv, TypeInv, TypeOK
    <3>4. QED
      BY <3>1, <3>2, <3>3
         DEF Store!Next, Store!Append, Store!Remove, Store!Move, Store!TakeUid,
             Store!vars, Uids!Next, Uids!Append, Uids!Remove, Uids!Move,
             Uids!TakeUid, Uids!vars
  <2>4. QED
    BY <2>2, <2>3
<1>3. QED
  BY <1>1, <1>2, MCAlways, PTL DEF MCSpec, KeepsUidOrder, Uids!Spec
=============================================================================
