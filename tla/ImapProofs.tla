----------------------------- MODULE ImapProofs -----------------------------
(***************************************************************************)
(* Proofs about ImapSession, for any finite set of connections, whatever   *)
(* their clients send, any number of rejected queries, of messages removed *)
(* by the web client and of closed sockets, and any bound of the UIDs.     *)
(***************************************************************************)
EXTENDS ImapSession, FiniteSetTheorems, TLAPS

-----------------------------------------------------------------------------
(* The state.                                                              *)

Cmds  == {"LOGIN", "NOOP", "LIST", "SELECT", "CREATE", "DELETE", "CLOSE", "FETCH",
          "STORE", "COPY", "EXPUNGE", "APPEND", "IDLE", "DONE", "LOGOUT", "STATUS",
          "SEARCH"}
Args  == {"none", "inbox", "work", "+", "-", "seen", "all", "deleted"}
Bys   == {"none", "number", "uid"}
QueueLine == [cmd : Cmds, arg : Args, by : Bys, n : Nat]
BoxIds   == Nat \cup {None}
BoxType  == [name : Args, there : BOOLEAN, next : Nat, uids : SUBSET Nat,
             flagged : SUBSET Nat]
WorkType == [step : 0..3, box : BoxIds, uids : SUBSET Nat, flagged : SUBSET Nat]
StateType == {"NOT_AUTHENTICATED", "AUTHENTICATED", "SELECTED", "LOGOUT"}

ConnTypes ==
    /\ socket \in [Conns -> {"open", "ended", "closed"}]
    /\ queue \in [Conns -> Seq(QueueLine)]
    /\ links \in [Conns -> Nat]
    /\ dead \in [Conns -> BOOLEAN]
    /\ state \in [Conns -> StateType]
    /\ selected \in [Conns -> BoxIds]
    /\ idle \in [Conns -> BOOLEAN]
    /\ subs \in [Conns -> Seq(BoxIds)]

DataTypes ==
    /\ work \in [Conns -> WorkType]
    /\ boxes \in Seq(BoxType)
    /\ left \in [{"fails", "removals", "hangups"} -> Nat]

ClientTypes ==
    /\ script \in [Conns -> Seq(LineType)]
    /\ view \in [Conns -> SUBSET (Nat \X Nat)]
    /\ stale \in [Conns -> BOOLEAN] /\ rude \in [Conns -> BOOLEAN]
    /\ astray \in BOOLEAN
    /\ meant \subseteq BoxIds \X Nat /\ gone \subseteq BoxIds \X Nat

ImapTypes == ConnTypes /\ DataTypes /\ ClientTypes

-----------------------------------------------------------------------------

(* Idling: a connection that idles has one subscription, and as long as    *)
(* its client keeps to DONE, no line but a DONE is worked off before the   *)
(* end of it.                                                              *)
IdleOK(c) ==
    /\ idle[c] => state[c] # "LOGOUT" /\ Len(subs[c]) = 1
    /\ ~idle[c] => subs[c] = <<>>
    /\ ~rude[c] =>
         /\ idle[c] => subs[c] = <<selected[c]>>
         /\ idle[c] /\ queue[c] # <<>> => queue[c][1].cmd = "DONE"
         /\ \A k \in 1..Len(queue[c]) - 1 :
              queue[c][k].cmd = "IDLE" => queue[c][k + 1].cmd = "DONE"

(* Lines: only the first one can name messages.                            *)
LinesOK(c) ==
    /\ \A k \in 2..Len(queue[c]) : queue[c][k].by = "none" /\ queue[c][k].cmd # "STORE"
    /\ \A k \in 1..Len(script[c]) : script[c][k].cmd = "STORE" => script[c][k].by # "none"
    /\ work[c].step # 0 => queue[c] # <<>>

-----------------------------------------------------------------------------
(* A listing and the numbers in it                                         *)

(* The numbers of known are those of listed.                               *)
Right(known, listed) == \A p \in known : p[2] \in listed /\ Number(listed, p[2]) = p[1]

(* listed begins with begin: what came since has higher UIDs.              *)
BeginsWith(listed, begin) ==
    begin \subseteq listed /\ \A v \in listed \ begin, u \in begin : u < v

OnMessages == {"FETCH", "STORE", "COPY", "EXPUNGE", "SEARCH"}
Cmd(c) == queue[c][1].cmd

(* The rows of a mailbox.                                                  *)
RowsOK == \A b \in 1..Len(boxes) :
    boxes[b].flagged \subseteq boxes[b].uids /\ \A u \in boxes[b].uids : u < boxes[b].next

(* What a handler at work has read belongs to the mailbox selected.        *)
WorkOK(c) ==
    /\ selected[c] # None => selected[c] \in 1..Len(boxes)
    /\ work[c].step # 0 /\ Cmd(c) = "SELECT" => work[c].box \in 1..Len(boxes)
    /\ work[c].step # 0 /\ Cmd(c) \in OnMessages =>
         /\ Selected(c) /\ work[c].box = selected[c]
         /\ work[c].flagged \subseteq work[c].uids
         /\ \A u \in work[c].uids : u < boxes[selected[c]].next
    /\ work[c].step = 2 => Cmd(c) \in {"EXPUNGE", "CLOSE"}
    /\ work[c].step = 3 => Cmd(c) = "EXPUNGE"

(* Rows that EXPUNGE or CLOSE deleted, and whose client is not told yet.   *)
Untold == {2, 3}

(* Numbers, as long as the client was told of what is gone: outside of an  *)
(* EXPUNGE those of the rows; within it those of the rows with the ones    *)
(* that the client has still to be told of.                                *)
NumbersOK(c) == Selected(c) /\ ~stale[c] =>
    LET listed  == Listing(selected[c])
        deleted == work[c].flagged IN
    /\ work[c].step \notin Untold \/ (Cmd(c) = "CLOSE" /\ deleted = {})
         => Right(view[c], listed)
    /\ work[c].step = 1 /\ Cmd(c) \in OnMessages => BeginsWith(listed, work[c].uids)
    /\ work[c].step \in Untold /\ Cmd(c) = "EXPUNGE" =>
         /\ Right(view[c], listed \cup deleted)
         /\ listed \cap deleted = {}
         /\ \A u \in deleted : {v \in work[c].uids : v <= u}
                                 = {v \in listed \cup deleted : v <= u}

(* What a client asked for: a STORE names to the server what it names to   *)
(* the client.                                                             *)
Flags(c) == queue[c] # <<>> /\ Cmd(c) = "STORE" /\ queue[c][1].arg = "+"
MeantOK(c) ==
    /\ work[c].step # 0 /\ Cmd(c) \in OnMessages =>
         \A u \in work[c].flagged : <<work[c].box, u>> \in meant
    /\ Flags(c) /\ work[c].step = 0 =>
         LET line == queue[c][1]
             named == Behind(c, line.by, line.n) IN
         line.by # "none" /\ named # {} /\ {selected[c]} \X named \subseteq meant
    /\ Flags(c) /\ work[c].step = 1 => \A u \in Targets(c) : <<work[c].box, u>> \in meant

RowsMeant ==
    /\ gone \subseteq meant
    /\ \A b \in 1..Len(boxes) : \A u \in boxes[b].flagged : <<b, u>> \in meant

AllMeant == RowsMeant /\ \A c \in Conns : MeantOK(c)

(* The inductive invariant.                                                *)
ImapInv ==
    /\ ImapTypes /\ RowsOK /\ Len(boxes) >= 1
    /\ \A c \in Conns : IdleOK(c) /\ LinesOK(c) /\ WorkOK(c) /\ NumbersOK(c)
    /\ astray \/ AllMeant

-----------------------------------------------------------------------------
(* Numbers: the place of a message in the order of the UIDs.               *)

Upto(listed, u) == {v \in listed : v <= u}

LEMMA NumberIsNat ==
    ASSUME NEW A \in SUBSET Nat, NEW u \in Nat
    PROVE  /\ IsFiniteSet(Upto(A, u)) /\ Number(A, u) \in Nat
           /\ Number(A, u) = Cardinality(Upto(A, u))
<1>1. \A v \in Upto(A, u) : v <= u
  BY DEF Upto
<1>2. Upto(A, u) \in SUBSET Nat
  BY DEF Upto
<1>3. IsFiniteSet(Upto(A, u))
  BY <1>1, <1>2, FS_BoundedSetOfNaturals
<1>4. Number(A, u) = Cardinality(Upto(A, u))
  BY DEF Number, Upto
<1> QED
  BY <1>3, <1>4, FS_CardinalityType

LEMMA NumberSame ==
    ASSUME NEW A, NEW B, NEW u, Upto(A, u) = Upto(B, u)
    PROVE  Number(A, u) = Number(B, u)
  BY DEF Upto, Number

(* Numbers are in the order of the UIDs.                                   *)
LEMMA NumberOrder ==
    ASSUME NEW A \in SUBSET Nat, NEW u \in A, NEW w \in A, u < w
    PROVE  Number(A, u) < Number(A, w)
<1>1. Upto(A, u) \in SUBSET Upto(A, w)
  <2>1. u \in Nat /\ w \in Nat /\ \A v \in A : v \in Nat
    OBVIOUS
  <2>2. \A v \in A : v <= u => v <= w
    BY <2>1
  <2> QED
    BY <2>2 DEF Upto
<1>2. w \in Upto(A, w) /\ w \notin Upto(A, u)
  BY DEF Upto
<1>3. IsFiniteSet(Upto(A, w)) /\ Number(A, u) \in Nat /\ Number(A, w) \in Nat
  BY NumberIsNat
<1>4. Cardinality(Upto(A, u)) <= Cardinality(Upto(A, w))
  BY <1>1, <1>3, FS_Subset
<1>5. Cardinality(Upto(A, u)) # Cardinality(Upto(A, w))
  BY <1>1, <1>2, <1>3, FS_Subset
<1>6. Number(A, u) = Cardinality(Upto(A, u)) /\ Number(A, w) = Cardinality(Upto(A, w))
  BY NumberIsNat
<1> QED
  BY <1>3, <1>4, <1>5, <1>6

LEMMA NumberNames ==
    ASSUME NEW A \in SUBSET Nat, NEW u \in A, NEW w \in A, Number(A, u) = Number(A, w)
    PROVE  u = w
<1>1. u \in Nat /\ w \in Nat /\ Number(A, u) \in Nat /\ Number(A, w) \in Nat
  BY NumberIsNat
<1>2. ~(u < w) /\ ~(w < u)
  BY <1>1, NumberOrder
<1> QED
  BY <1>1, <1>2

(* Without r the numbers before it stay and the ones behind it move up.    *)
LEMMA NumberWithout ==
    ASSUME NEW A \in SUBSET Nat, NEW r \in A, NEW u \in A, u # r
    PROVE  /\ u < r => Number(A \ {r}, u) = Number(A, u)
           /\ u > r => Number(A \ {r}, u) = Number(A, u) - 1
<1>1. CASE u < r
  <2>1. Upto(A \ {r}, u) = Upto(A, u)
    BY <1>1 DEF Upto
  <2> QED
    BY <1>1, <2>1, NumberSame
<1>2. CASE u > r
  <2>1. Upto(A \ {r}, u) = Upto(A, u) \ {r} /\ r \in Upto(A, u)
    BY <1>2 DEF Upto
  <2>2. Cardinality(Upto(A, u) \ {r}) = Cardinality(Upto(A, u)) - 1
    BY <2>1, NumberIsNat, FS_RemoveElement
  <2>3. A \ {r} \in SUBSET Nat /\ u \in Nat /\ r \in Nat
    OBVIOUS
  <2>4. Number(A \ {r}, u) = Cardinality(Upto(A \ {r}, u))
    BY <2>3, NumberIsNat
  <2>5. Number(A, u) = Cardinality(Upto(A, u))
    BY <2>3, NumberIsNat
  <2>6. Number(A \ {r}, u) = Number(A, u) - 1
    BY <2>1, <2>2, <2>4, <2>5
  <2> QED
    BY <1>2, <2>3, <2>6
<1> QED
  BY <1>1, <1>2

LEMMA NumberedTypes ==
    ASSUME NEW A \in SUBSET Nat
    PROVE  Numbered(A) \subseteq Nat \X Nat
  BY NumberIsNat DEF Numbered

(* What is told of a listing is right of it, and of whatever it grows to.  *)
LEMMA NumberedRight ==
    ASSUME NEW A \in SUBSET Nat
    PROVE  Right(Numbered(A), A)
  BY DEF Numbered, Right

LEMMA BeginsUpto ==
    ASSUME NEW A \in SUBSET Nat, NEW B \in SUBSET Nat, BeginsWith(B, A), NEW u \in A
    PROVE  u \in B /\ Upto(A, u) = Upto(B, u)
<1>1. A \subseteq B /\ \A v \in B \ A : u < v
  BY DEF BeginsWith
<1>2. \A v \in B : v <= u => v \in A
  BY <1>1
<1> QED
  BY <1>1, <1>2 DEF Upto

LEMMA RightGrows ==
    ASSUME NEW A \in SUBSET Nat, NEW B \in SUBSET Nat, BeginsWith(B, A),
           NEW known, Right(known, A)
    PROVE  Right(known, B)
<1>1. SUFFICES ASSUME NEW p \in known
               PROVE  p[2] \in B /\ Number(B, p[2]) = p[1]
  BY DEF Right
<1>2. p[2] \in A /\ Number(A, p[2]) = p[1]
  BY DEF Right
<1> DEFINE u == p[2]
<1>3. u \in B /\ Upto(A, u) = Upto(B, u)
  <2>1. u \in A
    BY <1>2
  <2> HIDE DEF u
  <2> QED
    BY <2>1, BeginsUpto
<1> QED
  BY <1>2, <1>3, NumberSame

(* A client counts along with "* n EXPUNGE".                               *)
LEMMA ForgetRight ==
    ASSUME NEW A \in SUBSET Nat, NEW r \in A, NEW known \in SUBSET (Nat \X Nat),
           Right(known, A)
    PROVE  Right(Forget(known, Number(A, r)), A \ {r})
<1> DEFINE n == Number(A, r)
<1>1. n \in Nat /\ r \in Nat
  BY NumberIsNat
<1>2. ASSUME NEW p \in known
      PROVE  /\ p[2] \in A /\ p[2] \in Nat /\ p[1] \in Nat /\ Number(A, p[2]) = p[1]
             /\ p[1] < n => p[2] < r
             /\ p[1] > n => p[2] > r
  <2>1. p[2] \in A /\ p[2] \in Nat /\ p[1] \in Nat /\ Number(A, p[2]) = p[1]
    BY <1>2 DEF Right
  <2>2. p[2] < r => p[1] < n
    BY <2>1, NumberOrder
  <2>3. r < p[2] => n < p[1]
    BY <2>1, NumberOrder
  <2>4. p[2] = r => p[1] = n
    BY <2>1
  <2> HIDE DEF n
  <2> QED
    BY <1>1, <2>1, <2>2, <2>3, <2>4
<1> HIDE DEF n
<1>3. SUFFICES ASSUME NEW p \in Forget(known, n)
               PROVE  p[2] \in A \ {r} /\ Number(A \ {r}, p[2]) = p[1]
  BY DEF Right, n
<1>4. CASE p \in known /\ p[1] < n
  <2>1. p[2] \in A /\ p[2] < r /\ Number(A, p[2]) = p[1] /\ p[2] # r
    BY <1>1, <1>2, <1>4
  <2> QED
    BY <2>1, NumberWithout
<1>5. ASSUME NEW q \in known, q[1] > n, p = <<q[1] - 1, q[2]>>
      PROVE  p[2] \in A \ {r} /\ Number(A \ {r}, p[2]) = p[1]
  <2>1. q[2] \in A /\ q[2] > r /\ Number(A, q[2]) = q[1] /\ q[2] # r
    BY <1>1, <1>2, <1>5
  <2>2. Number(A \ {r}, q[2]) = q[1] - 1
    BY <2>1, NumberWithout
  <2> QED
    BY <1>5, <2>1, <2>2
<1> QED
  BY <1>3, <1>4, <1>5 DEF Forget

LEMMA ForgetTypes ==
    ASSUME NEW known \in SUBSET (Nat \X Nat), NEW n \in Nat
    PROVE  Forget(known, n) \in SUBSET (Nat \X Nat)
<1>1. \A q \in known : q[1] \in Nat /\ q[2] \in Nat /\ (q[1] > n => q[1] - 1 \in Nat)
  OBVIOUS
<1>2. \A q \in known : q[1] > n => <<q[1] - 1, q[2]>> \in Nat \X Nat
  BY <1>1
<1> QED
  BY <1>2 DEF Forget

-----------------------------------------------------------------------------
(* Types.                                                                  *)

(* A line is answered, and what follows keeps its type.                    *)
Answered(c) ==
    /\ queue[c] # <<>>
    /\ queue' = [queue EXCEPT ![c] = Tail(@)]
    /\ work' = [work EXCEPT ![c] = NoWork]

LEMMA TailTypes ==
    ASSUME ImapTypes, NEW c \in Conns, Answered(c)
    PROVE  /\ queue' \in [Conns -> Seq(QueueLine)]
           /\ work' \in [Conns -> WorkType]
<1>1. Tail(queue[c]) \in Seq(QueueLine)
  BY DEF ImapTypes, ConnTypes, Answered
<1>2. NoWork \in WorkType
  BY DEF NoWork, WorkType, BoxIds
<1> QED
  BY <1>1, <1>2 DEF ImapTypes, ConnTypes, DataTypes, Answered

LEMMA AnswerTypes ==
    ASSUME ImapTypes, NEW c \in Conns, Answer(c), links[c] > 0, queue[c] # <<>>
    PROVE  Answered(c) /\ links' \in [Conns -> Nat]
<1>1. Answered(c)
  BY DEF Answer, Answered
<1>2. links[c] \in Nat /\ Len(queue[c]) \in Nat
  BY DEF ImapTypes, ConnTypes
<1>3. (IF links[c] < Len(queue[c]) THEN links[c] ELSE links[c] - 1) \in Nat
  BY <1>2
<1> QED
  BY <1>1, <1>3 DEF ImapTypes, ConnTypes, Answer

LEMMA EndTypes ==
    ASSUME ImapTypes, NEW c \in Conns, AnswerAndEnd(c), links[c] > 0, queue[c] # <<>>
    PROVE  /\ Answered(c) /\ links' \in [Conns -> Nat]
           /\ socket' \in [Conns -> {"open", "ended", "closed"}]
<1>1. Answered(c)
  BY DEF AnswerAndEnd, Answered
<1>2. links[c] \in Nat
  BY DEF ImapTypes, ConnTypes
<1>3. (IF Len(queue[c]) = 1 THEN 0 ELSE links[c] - 1) \in Nat
  BY <1>2
<1> QED
  BY <1>1, <1>3 DEF ImapTypes, ConnTypes, AnswerAndEnd

LEMMA CleanUpTypes ==
    ASSUME ImapTypes, NEW c \in Conns, CleanUp(c) \/ ClearIdle(c)
    PROVE  /\ idle' \in [Conns -> BOOLEAN] /\ subs' \in [Conns -> Seq(BoxIds)]
<1>1. CASE ClearIdle(c)
  <2>1. (IF subs[c] = <<>> THEN subs[c] ELSE Front(subs[c])) \in Seq(BoxIds)
    BY DEF ImapTypes, ConnTypes, Front
  <2> QED
    BY <1>1, <2>1 DEF ImapTypes, ConnTypes, ClearIdle
<1>2. CASE UNCHANGED <<idle, subs>>
  BY <1>2 DEF ImapTypes, ConnTypes
<1> QED
  BY <1>1, <1>2 DEF CleanUp

LEMMA SendTypes ==
    ASSUME ImapTypes, NEW c \in Conns, Send(c)
    PROVE  ImapTypes'
<1>1. PICK k \in 1..2, n \in 1..MaxUid :
    LET lines == [i \in 1..k |-> [cmd |-> script[c][i].cmd, arg |-> script[c][i].arg,
                                  by |-> script[c][i].by, n |-> n]]
        first == script[c][1] IN
    /\ k <= Len(script[c])
    /\ queue' = [queue EXCEPT ![c] = @ \o lines]
    /\ links' = [links EXCEPT ![c] = IF dead[c] THEN @ ELSE @ + 1]
    /\ script' = [script EXCEPT ![c] = SubSeq(@, k + 1, Len(@))]
    /\ rude' = [rude EXCEPT ![c] = @ \/ (Idles(c) /\ first.cmd # "DONE")
                                     \/ (k = 2 /\ first.cmd = "IDLE"
                                               /\ lines[2].cmd # "DONE")]
    /\ meant' = IF first.cmd = "STORE" /\ first.arg = "+"
                THEN meant \cup ({selected[c]} \X Behind(c, first.by, n)) ELSE meant
  BY DEF Send
<1> USE DEF ImapTypes, ConnTypes, DataTypes, ClientTypes
<1> DEFINE lines == [i \in 1..k |-> [cmd |-> script[c][i].cmd, arg |-> script[c][i].arg,
                                     by |-> script[c][i].by, n |-> n]]
<1>2. MaxUid \in Nat
  BY ImapAssumption
<1>3. \A i \in 1..k : script[c][i] \in LineType
  BY <1>1
<1>4. lines \in Seq(QueueLine)
  <2>1. \A i \in 1..k : [cmd |-> script[c][i].cmd, arg |-> script[c][i].arg,
                         by |-> script[c][i].by, n |-> n] \in QueueLine
    <3>1. TAKE i \in 1..k
    <3>2. n \in Nat
      BY <1>2
    <3>3. script[c][i].cmd \in Cmds /\ script[c][i].arg \in Args /\ script[c][i].by \in Bys
      BY <1>3 DEF LineType, Cmds, Args, Bys
    <3> QED
      BY <3>2, <3>3 DEF QueueLine
  <2> QED
    BY <2>1
<1>5. queue[c] \o lines \in Seq(QueueLine)
  BY <1>4
<1>6. SubSeq(script[c], k + 1, Len(script[c])) \in Seq(LineType)
  BY <1>1
<1>7. Behind(c, script[c][1].by, n) \subseteq Nat
  BY DEF Behind
<1>8. queue' \in [Conns -> Seq(QueueLine)]
  BY <1>1, <1>5
<1>9. links' \in [Conns -> Nat]
  <2>1. links' = [links EXCEPT ![c] = IF dead[c] THEN @ ELSE @ + 1]
    BY <1>1, Zenon
  <2> QED
    BY <2>1
<1>10. script' \in [Conns -> Seq(LineType)]
  BY <1>1, <1>6
<1>11. rude' \in [Conns -> BOOLEAN]
  BY <1>1
<1>12. meant' \subseteq BoxIds \X Nat
  BY <1>1, <1>7
<1>13. UNCHANGED <<socket, dead, state, selected, idle, subs, work, boxes, left, view,
                   stale, astray, gone>>
  BY DEF Send, dataVars
<1> HIDE DEF lines
<1> QED
  BY <1>8, <1>9, <1>10, <1>11, <1>12, <1>13

(* The actions that leave the tables and the clients alone.                *)
QuietSteps(c) ==
    \/ Refuse(c) \/ AfterLogout(c) \/ Reject(c) \/ ReadOnly(c) \/ Login(c) \/ Logout(c)
    \/ StartIdle(c) \/ StopIdle(c) \/ SelectReads(c) \/ CreateReads(c)

LEMMA AtLine ==
    ASSUME ImapTypes, NEW c \in Conns, NEW cmd, NEW step, At(c, cmd, step)
    PROVE  /\ links[c] > 0 /\ queue[c] # <<>> /\ Cmd(c) = cmd /\ work[c].step = step
           /\ state[c] # "LOGOUT" /\ Line(c) = queue[c][1] /\ Line(c) \in QueueLine
  BY DEF At, Cmd, Line, ImapTypes, ConnTypes

LEMMA StepTypes ==
    ASSUME NEW w \in WorkType, NEW step \in 0..3
    PROVE  [w EXCEPT !.step = step] \in WorkType
  BY DEF WorkType

LEMMA FlaggedTypes ==
    ASSUME NEW w \in WorkType, NEW f \in SUBSET Nat
    PROVE  [w EXCEPT !.flagged = f] \in WorkType
  BY DEF WorkType

LEMMA QuietTypes ==
    ASSUME ImapTypes, NEW c \in Conns, QuietSteps(c)
    PROVE  ImapTypes'
<1>1. CASE Refuse(c)
  <2>1. links[c] > 0 /\ queue[c] # <<>>
    BY <1>1, AtLine DEF Refuse
  <2>2. Answer(c)
    BY <1>1 DEF Refuse
  <2>3. Answered(c) /\ links' \in [Conns -> Nat]
    BY <2>1, <2>2, AnswerTypes
  <2>4. queue' \in [Conns -> Seq(QueueLine)] /\ work' \in [Conns -> WorkType]
    BY <2>3, TailTypes
  <2> QED
    BY <1>1, <2>3, <2>4 DEF Refuse, ImapTypes, ConnTypes, DataTypes, ClientTypes, dataVars,
       clientVars, history
<1>2. CASE AfterLogout(c)
  <2>1. links[c] > 0 /\ queue[c] # <<>> /\ AnswerAndEnd(c)
    BY <1>2 DEF AfterLogout
  <2>2. /\ Answered(c) /\ links' \in [Conns -> Nat]
        /\ socket' \in [Conns -> {"open", "ended", "closed"}]
    BY <2>1, EndTypes
  <2>3. queue' \in [Conns -> Seq(QueueLine)] /\ work' \in [Conns -> WorkType]
    BY <2>2, TailTypes
  <2> QED
    BY <1>2, <2>2, <2>3 DEF AfterLogout, ImapTypes, ConnTypes, DataTypes, ClientTypes, dataVars,
       clientVars, history
<1>3. CASE Reject(c)
  <2>1. queue[c] # <<>>
    BY <1>3, AtLine DEF Reject, Awaits
  <2>2. Answered(c)
    BY <1>3, <2>1 DEF Reject, Answered
  <2>3. queue' \in [Conns -> Seq(QueueLine)] /\ work' \in [Conns -> WorkType]
    BY <2>2, TailTypes
  <2>4. left' \in [{"fails", "removals", "hangups"} -> Nat]
    BY <1>3 DEF Reject, Spend, ImapTypes, DataTypes
  <2>5. dead' \in [Conns -> BOOLEAN]
    BY <1>3 DEF Reject, ImapTypes, ConnTypes
  <2>6. stale' \in [Conns -> BOOLEAN]
    BY <1>3 DEF Reject, ImapTypes, ClientTypes
  <2> QED
    BY <1>3, <2>3, <2>4, <2>5, <2>6 DEF Reject, ImapTypes, ConnTypes, DataTypes, ClientTypes,
       clientVars
<1>4. CASE ReadOnly(c)
  <2>1. links[c] > 0 /\ queue[c] # <<>> /\ Answer(c)
    BY <1>4, AtLine DEF ReadOnly, Lists, Status
  <2>2. Answered(c) /\ links' \in [Conns -> Nat]
    BY <2>1, AnswerTypes
  <2>3. queue' \in [Conns -> Seq(QueueLine)] /\ work' \in [Conns -> WorkType]
    BY <2>2, TailTypes
  <2> QED
    BY <1>4, <2>2, <2>3 DEF ReadOnly, ImapTypes, ConnTypes, DataTypes, ClientTypes, dataVars,
       clientVars, history
<1>5. CASE Login(c)
  <2>1. links[c] > 0 /\ queue[c] # <<>> /\ Answer(c)
    BY <1>5, AtLine DEF Login
  <2>2. Answered(c) /\ links' \in [Conns -> Nat]
    BY <2>1, AnswerTypes
  <2>3. queue' \in [Conns -> Seq(QueueLine)] /\ work' \in [Conns -> WorkType]
    BY <2>2, TailTypes
  <2>4. state' \in [Conns -> StateType]
    BY <1>5 DEF Login, ImapTypes, ConnTypes, StateType
  <2> QED
    BY <1>5, <2>2, <2>3, <2>4 DEF Login, ImapTypes, ConnTypes, DataTypes, ClientTypes, dataVars,
       clientVars, history
<1>6. CASE Logout(c)
  <2>1. links[c] > 0 /\ queue[c] # <<>> /\ AnswerAndEnd(c) /\ CleanUp(c)
    BY <1>6, AtLine DEF Logout
  <2>2. /\ Answered(c) /\ links' \in [Conns -> Nat]
        /\ socket' \in [Conns -> {"open", "ended", "closed"}]
    BY <2>1, EndTypes
  <2>3. queue' \in [Conns -> Seq(QueueLine)] /\ work' \in [Conns -> WorkType]
    BY <2>2, TailTypes
  <2>4. state' \in [Conns -> StateType]
    BY <1>6 DEF Logout, ImapTypes, ConnTypes, StateType
  <2>5. idle' \in [Conns -> BOOLEAN] /\ subs' \in [Conns -> Seq(BoxIds)]
    BY <2>1, CleanUpTypes
  <2> QED
    BY <1>6, <2>2, <2>3, <2>4, <2>5 DEF Logout, ImapTypes, ConnTypes, DataTypes, ClientTypes,
       dataVars, clientVars, history
<1>7. CASE StartIdle(c)
  <2>1. links[c] > 0 /\ queue[c] # <<>> /\ Answer(c)
    BY <1>7, AtLine DEF StartIdle, MayIdle
  <2>2. Answered(c) /\ links' \in [Conns -> Nat]
    BY <2>1, AnswerTypes
  <2>3. queue' \in [Conns -> Seq(QueueLine)] /\ work' \in [Conns -> WorkType]
    BY <2>2, TailTypes
  <2>4. idle' \in [Conns -> BOOLEAN]
    BY <1>7 DEF StartIdle, ImapTypes, ConnTypes
  <2>5. subs' \in [Conns -> Seq(BoxIds)]
    <3>1. Append(subs[c], selected[c]) \in Seq(BoxIds)
      BY DEF ImapTypes, ConnTypes
    <3> QED
      BY <1>7, <3>1 DEF StartIdle, Subscribe, ImapTypes, ConnTypes
  <2> QED
    BY <1>7, <2>2, <2>3, <2>4, <2>5 DEF StartIdle, ImapTypes, ConnTypes, DataTypes, ClientTypes,
       dataVars, clientVars, history
<1>8. CASE StopIdle(c)
  <2>1. links[c] > 0 /\ queue[c] # <<>> /\ Answer(c) /\ ClearIdle(c)
    BY <1>8, AtLine DEF StopIdle
  <2>2. Answered(c) /\ links' \in [Conns -> Nat]
    BY <2>1, AnswerTypes
  <2>3. queue' \in [Conns -> Seq(QueueLine)] /\ work' \in [Conns -> WorkType]
    BY <2>2, TailTypes
  <2>4. idle' \in [Conns -> BOOLEAN] /\ subs' \in [Conns -> Seq(BoxIds)]
    BY <2>1, CleanUpTypes
  <2> QED
    BY <1>8, <2>2, <2>3, <2>4 DEF StopIdle, ImapTypes, ConnTypes, DataTypes, ClientTypes,
       dataVars, clientVars, history
<1>9. CASE SelectReads(c)
  <2>1. /\ queue' \in [Conns -> Seq(QueueLine)] /\ work' \in [Conns -> WorkType]
        /\ links' \in [Conns -> Nat]
    <3>1. CASE Answer(c)
      BY <1>9, <3>1, AtLine, AnswerTypes, TailTypes DEF SelectReads
    <3>2. CASE ~Answer(c)
      <4>1. PICK b \in Named(Line(c).arg) :
               work' = [work EXCEPT ![c] =
                           [step |-> 1, box |-> b, uids |-> {}, flagged |-> {}]]
        BY <1>9, <3>2 DEF SelectReads
      <4>2. [step |-> 1, box |-> b, uids |-> {}, flagged |-> {}] \in WorkType
        BY DEF Named, BoxIds, WorkType
      <4> QED
        BY <1>9, <3>2, <4>1, <4>2 DEF SelectReads, ImapTypes, ConnTypes, DataTypes
    <3> QED
      BY <3>1, <3>2
  <2> QED
    BY <1>9, <2>1 DEF SelectReads, ImapTypes, ConnTypes, DataTypes, ClientTypes, dataVars,
       clientVars, history
<1>10. CASE CreateReads(c)
  <2>1. /\ queue' \in [Conns -> Seq(QueueLine)] /\ work' \in [Conns -> WorkType]
        /\ links' \in [Conns -> Nat]
    <3>1. CASE Answer(c)
      BY <1>10, <3>1, AtLine, AnswerTypes, TailTypes DEF CreateReads
    <3>2. CASE ~Answer(c)
      <4>1. work' = [work EXCEPT ![c].step = 1] /\ UNCHANGED <<queue, links>>
        BY <1>10, <3>2 DEF CreateReads
      <4>2. [work[c] EXCEPT !.step = 1] \in WorkType
        <5>1. work[c] \in WorkType /\ 1 \in 0..3
          BY DEF ImapTypes, DataTypes
        <5> QED
          BY <5>1, StepTypes
      <4>3. work' = [work EXCEPT ![c] = [work[c] EXCEPT !.step = 1]]
        BY <4>1 DEF ImapTypes, DataTypes
      <4> QED
        BY <4>1, <4>2, <4>3 DEF ImapTypes, ConnTypes, DataTypes
    <3> QED
      BY <3>1, <3>2
  <2> QED
    BY <1>10, <2>1 DEF CreateReads, ImapTypes, ConnTypes, DataTypes, ClientTypes, dataVars,
       clientVars, history
<1> QED
  BY <1>1, <1>2, <1>3, <1>4, <1>5, <1>6, <1>7, <1>8, <1>9, <1>10 DEF QuietSteps

-----------------------------------------------------------------------------
(* The rows.                                                               *)

(* No mailbox goes back in its UIDs.                                       *)
Later(old, new) ==
    /\ Len(old) <= Len(new)
    /\ \A b \in 1..Len(old) :
          /\ old[b].next <= new[b].next
          /\ \A u \in new[b].uids \ old[b].uids : old[b].next <= u

LEMMA BoxFields ==
    ASSUME ImapTypes, NEW b \in 1..Len(boxes)
    PROVE  /\ boxes[b] \in BoxType
           /\ boxes[b].name \in Args /\ boxes[b].there \in BOOLEAN /\ boxes[b].next \in Nat
           /\ boxes[b].uids \subseteq Nat /\ boxes[b].flagged \subseteq Nat
<1>1. boxes[b] \in BoxType
  BY DEF ImapTypes, DataTypes
<1> QED
  BY <1>1 DEF BoxType

(* A mailbox is written anew.                                              *)
LEMMA OneBox ==
    ASSUME ImapTypes, RowsOK, NEW b \in 1..Len(boxes), NEW new \in BoxType,
           boxes' = [boxes EXCEPT ![b] = new],
           new.flagged \subseteq new.uids, \A u \in new.uids : u < new.next,
           boxes[b].next <= new.next, \A u \in new.uids \ boxes[b].uids : boxes[b].next <= u
    PROVE  /\ boxes' \in Seq(BoxType) /\ RowsOK' /\ Later(boxes, boxes')
           /\ Len(boxes') = Len(boxes) /\ boxes'[b] = new
           /\ \A d \in 1..Len(boxes) : d # b => boxes'[d] = boxes[d]
<1>1. boxes \in Seq(BoxType)
  BY DEF ImapTypes, DataTypes
<1>2. /\ boxes' \in Seq(BoxType) /\ Len(boxes') = Len(boxes) /\ boxes'[b] = new
      /\ \A d \in 1..Len(boxes) : d # b => boxes'[d] = boxes[d]
  BY <1>1
<1>3. RowsOK'
  BY <1>2 DEF RowsOK
<1>4. \A d \in 1..Len(boxes) : boxes[d].next \in Nat
  BY BoxFields
<1>5. Later(boxes, boxes')
  BY <1>1, <1>2, <1>4 DEF Later
<1> QED
  BY <1>2, <1>3, <1>5

LEMMA IsBox ==
    ASSUME NEW name, NEW there, NEW next, NEW uids, NEW flagged,
           NEW x \in [name : {name}, there : {there}, next : {next}, uids : {uids},
                      flagged : {flagged}]
    PROVE  x = [name |-> name, there |-> there, next |-> next, uids |-> uids,
                flagged |-> flagged]
  OBVIOUS

LEMMA AddRowBoxes ==
    ASSUME ImapTypes, RowsOK, NEW b \in 1..Len(boxes), NEW f \in BOOLEAN, AddRow(b, f)
    PROVE  LET new == boxes[b].next IN
           /\ boxes' \in Seq(BoxType) /\ RowsOK' /\ Later(boxes, boxes')
           /\ Len(boxes') = Len(boxes)
           /\ \A d \in 1..Len(boxes) :
                /\ boxes[d].uids \subseteq boxes'[d].uids
                /\ \A u \in boxes'[d].flagged :
                      u \in boxes[d].flagged \/ (f /\ d = b /\ u = new)
<1> DEFINE new == boxes[b].next
           x == [boxes[b] EXCEPT !.next = @ + 1, !.uids = @ \cup {new},
                                 !.flagged = IF f THEN @ \cup {new} ELSE @]
           g == IF f THEN boxes[b].flagged \cup {new} ELSE boxes[b].flagged
           y == [name |-> boxes[b].name, there |-> boxes[b].there, next |-> new + 1,
                 uids |-> boxes[b].uids \cup {new}, flagged |-> g]
<1>1. boxes' = [boxes EXCEPT ![b] = x]
  BY DEF AddRow, ImapTypes, DataTypes
<1>2. boxes[b] \in BoxType /\ new \in Nat /\ g \subseteq Nat
  BY BoxFields
<1>3. x \in [name : {boxes[b].name}, there : {boxes[b].there}, next : {new + 1},
             uids : {boxes[b].uids \cup {new}}, flagged : {g}]
  BY <1>2 DEF BoxType
<1> HIDE DEF x
<1>4. x = y
  BY <1>3, IsBox
<1>5. y \in BoxType
  <2>1. /\ boxes[b].name \in Args /\ boxes[b].there \in BOOLEAN
        /\ boxes[b].uids \cup {new} \in SUBSET Nat
    BY <1>2, BoxFields
  <2> HIDE DEF g
  <2> QED
    BY <1>2, <2>1 DEF BoxType
<1>6. /\ y.flagged \subseteq y.uids /\ \A u \in y.uids : u < y.next
      /\ boxes[b].next <= y.next /\ \A u \in y.uids \ boxes[b].uids : boxes[b].next <= u
  BY <1>2, BoxFields DEF RowsOK
<1>7. /\ boxes' \in Seq(BoxType) /\ RowsOK' /\ Later(boxes, boxes')
      /\ Len(boxes') = Len(boxes) /\ boxes'[b] = y
      /\ \A d \in 1..Len(boxes) : d # b => boxes'[d] = boxes[d]
  <2> HIDE DEF y
  <2> QED
    BY <1>1, <1>4, <1>5, <1>6, OneBox
<1>8. y.uids = boxes[b].uids \cup {new} /\ y.flagged = g
  OBVIOUS
<1> QED
  BY <1>7, <1>8

(* The same rows are flagged, or fewer, and a mailbox keeps its rows but   *)
(* those taken away.                                                       *)
Fewer(b, uids) ==
    /\ boxes' \in Seq(BoxType) /\ RowsOK' /\ Later(boxes, boxes')
    /\ Len(boxes') = Len(boxes)
    /\ boxes'[b].uids = boxes[b].uids \ uids
    /\ \A d \in 1..Len(boxes) :
          /\ d # b => boxes'[d].uids = boxes[d].uids
          /\ boxes'[d].flagged \subseteq boxes[d].flagged

LEMMA TakeAwayBoxes ==
    ASSUME ImapTypes, RowsOK, NEW c, NEW b \in 1..Len(boxes), NEW uids,
           TakeAway(c, b, uids)
    PROVE  /\ Fewer(b, uids)
           /\ stale' \in [Conns -> BOOLEAN]
           /\ \A d \in Conns :
                 /\ d = c => stale'[d] = stale[d]
                 /\ stale[d] => stale'[d]
                 /\ d # c /\ selected[d] = b /\ uids \cap boxes[b].uids # {} => stale'[d]
<1> DEFINE x == [boxes[b] EXCEPT !.uids = @ \ uids, !.flagged = @ \ uids]
           y == [name |-> boxes[b].name, there |-> boxes[b].there, next |-> boxes[b].next,
                 uids |-> boxes[b].uids \ uids, flagged |-> boxes[b].flagged \ uids]
<1>1. boxes' = [boxes EXCEPT ![b] = x]
  BY DEF TakeAway, ImapTypes, DataTypes
<1>2. boxes[b] \in BoxType
  BY BoxFields
<1>3. x \in [name : {boxes[b].name}, there : {boxes[b].there}, next : {boxes[b].next},
             uids : {boxes[b].uids \ uids}, flagged : {boxes[b].flagged \ uids}]
  BY <1>2 DEF BoxType
<1> HIDE DEF x
<1>4. x = y
  BY <1>3, IsBox
<1>5. y \in BoxType
  BY BoxFields DEF BoxType
<1>6. /\ y.flagged \subseteq y.uids /\ \A u \in y.uids : u < y.next
      /\ boxes[b].next <= y.next /\ \A u \in y.uids \ boxes[b].uids : boxes[b].next <= u
  BY BoxFields DEF RowsOK
<1>7. /\ boxes' \in Seq(BoxType) /\ RowsOK' /\ Later(boxes, boxes')
      /\ Len(boxes') = Len(boxes) /\ boxes'[b] = y
      /\ \A d \in 1..Len(boxes) : d # b => boxes'[d] = boxes[d]
  <2> HIDE DEF y
  <2> QED
    BY <1>1, <1>4, <1>5, <1>6, OneBox
<1>8. y.uids = boxes[b].uids \ uids /\ y.flagged = boxes[b].flagged \ uids
  OBVIOUS
<1>9. Fewer(b, uids)
  BY <1>7, <1>8 DEF Fewer
<1> HIDE DEF y
<1>10. stale' = [d \in Conns |-> stale[d] \/ ( /\ d # c /\ selected[d] = b
                                               /\ uids \cap boxes[b].uids # {})]
  BY DEF TakeAway
<1>11. stale' \in [Conns -> BOOLEAN] /\ \A d \in Conns : stale[d] \in BOOLEAN
  BY <1>10 DEF ImapTypes, ClientTypes
<1> QED
  BY <1>9, <1>10, <1>11

LEMMA DeleteBoxes ==
    ASSUME ImapTypes, RowsOK, NEW b \in 1..Len(boxes),
           boxes' = [boxes EXCEPT ![b].there = FALSE, ![b].uids = {}, ![b].flagged = {}]
    PROVE  Fewer(b, boxes[b].uids)
<1> DEFINE x == [boxes[b] EXCEPT !.there = FALSE, !.uids = {}, !.flagged = {}]
           y == [name |-> boxes[b].name, there |-> FALSE, next |-> boxes[b].next,
                 uids |-> {}, flagged |-> {}]
<1>1. boxes' = [boxes EXCEPT ![b] = x]
  BY DEF ImapTypes, DataTypes
<1>2. boxes[b] \in BoxType
  BY BoxFields
<1>3. x \in [name : {boxes[b].name}, there : {FALSE}, next : {boxes[b].next},
             uids : {{}}, flagged : {{}}]
  BY <1>2 DEF BoxType
<1> HIDE DEF x
<1>4. x = y
  BY <1>3, IsBox
<1>5. y \in BoxType
  BY BoxFields DEF BoxType
<1>6. /\ y.flagged \subseteq y.uids /\ \A u \in y.uids : u < y.next
      /\ boxes[b].next <= y.next /\ \A u \in y.uids \ boxes[b].uids : boxes[b].next <= u
  BY BoxFields
<1>7. /\ boxes' \in Seq(BoxType) /\ RowsOK' /\ Later(boxes, boxes')
      /\ Len(boxes') = Len(boxes) /\ boxes'[b] = y
      /\ \A d \in 1..Len(boxes) : d # b => boxes'[d] = boxes[d]
  <2> HIDE DEF y
  <2> QED
    BY <1>1, <1>4, <1>5, <1>6, OneBox
<1>8. y.uids = {} /\ y.flagged = {}
  OBVIOUS
<1> HIDE DEF y
<1> QED
  BY <1>7, <1>8 DEF Fewer

LEMMA FlagBoxes ==
    ASSUME ImapTypes, RowsOK, NEW b \in 1..Len(boxes), NEW f \in SUBSET boxes[b].uids,
           boxes' = [boxes EXCEPT ![b].flagged = f]
    PROVE  /\ boxes' \in Seq(BoxType) /\ RowsOK' /\ Later(boxes, boxes')
           /\ Len(boxes') = Len(boxes) /\ boxes'[b].flagged = f
           /\ \A d \in 1..Len(boxes) :
                 boxes'[d].uids = boxes[d].uids /\ (d # b => boxes'[d] = boxes[d])
<1> DEFINE x == [boxes[b] EXCEPT !.flagged = f]
           y == [name |-> boxes[b].name, there |-> boxes[b].there, next |-> boxes[b].next,
                 uids |-> boxes[b].uids, flagged |-> f]
<1>1. boxes' = [boxes EXCEPT ![b] = x]
  BY DEF ImapTypes, DataTypes
<1>2. boxes[b] \in BoxType
  BY BoxFields
<1>3. x \in [name : {boxes[b].name}, there : {boxes[b].there}, next : {boxes[b].next},
             uids : {boxes[b].uids}, flagged : {f}]
  BY <1>2 DEF BoxType
<1> HIDE DEF x
<1>4. x = y
  BY <1>3, IsBox
<1>5. y \in BoxType
  BY BoxFields DEF BoxType
<1>6. /\ y.flagged \subseteq y.uids /\ \A u \in y.uids : u < y.next
      /\ boxes[b].next <= y.next /\ \A u \in y.uids \ boxes[b].uids : boxes[b].next <= u
  BY BoxFields DEF RowsOK
<1>7. /\ boxes' \in Seq(BoxType) /\ RowsOK' /\ Later(boxes, boxes')
      /\ Len(boxes') = Len(boxes) /\ boxes'[b] = y
      /\ \A d \in 1..Len(boxes) : d # b => boxes'[d] = boxes[d]
  <2> HIDE DEF y
  <2> QED
    BY <1>1, <1>4, <1>5, <1>6, OneBox
<1>8. y.uids = boxes[b].uids /\ y.flagged = f
  OBVIOUS
<1> HIDE DEF y
<1> QED
  BY <1>7, <1>8

LEMMA NewBox ==
    ASSUME ImapTypes, RowsOK, NEW name \in Args, boxes' = Append(boxes, Box(name, {}))
    PROVE  /\ boxes' \in Seq(BoxType) /\ RowsOK' /\ Later(boxes, boxes')
           /\ Len(boxes') = Len(boxes) + 1 /\ boxes'[Len(boxes) + 1].flagged = {}
           /\ \A d \in 1..Len(boxes) : boxes'[d] = boxes[d]
<1> DEFINE x == Box(name, {})
<1>1. x \in BoxType /\ x.flagged = {} /\ x.uids = {}
  BY FS_EmptySet DEF Box, BoxType
<1>2. boxes \in Seq(BoxType) /\ boxes' = Append(boxes, x)
  BY DEF ImapTypes, DataTypes
<1> HIDE DEF x
<1>3. /\ boxes' \in Seq(BoxType) /\ Len(boxes') = Len(boxes) + 1
      /\ boxes'[Len(boxes) + 1] = x /\ \A d \in 1..Len(boxes) : boxes'[d] = boxes[d]
  BY <1>1, <1>2
<1>4. \A d \in 1..Len(boxes') : d \in 1..Len(boxes) \/ d = Len(boxes) + 1
  BY <1>2, <1>3
<1>5. RowsOK'
  <2>1. SUFFICES ASSUME NEW d \in 1..Len(boxes')
                 PROVE  /\ boxes'[d].flagged \subseteq boxes'[d].uids
                        /\ \A u \in boxes'[d].uids : u < boxes'[d].next
    BY DEF RowsOK
  <2>2. CASE d \in 1..Len(boxes)
    BY <2>2, <1>3 DEF RowsOK
  <2>3. CASE d = Len(boxes) + 1
    BY <2>3, <1>1, <1>3
  <2> QED
    BY <2>2, <2>3, <1>4
<1>6. Later(boxes, boxes')
  <2>1. \A d \in 1..Len(boxes) : boxes[d].next \in Nat
    BY BoxFields
  <2>2. Len(boxes) \in Nat
    BY <1>2
  <2> QED
    BY <1>3, <2>1, <2>2 DEF Later
<1> QED
  BY <1>1, <1>3, <1>5, <1>6


-----------------------------------------------------------------------------
(* Types of the commands on mailboxes and messages, and what a connection  *)
(* sees of the steps of others: UIDs go up, and it is stale once a row of  *)
(* its mailbox is gone.                                                    *)

Unharmed(d) ==
    /\ Later(boxes, boxes')
    /\ stale[d] => stale'[d]
    /\ selected[d] # None /\ ~stale'[d] =>
         boxes[selected[d]].uids \subseteq boxes'[selected[d]].uids
    /\ meant \subseteq meant'
    /\ astray => astray'

LEMMA SameBoxes ==
    ASSUME ImapTypes, RowsOK, UNCHANGED boxes
    PROVE  RowsOK' /\ Later(boxes, boxes')
<1>1. \A d \in 1..Len(boxes) : boxes[d].next \in Nat
  BY BoxFields
<1>2. Len(boxes) \in Nat
  BY DEF ImapTypes, DataTypes
<1> QED
  BY <1>1, <1>2 DEF RowsOK, Later

LEMMA Undisturbed ==
    ASSUME ImapTypes, RowsOK, NEW d \in Conns, UNCHANGED boxes,
           stale[d] => stale'[d], meant \subseteq meant', astray => astray'
    PROVE  Unharmed(d)
  BY SameBoxes DEF Unharmed

LEMMA AnsweredTypes ==
    ASSUME ImapTypes, NEW c \in Conns, NEW cmd, NEW step, At(c, cmd, step), Answer(c)
    PROVE  /\ Answered(c) /\ links' \in [Conns -> Nat]
           /\ queue' \in [Conns -> Seq(QueueLine)] /\ work' \in [Conns -> WorkType]
  BY AtLine, AnswerTypes, TailTypes

(* The mailbox that a handler on messages has read is the one selected.    *)
LEMMA AtWork ==
    ASSUME ImapTypes, NEW c \in Conns, WorkOK(c), NEW cmd \in OnMessages, NEW step \in {1, 2, 3},
           At(c, cmd, step)
    PROVE  /\ Selected(c) /\ work[c].box = selected[c] /\ selected[c] \in 1..Len(boxes)
           /\ work[c].flagged \subseteq work[c].uids /\ work[c].uids \subseteq Nat
           /\ \A u \in work[c].uids : u < boxes[selected[c]].next
<1>1. work[c].step # 0 /\ Cmd(c) \in OnMessages
  BY AtLine
<1>2. work[c].uids \subseteq Nat
  BY DEF ImapTypes, DataTypes, WorkType
<1> QED
  BY <1>1, <1>2 DEF WorkOK, Selected

LEMMA FoundTypes ==
    ASSUME ImapTypes, NEW c \in Conns
    PROVE  /\ Numbered(Found(c)) \subseteq Nat \X Nat
           /\ Numbered(work[c].uids) \subseteq Nat \X Nat
<1>1. work[c].uids \in SUBSET Nat /\ Found(c) \in SUBSET Nat
  BY DEF ImapTypes, DataTypes, WorkType, Found
<1> QED
  BY <1>1, NumberedTypes

LEMMA SelectTypes ==
    ASSUME ImapTypes, RowsOK, NEW c \in Conns, Select(c)
    PROVE  ImapTypes' /\ RowsOK' /\ \A d \in Conns : Unharmed(d)
<1>1. /\ Answered(c) /\ links' \in [Conns -> Nat]
      /\ queue' \in [Conns -> Seq(QueueLine)] /\ work' \in [Conns -> WorkType]
  BY AnsweredTypes DEF Select
<1>2. state' \in [Conns -> StateType]
  BY DEF Select, ImapTypes, ConnTypes, StateType
<1>3. selected' \in [Conns -> BoxIds]
  BY DEF Select, ImapTypes, ConnTypes, DataTypes, WorkType
<1>4. view' \in [Conns -> SUBSET (Nat \X Nat)]
  BY DEF Select, ImapTypes, ClientTypes
<1>5. ImapTypes'
  BY <1>1, <1>2, <1>3, <1>4 DEF Select, ImapTypes, ConnTypes, DataTypes, ClientTypes, dataVars, clientVars, history
<1>6. UNCHANGED <<boxes, stale, meant, astray>>
  BY DEF Select, dataVars, history
<1> QED
  BY <1>5, <1>6, SameBoxes, Undisturbed

LEMMA CloseBoxTypes ==
    ASSUME ImapTypes, RowsOK, NEW c \in Conns, CloseBox(c)
    PROVE  ImapTypes' /\ RowsOK' /\ \A d \in Conns : Unharmed(d)
<1>1. /\ Answered(c) /\ links' \in [Conns -> Nat]
      /\ queue' \in [Conns -> Seq(QueueLine)] /\ work' \in [Conns -> WorkType]
  BY AnsweredTypes DEF CloseBox
<1>2. state' \in [Conns -> StateType]
  BY DEF CloseBox, ImapTypes, ConnTypes, StateType
<1>3. selected' \in [Conns -> BoxIds]
  BY DEF CloseBox, ImapTypes, ConnTypes, BoxIds
<1>4. view' \in [Conns -> SUBSET (Nat \X Nat)]
  BY DEF CloseBox, ImapTypes, ClientTypes
<1>5. ImapTypes'
  BY <1>1, <1>2, <1>3, <1>4 DEF CloseBox, ImapTypes, ConnTypes, DataTypes, ClientTypes, dataVars, clientVars, history
<1>6. UNCHANGED <<boxes, stale, meant, astray>>
  BY DEF CloseBox, dataVars, history
<1> QED
  BY <1>5, <1>6, SameBoxes, Undisturbed

LEMMA FetchTypes ==
    ASSUME ImapTypes, RowsOK, NEW c \in Conns, Fetch(c)
    PROVE  ImapTypes' /\ RowsOK' /\ \A d \in Conns : Unharmed(d)
<1>1. /\ Answered(c) /\ links' \in [Conns -> Nat]
      /\ queue' \in [Conns -> Seq(QueueLine)] /\ work' \in [Conns -> WorkType]
  BY AnsweredTypes DEF Fetch
<1>2. view' \in [Conns -> SUBSET (Nat \X Nat)]
  BY FoundTypes DEF Fetch, ImapTypes, ClientTypes
<1>3. ImapTypes'
  BY <1>1, <1>2 DEF Fetch, ImapTypes, ConnTypes, DataTypes, ClientTypes, dataVars, clientVars, history
<1>4. UNCHANGED <<boxes, stale, meant, astray>>
  BY DEF Fetch, dataVars, history
<1> QED
  BY <1>3, <1>4, SameBoxes, Undisturbed

LEMMA SearchTypes ==
    ASSUME ImapTypes, RowsOK, NEW c \in Conns, Search(c)
    PROVE  ImapTypes' /\ RowsOK' /\ \A d \in Conns : Unharmed(d)
<1>1. /\ Answered(c) /\ links' \in [Conns -> Nat]
      /\ queue' \in [Conns -> Seq(QueueLine)] /\ work' \in [Conns -> WorkType]
  BY AnsweredTypes DEF Search
<1>2. view' \in [Conns -> SUBSET (Nat \X Nat)]
  BY FoundTypes DEF Search, ImapTypes, ClientTypes
<1>3. ImapTypes'
  BY <1>1, <1>2 DEF Search, ImapTypes, ConnTypes, DataTypes, ClientTypes, dataVars, clientVars, history
<1>4. UNCHANGED <<boxes, stale, meant, astray>>
  BY DEF Search, dataVars, history
<1> QED
  BY <1>3, <1>4, SameBoxes, Undisturbed

LEMMA ExpungeEndsTypes ==
    ASSUME ImapTypes, RowsOK, NEW c \in Conns, ExpungeEnds(c)
    PROVE  ImapTypes' /\ RowsOK' /\ \A d \in Conns : Unharmed(d)
<1>1. /\ Answered(c) /\ links' \in [Conns -> Nat]
      /\ queue' \in [Conns -> Seq(QueueLine)] /\ work' \in [Conns -> WorkType]
  BY AnsweredTypes DEF ExpungeEnds
<1>2. ImapTypes'
  BY <1>1 DEF ExpungeEnds, ImapTypes, ConnTypes, DataTypes, ClientTypes, dataVars, clientVars, history
<1>3. UNCHANGED <<boxes, stale, meant, astray>>
  BY DEF ExpungeEnds, dataVars, history
<1> QED
  BY <1>2, <1>3, SameBoxes, Undisturbed

LEMMA ExpungeCountsTypes ==
    ASSUME ImapTypes, RowsOK, NEW c \in Conns, ExpungeCounts(c)
    PROVE  ImapTypes' /\ RowsOK' /\ \A d \in Conns : Unharmed(d)
<1>1. work' \in [Conns -> WorkType]
  <2>1. work[c] \in WorkType /\ 3 \in 0..3
    BY DEF ImapTypes, DataTypes
  <2>2. [work[c] EXCEPT !.step = 3] \in WorkType
    BY <2>1, StepTypes
  <2> QED
    BY <2>2 DEF ExpungeCounts, ImapTypes, DataTypes
<1>2. ImapTypes'
  BY <1>1 DEF ExpungeCounts, ImapTypes, ConnTypes, DataTypes, ClientTypes, dataVars, clientVars, history
<1>3. UNCHANGED <<boxes, stale, meant, astray>>
  BY DEF ExpungeCounts, dataVars, history
<1> QED
  BY <1>2, <1>3, SameBoxes, Undisturbed

LEMMA QuietRows ==
    ASSUME ImapTypes, RowsOK, NEW c \in Conns,
           QuietSteps(c) \/ Send(c) \/ Close(c) \/ TimerFires(c)
    PROVE  ImapTypes' /\ RowsOK' /\ \A d \in Conns : Unharmed(d)
<1>1. /\ UNCHANGED <<boxes, astray>> /\ meant \subseteq meant'
      /\ \A d \in Conns : stale[d] => stale'[d]
  <2>0. CASE Reject(c)
    BY <2>0 DEF Reject, ImapTypes, ClientTypes
  <2>1. CASE QuietSteps(c) /\ ~Reject(c)
    BY <2>1 DEF QuietSteps, Refuse, AfterLogout, ReadOnly, Login, Logout, StartIdle,
       StopIdle, SelectReads, CreateReads, dataVars, history
  <2>2. CASE Send(c)
    BY <2>2 DEF Send, dataVars
  <2>3. CASE Close(c) \/ TimerFires(c)
    BY <2>3 DEF Close, TimerFires, dataVars, history
  <2> QED
    BY <2>0, <2>1, <2>2, <2>3
<1>2. ImapTypes'
  <2>1. CASE Close(c)
    <3>1. idle' \in [Conns -> BOOLEAN] /\ subs' \in [Conns -> Seq(BoxIds)]
      BY <2>1, CleanUpTypes DEF Close
    <3>2. socket' \in [Conns -> {"open", "ended", "closed"}]
      BY <2>1 DEF Close, ImapTypes, ConnTypes
    <3>3. left' \in [{"fails", "removals", "hangups"} -> Nat]
      BY <2>1 DEF Close, Spend, ImapTypes, DataTypes
    <3> QED
      BY <2>1, <3>1, <3>2, <3>3 DEF Close, ImapTypes, ConnTypes, DataTypes, ClientTypes,
         clientVars, history
  <2>2. CASE TimerFires(c)
    <3>1. idle' \in [Conns -> BOOLEAN] /\ subs' \in [Conns -> Seq(BoxIds)]
      BY <2>2, CleanUpTypes DEF TimerFires
    <3>2. socket' \in [Conns -> {"open", "ended", "closed"}]
      BY <2>2 DEF TimerFires, ImapTypes, ConnTypes
    <3> QED
      BY <2>2, <3>1, <3>2 DEF TimerFires, ImapTypes, ConnTypes, DataTypes, ClientTypes,
         dataVars, clientVars, history
  <2> QED
    BY <2>1, <2>2, QuietTypes, SendTypes
<1> QED
  BY <1>1, <1>2, SameBoxes, Undisturbed

Sound == ImapTypes /\ RowsOK /\ Len(boxes) >= 1 /\ \A d \in Conns : WorkOK(d)

LEMMA SeenBox ==
    ASSUME Sound, NEW d \in Conns, selected[d] # None
    PROVE  selected[d] \in 1..Len(boxes)
  BY DEF Sound, WorkOK

LEMMA CreateTypes ==
    ASSUME Sound, NEW c \in Conns, Create(c)
    PROVE  ImapTypes' /\ RowsOK' /\ \A d \in Conns : Unharmed(d)
<1>0. ImapTypes /\ RowsOK
  BY DEF Sound
<1>1. At(c, "CREATE", 1)
  BY DEF Create
<1>2. /\ boxes' \in Seq(BoxType) /\ RowsOK' /\ Later(boxes, boxes')
      /\ \A d \in 1..Len(boxes) : boxes'[d] = boxes[d]
  <2>1. CASE UNCHANGED boxes
    BY <1>0, <2>1, SameBoxes DEF ImapTypes, DataTypes
  <2>2. CASE boxes' = Append(boxes, Box(Line(c).arg, {}))
    <3>1. Line(c).arg \in Args
      BY <1>0, <1>1, AtLine DEF QueueLine
    <3> QED
      BY <1>0, <2>2, <3>1, NewBox
  <2> QED
    BY <2>1, <2>2 DEF Create
<1>3. /\ queue' \in [Conns -> Seq(QueueLine)] /\ work' \in [Conns -> WorkType]
      /\ links' \in [Conns -> Nat] /\ dead' \in [Conns -> BOOLEAN]
  <2>1. CASE Named(Line(c).arg) = {}
    BY <1>0, <1>1, <2>1, AnsweredTypes DEF Create, ImapTypes, ConnTypes
  <2>2. CASE Named(Line(c).arg) # {}
    <3>1. Answered(c)
      BY <1>0, <1>1, <2>2, AtLine DEF Create, Answered
    <3> QED
      BY <1>0, <2>2, <3>1, TailTypes DEF Create, ImapTypes, ConnTypes
  <2> QED
    BY <2>1, <2>2
<1>4. ImapTypes'
  BY <1>0, <1>2, <1>3 DEF Create, ImapTypes, ConnTypes, DataTypes, ClientTypes, clientVars, history
<1>5. UNCHANGED <<stale, meant, astray>>
  BY DEF Create, history
<1>6. ASSUME NEW d \in Conns
      PROVE  Unharmed(d)
  <2>1. selected[d] # None /\ ~stale'[d] =>
          boxes[selected[d]].uids \subseteq boxes'[selected[d]].uids
    BY <1>2, SeenBox
  <2> QED
    BY <1>2, <1>5, <2>1 DEF Unharmed
<1> QED
  BY <1>2, <1>4, <1>6

LEMMA DeleteTypes ==
    ASSUME Sound, NEW c \in Conns, Delete(c)
    PROVE  ImapTypes' /\ RowsOK' /\ \A d \in Conns : Unharmed(d)
<1>0. ImapTypes /\ RowsOK
  BY DEF Sound
<1>1. At(c, "DELETE", 0) /\ Answer(c)
  BY DEF Delete
<1>2. /\ Answered(c) /\ links' \in [Conns -> Nat]
      /\ queue' \in [Conns -> Seq(QueueLine)] /\ work' \in [Conns -> WorkType]
  BY <1>0, <1>1, AnsweredTypes
<1>3. meant' = meant /\ astray' = astray
  BY DEF Delete
<1>4. /\ boxes' \in Seq(BoxType) /\ RowsOK' /\ stale' \in [Conns -> BOOLEAN]
      /\ \A d \in Conns : Unharmed(d)
  <2>1. CASE UNCHANGED <<boxes, stale>>
    BY <1>0, <1>3, <2>1, SameBoxes, Undisturbed DEF ImapTypes, DataTypes, ClientTypes
  <2>2. CASE ~UNCHANGED <<boxes, stale>>
    <3>1. PICK b \in Named(Line(c).arg) :
             /\ boxes' = [boxes EXCEPT ![b].there = FALSE, ![b].uids = {}, ![b].flagged = {}]
             /\ stale' = [d \in Conns |-> stale[d] \/ selected[d] = b]
      BY <2>2 DEF Delete
    <3>2. b \in 1..Len(boxes)
      BY DEF Named
    <3>3. Fewer(b, boxes[b].uids)
      BY <1>0, <3>1, <3>2, DeleteBoxes
    <3>4. stale' \in [Conns -> BOOLEAN]
      BY <1>0, <3>1 DEF ImapTypes, ClientTypes
    <3>5. ASSUME NEW d \in Conns
          PROVE  Unharmed(d)
      <4>1. stale[d] => stale'[d]
        BY <3>1
      <4>2. ASSUME selected[d] # None, ~stale'[d]
            PROVE  boxes[selected[d]].uids \subseteq boxes'[selected[d]].uids
        <5>1. selected[d] # b
          BY <3>1, <4>2
        <5> QED
          BY <3>3, <4>2, <5>1, SeenBox DEF Fewer
      <4> QED
        BY <1>3, <3>3, <4>1, <4>2 DEF Unharmed, Fewer
    <3> QED
      BY <3>3, <3>4, <3>5 DEF Fewer
  <2> QED
    BY <2>1, <2>2
<1>5. ImapTypes'
  BY <1>0, <1>2, <1>4 DEF Delete, ImapTypes, ConnTypes, DataTypes, ClientTypes, clientVars
<1> QED
  BY <1>4, <1>5

(* Whoever takes messages away, the others see it.                         *)
LEMMA TakeAwayOthers ==
    ASSUME Sound, NEW c, NEW b \in 1..Len(boxes), NEW uids, TakeAway(c, b, uids),
           UNCHANGED <<meant, astray>>, NEW d \in Conns, d # c
    PROVE  Unharmed(d)
<1>0. ImapTypes /\ RowsOK
  BY DEF Sound
<1>1. /\ Fewer(b, uids)
      /\ stale[d] => stale'[d]
      /\ selected[d] = b /\ uids \cap boxes[b].uids # {} => stale'[d]
  BY <1>0, TakeAwayBoxes
<1>2. ASSUME selected[d] # None, ~stale'[d]
      PROVE  boxes[selected[d]].uids \subseteq boxes'[selected[d]].uids
  <2>1. CASE selected[d] = b
    <3>1. uids \cap boxes[b].uids = {}
      BY <1>1, <1>2, <2>1
    <3> QED
      BY <1>1, <2>1, <3>1 DEF Fewer
  <2>2. CASE selected[d] # b
    BY <1>1, <1>2, <2>2, SeenBox DEF Fewer
  <2> QED
    BY <2>1, <2>2
<1> QED
  BY <1>1, <1>2 DEF Unharmed, Fewer

LEMMA CloseExpungesTypes ==
    ASSUME Sound, NEW c \in Conns, CloseExpunges(c)
    PROVE  ImapTypes' /\ RowsOK' /\ \A d \in Conns \ {c} : Unharmed(d)
<1>0. ImapTypes /\ RowsOK
  BY DEF Sound
<1> DEFINE b == selected[c]
<1>1. b \in 1..Len(boxes)
  BY SeenBox DEF CloseExpunges, Selected
<1>2. TakeAway(c, b, boxes[b].flagged) /\ UNCHANGED <<meant, astray>>
  BY DEF CloseExpunges
<1>3. Fewer(b, boxes[b].flagged) /\ stale' \in [Conns -> BOOLEAN]
  BY <1>0, <1>1, <1>2, TakeAwayBoxes
<1>4. \A d \in Conns \ {c} : Unharmed(d)
  BY <1>1, <1>2, TakeAwayOthers
<1>5. work' \in [Conns -> WorkType]
  <2> DEFINE w == [work[c] EXCEPT !.step = 2]
             f == boxes[b].flagged
  <2>1. work[c] \in WorkType /\ 2 \in 0..3 /\ f \in SUBSET Nat
    BY <1>0, <1>1, BoxFields DEF ImapTypes, DataTypes
  <2>2. w \in WorkType
    BY <2>1, StepTypes
  <2>3. work' = [work EXCEPT ![c] = [w EXCEPT !.flagged = f]]
    BY <1>0 DEF CloseExpunges, ImapTypes, DataTypes
  <2> HIDE DEF w, f
  <2>4. [w EXCEPT !.flagged = f] \in WorkType
    BY <2>1, <2>2, FlaggedTypes
  <2> QED
    BY <1>0, <2>3, <2>4 DEF ImapTypes, DataTypes
<1>6. gone' \subseteq BoxIds \X Nat
  <2>1. boxes[b].flagged \subseteq Nat /\ b \in BoxIds
    BY <1>0, <1>1, BoxFields DEF BoxIds
  <2>2. gone' = gone \cup {<<b, u>> : u \in boxes[b].flagged}
    BY DEF CloseExpunges
  <2> QED
    BY <1>0, <2>1, <2>2 DEF ImapTypes, ClientTypes
<1>7. ImapTypes'
  BY <1>0, <1>3, <1>5, <1>6 DEF CloseExpunges, ImapTypes, ConnTypes, DataTypes, ClientTypes,
     clientVars, Fewer
<1> QED
  BY <1>3, <1>4, <1>7 DEF Fewer

LEMMA ExpungeTypes ==
    ASSUME Sound, NEW c \in Conns, Expunge(c)
    PROVE  ImapTypes' /\ RowsOK' /\ \A d \in Conns \ {c} : Unharmed(d)
<1>0. ImapTypes /\ RowsOK /\ WorkOK(c)
  BY DEF Sound
<1> DEFINE b == work[c].box
           uids == work[c].flagged
<1>1. b \in 1..Len(boxes) /\ uids \subseteq Nat
  BY <1>0, AtWork DEF Expunge, OnMessages
<1>2. TakeAway(c, b, uids) /\ UNCHANGED <<meant, astray>>
  BY DEF Expunge
<1>3. Fewer(b, uids) /\ stale' \in [Conns -> BOOLEAN]
  BY <1>0, <1>1, <1>2, TakeAwayBoxes
<1>4. \A d \in Conns \ {c} : Unharmed(d)
  BY <1>1, <1>2, TakeAwayOthers
<1>5. work' \in [Conns -> WorkType]
  <2>1. work[c] \in WorkType /\ 2 \in 0..3
    BY <1>0 DEF ImapTypes, DataTypes
  <2>2. [work[c] EXCEPT !.step = 2] \in WorkType
    BY <2>1, StepTypes
  <2> QED
    BY <1>0, <2>2 DEF Expunge, ImapTypes, DataTypes
<1>6. gone' \subseteq BoxIds \X Nat
  <2>1. gone' = gone \cup {<<b, u>> : u \in uids} /\ b \in BoxIds
    BY <1>1 DEF Expunge, BoxIds
  <2> QED
    BY <1>0, <1>1, <2>1 DEF ImapTypes, ClientTypes
<1>7. ImapTypes'
  BY <1>0, <1>3, <1>5, <1>6 DEF Expunge, ImapTypes, ConnTypes, DataTypes, ClientTypes,
     clientVars, Fewer
<1> QED
  BY <1>3, <1>4, <1>7 DEF Fewer

LEMMA RemoveOnWebTypes ==
    ASSUME Sound, RemoveOnWeb
    PROVE  ImapTypes' /\ RowsOK' /\ \A d \in Conns : Unharmed(d)
<1>0. ImapTypes /\ RowsOK /\ 1 \in 1..Len(boxes)
  BY DEF Sound, ImapTypes, DataTypes
<1>1. PICK u \in boxes[1].uids : Spend("removals") /\ TakeAway(None, 1, {u})
  BY DEF RemoveOnWeb
<1>2. UNCHANGED <<connVars, clientVars, astray, meant, gone>>
  BY DEF RemoveOnWeb
<1>3. Fewer(1, {u}) /\ stale' \in [Conns -> BOOLEAN]
  BY <1>0, <1>1, TakeAwayBoxes
<1>4. ASSUME NEW d \in Conns
      PROVE  Unharmed(d)
  <2>1. d # None
    BY ImapAssumption
  <2> QED
    BY <1>0, <1>1, <1>2, <2>1, TakeAwayOthers
<1>5. left' \in [{"fails", "removals", "hangups"} -> Nat]
  BY <1>0, <1>1 DEF Spend, ImapTypes, DataTypes
<1>6. ImapTypes'
  BY <1>0, <1>2, <1>3, <1>5 DEF ImapTypes, ConnTypes, DataTypes, ClientTypes, connVars,
     clientVars, Fewer
<1> QED
  BY <1>3, <1>4, <1>6 DEF Fewer

(* A step after which every mailbox has its rows, and perhaps new ones.    *)
LEMMA NothingGone ==
    ASSUME Sound, Later(boxes, boxes'), NEW d \in Conns,
           \A b \in 1..Len(boxes) : boxes[b].uids \subseteq boxes'[b].uids,
           stale[d] => stale'[d], meant \subseteq meant', astray => astray'
    PROVE  Unharmed(d)
<1>1. selected[d] # None => boxes[selected[d]].uids \subseteq boxes'[selected[d]].uids
  BY SeenBox
<1> QED
  BY <1>1 DEF Unharmed

LEMMA DeliverTypes ==
    ASSUME Sound, Deliver
    PROVE  ImapTypes' /\ RowsOK' /\ \A d \in Conns : Unharmed(d)
<1>0. ImapTypes /\ RowsOK /\ 1 \in 1..Len(boxes)
  BY DEF Sound, ImapTypes, DataTypes
<1>1. AddRow(1, FALSE) /\ UNCHANGED <<connVars, left, clientVars, history>>
  BY DEF Deliver
<1>2. /\ boxes' \in Seq(BoxType) /\ RowsOK' /\ Later(boxes, boxes')
      /\ \A b \in 1..Len(boxes) : boxes[b].uids \subseteq boxes'[b].uids
  BY <1>0, <1>1, AddRowBoxes
<1>3. ImapTypes'
  BY <1>0, <1>1, <1>2 DEF ImapTypes, ConnTypes, DataTypes, ClientTypes, connVars, clientVars,
     history
<1>4. UNCHANGED <<stale, meant, astray>>
  BY <1>1 DEF history
<1> QED
  BY <1>2, <1>3, <1>4, NothingGone

LEMMA ListMessagesTypes ==
    ASSUME Sound, NEW c \in Conns, ListMessages(c)
    PROVE  ImapTypes' /\ RowsOK' /\ \A d \in Conns \ {c} : Unharmed(d)
<1>0. ImapTypes /\ RowsOK
  BY DEF Sound
<1> DEFINE b == selected[c]
           w == [step |-> 1, box |-> b, uids |-> Listing(b), flagged |-> boxes[b].flagged]
<1>1. b \in 1..Len(boxes)
  BY SeenBox DEF ListMessages, Selected
<1>2. w \in WorkType
  BY <1>0, <1>1, BoxFields DEF WorkType, BoxIds, Listing
<1>3. work' = [work EXCEPT ![c] = w]
  BY DEF ListMessages
<1> HIDE DEF w
<1>4. work' \in [Conns -> WorkType]
  BY <1>0, <1>2, <1>3 DEF ImapTypes, DataTypes
<1>5. stale' \in [Conns -> BOOLEAN] /\ \A d \in Conns \ {c} : stale'[d] = stale[d]
  BY <1>0 DEF ListMessages, ImapTypes, ClientTypes
<1>9. view' \in [Conns -> SUBSET (Nat \X Nat)]
  <2>1. (IF Teaches(Line(c)) THEN {} ELSE view[c]) \in SUBSET (Nat \X Nat)
    BY <1>0 DEF ImapTypes, ClientTypes
  <2> QED
    BY <1>0, <2>1 DEF ListMessages, ImapTypes, ClientTypes
<1>6. astray' \in BOOLEAN /\ (astray => astray')
  <2>1. stale[c] \in BOOLEAN /\ astray \in BOOLEAN
    BY <1>0 DEF ImapTypes, ClientTypes
  <2> QED
    BY <2>1 DEF ListMessages
<1>7. ImapTypes'
  BY <1>0, <1>4, <1>5, <1>6, <1>9 DEF ListMessages, ImapTypes, ConnTypes, DataTypes, ClientTypes,
     dataVars, clientVars
<1>8. UNCHANGED <<boxes, meant>>
  BY DEF ListMessages, dataVars
<1> QED
  BY <1>0, <1>5, <1>6, <1>7, <1>8, SameBoxes, Undisturbed

LEMMA StoreTypes ==
    ASSUME Sound, NEW c \in Conns, Store(c)
    PROVE  LET b   == selected[c]
               set == StoreFlags(Line(c).arg, Targets(c), work[c].flagged) IN
           /\ ImapTypes' /\ RowsOK' /\ \A d \in Conns : Unharmed(d)
           /\ b \in 1..Len(boxes) /\ Len(boxes') = Len(boxes)
           /\ boxes'[b].flagged =
                (boxes[b].flagged \ Targets(c)) \cup (set \cap boxes[b].uids)
           /\ \A d \in 1..Len(boxes) : d # b => boxes'[d] = boxes[d]
<1>0. ImapTypes /\ RowsOK /\ WorkOK(c)
  BY DEF Sound
<1> DEFINE b == selected[c]
           set == StoreFlags(Line(c).arg, Targets(c), work[c].flagged)
           f == (boxes[b].flagged \ Targets(c)) \cup (set \cap boxes[b].uids)
<1>1. At(c, "STORE", 1) /\ Answer(c)
  BY DEF Store
<1>2. /\ Answered(c) /\ links' \in [Conns -> Nat]
      /\ queue' \in [Conns -> Seq(QueueLine)] /\ work' \in [Conns -> WorkType]
  BY <1>0, <1>1, AnsweredTypes
<1>3. b \in 1..Len(boxes) /\ work[c].box = b
  BY <1>0, <1>1, AtWork DEF OnMessages
<1>4. boxes' = [boxes EXCEPT ![b].flagged = f]
  BY <1>3 DEF Store
<1>5. f \in SUBSET boxes[b].uids
  BY <1>0, <1>3 DEF RowsOK
<1> HIDE DEF f
<1>6. /\ boxes' \in Seq(BoxType) /\ RowsOK' /\ Later(boxes, boxes')
      /\ Len(boxes') = Len(boxes) /\ boxes'[b].flagged = f
      /\ \A d \in 1..Len(boxes) :
            boxes'[d].uids = boxes[d].uids /\ (d # b => boxes'[d] = boxes[d])
  BY <1>0, <1>3, <1>4, <1>5, FlagBoxes
<1>7. UNCHANGED <<stale, meant, astray>>
  BY DEF Store, history
<1>8. \A d \in Conns : Unharmed(d)
  BY <1>6, <1>7, NothingGone
<1>9. ImapTypes'
  BY <1>0, <1>2, <1>6 DEF Store, ImapTypes, ConnTypes, DataTypes, ClientTypes, clientVars,
     history
<1> QED
  BY <1>3, <1>6, <1>8, <1>9 DEF f

LEMMA CopyTypes ==
    ASSUME Sound, NEW c \in Conns, Copy(c)
    PROVE  ImapTypes' /\ RowsOK' /\ \A d \in Conns : Unharmed(d)
<1>0. ImapTypes /\ RowsOK
  BY DEF Sound
<1>1. At(c, "COPY", 1) /\ Answer(c)
  BY DEF Copy
<1>2. /\ Answered(c) /\ links' \in [Conns -> Nat]
      /\ queue' \in [Conns -> Seq(QueueLine)] /\ work' \in [Conns -> WorkType]
  BY <1>0, <1>1, AnsweredTypes
<1>3. /\ boxes' \in Seq(BoxType) /\ RowsOK' /\ Later(boxes, boxes')
      /\ \A b \in 1..Len(boxes) : boxes[b].uids \subseteq boxes'[b].uids
      /\ meant \subseteq meant' /\ meant' \subseteq BoxIds \X Nat
  <2>1. CASE UNCHANGED <<boxes, meant>>
    BY <1>0, <2>1, SameBoxes DEF ImapTypes, DataTypes, ClientTypes
  <2>2. CASE ~UNCHANGED <<boxes, meant>>
    <3>1. PICK b \in Named(Line(c).arg) : CopyMessages(b, Targets(c) \subseteq work[c].flagged)
      BY <2>2 DEF Copy
    <3> DEFINE f == Targets(c) \subseteq work[c].flagged
    <3>2. b \in 1..Len(boxes) /\ f \in BOOLEAN
      BY DEF Named
    <3>3. AddRow(b, f)
      BY <3>1 DEF CopyMessages
    <3>4. boxes[b].next \in Nat /\ b \in BoxIds
      BY <1>0, <3>2, BoxFields DEF BoxIds
    <3>5. meant \subseteq meant' /\ meant' \subseteq BoxIds \X Nat
      BY <1>0, <3>1, <3>4 DEF CopyMessages, ImapTypes, ClientTypes
    <3> HIDE DEF f
    <3> QED
      BY <1>0, <3>2, <3>3, <3>5, AddRowBoxes
  <2> QED
    BY <2>1, <2>2
<1>4. UNCHANGED <<stale, astray, gone>>
  BY DEF Copy
<1>5. \A d \in Conns : Unharmed(d)
  BY <1>3, <1>4, NothingGone
<1>6. ImapTypes'
  BY <1>0, <1>2, <1>3, <1>4 DEF Copy, ImapTypes, ConnTypes, DataTypes, ClientTypes, clientVars
<1> QED
  BY <1>3, <1>5, <1>6

LEMMA AppendStubTypes ==
    ASSUME Sound, NEW c \in Conns, AppendStub(c)
    PROVE  ImapTypes' /\ RowsOK' /\ \A d \in Conns : Unharmed(d)
<1>0. ImapTypes /\ RowsOK
  BY DEF Sound
<1>1. At(c, "APPEND", 0) /\ Answer(c)
  BY DEF AppendStub
<1>2. /\ Answered(c) /\ links' \in [Conns -> Nat]
      /\ queue' \in [Conns -> Seq(QueueLine)] /\ work' \in [Conns -> WorkType]
  BY <1>0, <1>1, AnsweredTypes
<1>3. /\ boxes' \in Seq(BoxType) /\ RowsOK' /\ Later(boxes, boxes')
      /\ \A b \in 1..Len(boxes) : boxes[b].uids \subseteq boxes'[b].uids
  <2>1. CASE UNCHANGED boxes
    BY <1>0, <2>1, SameBoxes DEF ImapTypes, DataTypes
  <2>2. ASSUME NEW b \in Named(Line(c).arg), AddRow(b, FALSE)
        PROVE  /\ boxes' \in Seq(BoxType) /\ RowsOK' /\ Later(boxes, boxes')
               /\ \A d \in 1..Len(boxes) : boxes[d].uids \subseteq boxes'[d].uids
    <3>1. b \in 1..Len(boxes)
      BY DEF Named
    <3> QED
      BY <1>0, <2>2, <3>1, AddRowBoxes
  <2> QED
    BY <2>1, <2>2 DEF AppendStub
<1>4. UNCHANGED <<stale, meant, astray>>
  BY DEF AppendStub, history
<1>5. \A d \in Conns : Unharmed(d)
  BY <1>3, <1>4, NothingGone
<1>6. ImapTypes'
  BY <1>0, <1>2, <1>3, <1>4 DEF AppendStub, ImapTypes, ConnTypes, DataTypes, ClientTypes,
     clientVars, history
<1> QED
  BY <1>3, <1>5, <1>6

LEMMA ExpungeTellsTypes ==
    ASSUME Sound, NEW c \in Conns, ExpungeTells(c)
    PROVE  ImapTypes' /\ RowsOK' /\ \A d \in Conns : Unharmed(d)
<1>0. ImapTypes /\ RowsOK
  BY DEF Sound
<1>1. PICK u \in work[c].flagged :
         /\ view' = [view EXCEPT ![c] = Forget(@, Number(work[c].uids, u))]
         /\ work' = [work EXCEPT ![c].flagged = @ \ {u}]
         /\ UNCHANGED <<socket, queue, links, dead, state, selected, idle, subs, dataVars,
                        script, rude, history>>
  BY DEF ExpungeTells
<1>2. work[c] \in WorkType /\ work[c].uids \in SUBSET Nat /\ work[c].flagged \in SUBSET Nat
  BY <1>0 DEF ImapTypes, DataTypes, WorkType
<1>3. work' \in [Conns -> WorkType]
  <2> DEFINE f == work[c].flagged \ {u}
  <2>1. f \in SUBSET Nat /\ work' = [work EXCEPT ![c] = [work[c] EXCEPT !.flagged = f]]
    BY <1>0, <1>1, <1>2 DEF ImapTypes, DataTypes
  <2> HIDE DEF f
  <2>2. [work[c] EXCEPT !.flagged = f] \in WorkType
    BY <1>2, <2>1, FlaggedTypes
  <2> QED
    BY <1>0, <2>1, <2>2 DEF ImapTypes, DataTypes
<1>4. view' \in [Conns -> SUBSET (Nat \X Nat)]
  <2>1. Number(work[c].uids, u) \in Nat
    BY <1>2, NumberIsNat
  <2>2. view[c] \in SUBSET (Nat \X Nat)
    BY <1>0 DEF ImapTypes, ClientTypes
  <2>3. Forget(view[c], Number(work[c].uids, u)) \in SUBSET (Nat \X Nat)
    BY <2>1, <2>2, ForgetTypes
  <2> QED
    BY <1>0, <1>1, <2>3 DEF ImapTypes, ClientTypes
<1>5. UNCHANGED <<boxes, left, stale, astray, meant, gone>>
  BY <1>1 DEF dataVars, history
<1>6. ImapTypes'
  BY <1>0, <1>1, <1>3, <1>4, <1>5 DEF ImapTypes, ConnTypes, DataTypes, ClientTypes
<1> QED
  BY <1>0, <1>5, <1>6, SameBoxes, Undisturbed

-----------------------------------------------------------------------------
(* A step of one connection leaves what the others have of their own.      *)

Kept(d) ==
    /\ queue'[d] = queue[d] /\ state'[d] = state[d] /\ selected'[d] = selected[d]
    /\ idle'[d] = idle[d] /\ subs'[d] = subs[d] /\ work'[d] = work[d]
    /\ script'[d] = script[d] /\ view'[d] = view[d] /\ rude'[d] = rude[d]

Step(c) == Send(c) \/ Close(c) \/ TimerFires(c) \/ Process(c)

LEMMA OthersKept ==
    ASSUME ImapTypes, NEW c \in Conns, Step(c), NEW d \in Conns \ {c}
    PROVE  Kept(d)
<1> USE DEF ImapTypes, ConnTypes, DataTypes, ClientTypes, dataVars, clientVars, history
<1>1. ASSUME ClearIdle(c) \/ CleanUp(c)
      PROVE  idle'[d] = idle[d] /\ subs'[d] = subs[d]
  BY <1>1 DEF ClearIdle, CleanUp
<1>2. ASSUME Answer(c) \/ AnswerAndEnd(c)
      PROVE  queue'[d] = queue[d] /\ work'[d] = work[d]
  BY <1>2 DEF Answer, AnswerAndEnd
<1>3. CASE Send(c)
  BY <1>3 DEF Send, Kept
<1>4. CASE Close(c) \/ TimerFires(c)
  BY <1>1, <1>4 DEF Close, TimerFires, Kept
<1>5. CASE Refuse(c) \/ AfterLogout(c) \/ ReadOnly(c)
  BY <1>2, <1>5 DEF Refuse, AfterLogout, ReadOnly, Kept
<1>6. CASE Reject(c)
  BY <1>6 DEF Reject, Kept
<1>7. CASE Login(c)
  BY <1>2, <1>7 DEF Login, Kept
<1>8. CASE Logout(c)
  BY <1>1, <1>2, <1>8 DEF Logout, Kept
<1>9. CASE StartIdle(c)
  BY <1>2, <1>9 DEF StartIdle, Subscribe, Kept
<1>10. CASE StopIdle(c)
  BY <1>1, <1>2, <1>10 DEF StopIdle, Kept
<1>11. CASE SelectReads(c)
  BY <1>2, <1>11 DEF SelectReads, Kept
<1>12. CASE Select(c)
  BY <1>2, <1>12 DEF Select, Kept
<1>13. CASE CreateReads(c)
  BY <1>2, <1>13 DEF CreateReads, Kept
<1>14. CASE Create(c)
  BY <1>2, <1>14 DEF Create, Kept
<1>15. CASE Delete(c)
  BY <1>2, <1>15 DEF Delete, Kept
<1>16. CASE CloseExpunges(c)
  BY <1>16 DEF CloseExpunges, Kept
<1>17. CASE CloseBox(c)
  BY <1>2, <1>17 DEF CloseBox, Kept
<1>18. CASE ListMessages(c)
  BY <1>18 DEF ListMessages, Kept
<1>19. CASE Fetch(c)
  BY <1>2, <1>19 DEF Fetch, Kept
<1>20. CASE Search(c)
  BY <1>2, <1>20 DEF Search, Kept
<1>21. CASE Store(c)
  BY <1>2, <1>21 DEF Store, Kept
<1>22. CASE Copy(c)
  BY <1>2, <1>22 DEF Copy, Kept
<1>23. CASE AppendStub(c)
  BY <1>2, <1>23 DEF AppendStub, Kept
<1>24. CASE Expunge(c)
  BY <1>24 DEF Expunge, Kept
<1>25. CASE ExpungeTells(c)
  BY <1>25 DEF ExpungeTells, Kept
<1>26. CASE ExpungeEnds(c)
  BY <1>2, <1>26 DEF ExpungeEnds, Kept
<1>27. CASE ExpungeCounts(c)
  BY <1>27 DEF ExpungeCounts, Kept
<1> QED
  BY <1>3, <1>4, <1>5, <1>6, <1>7, <1>8, <1>9, <1>10, <1>11, <1>12, <1>13, <1>14, <1>15,
     <1>16, <1>17, <1>18, <1>19, <1>20, <1>21, <1>22, <1>23, <1>24, <1>25, <1>26, <1>27
     DEF Step, Process

LEMMA KeptIdle ==
    ASSUME NEW d \in Conns, Kept(d), IdleOK(d), LinesOK(d)
    PROVE  IdleOK(d)' /\ LinesOK(d)'
  BY DEF Kept, IdleOK, LinesOK

LEMMA KeptWork ==
    ASSUME Sound, NEW d \in Conns, Kept(d), Unharmed(d), ImapTypes'
    PROVE  WorkOK(d)'
<1>1. Len(boxes) \in Nat /\ Len(boxes') \in Nat /\ Len(boxes) <= Len(boxes')
  BY DEF Sound, ImapTypes, DataTypes, Unharmed, Later
<1>2. \A b \in 1..Len(boxes) : b \in 1..Len(boxes')
  BY <1>1
<1>3. WorkOK(d) /\ ImapTypes
  BY DEF Sound
<1>4. /\ Cmd(d)' = Cmd(d) /\ Selected(d)' = Selected(d) /\ selected'[d] = selected[d]
      /\ work'[d] = work[d]
  BY DEF Kept, Cmd, Selected
<1>5. ASSUME selected[d] # None, NEW u \in work[d].uids, u < boxes[selected[d]].next
      PROVE  u < boxes'[selected[d]].next
  <2>1. selected[d] \in 1..Len(boxes) /\ selected[d] \in 1..Len(boxes')
    BY <1>2, <1>5, SeenBox
  <2>2. boxes[selected[d]].next \in Nat
    BY <1>3, <2>1, BoxFields
  <2>3. boxes'[selected[d]].next \in Nat
    <3>1. boxes'[selected[d]] \in BoxType
      BY <2>1 DEF ImapTypes, DataTypes
    <3> QED
      BY <3>1 DEF BoxType
  <2>4. boxes[selected[d]].next <= boxes'[selected[d]].next
    BY <2>1 DEF Unharmed, Later
  <2>5. u \in Nat
    BY <1>3 DEF ImapTypes, DataTypes, WorkType
  <2> QED
    BY <1>5, <2>2, <2>3, <2>4, <2>5
<1>6. Selected(d) => selected[d] # None
  BY DEF Selected
<1> QED
  BY <1>2, <1>3, <1>4, <1>5, <1>6 DEF WorkOK

(* New rows have higher UIDs than everything that d has seen.              *)
LEMMA KeptNumbers ==
    ASSUME Sound, NEW d \in Conns, Kept(d), Unharmed(d), ImapTypes', NumbersOK(d)
    PROVE  NumbersOK(d)'
<1>1. /\ Cmd(d)' = Cmd(d) /\ Selected(d)' = Selected(d) /\ selected'[d] = selected[d]
      /\ work'[d] = work[d] /\ view'[d] = view[d] /\ (~stale'[d] => ~stale[d])
  BY DEF Kept, Cmd, Selected, Unharmed
<1>2. SUFFICES ASSUME Selected(d), ~stale'[d]
      PROVE  LET listed  == Listing(selected[d])'
                 deleted == work[d].flagged IN
             /\ work[d].step \notin Untold \/ (Cmd(d) = "CLOSE" /\ deleted = {})
                  => Right(view[d], listed)
             /\ work[d].step = 1 /\ Cmd(d) \in OnMessages => BeginsWith(listed, work[d].uids)
             /\ work[d].step \in Untold /\ Cmd(d) = "EXPUNGE" =>
                  /\ Right(view[d], listed \cup deleted)
                  /\ listed \cap deleted = {}
                  /\ \A u \in deleted : {v \in work[d].uids : v <= u}
                                          = {v \in listed \cup deleted : v <= u}
  BY <1>1 DEF NumbersOK
<1> DEFINE b == selected[d]
           A == boxes[b].uids
           B == boxes'[b].uids
           next == boxes[b].next
           read == work[d].uids
           deleted == work[d].flagged
<1>3. /\ b \in 1..Len(boxes) /\ b \in 1..Len(boxes') /\ A \in SUBSET Nat /\ next \in Nat
      /\ read \in SUBSET Nat /\ deleted \in SUBSET Nat
  <2>1. b \in 1..Len(boxes)
    BY <1>2, SeenBox DEF Selected
  <2>2. ImapTypes /\ ImapTypes' /\ Len(boxes) <= Len(boxes')
    BY DEF Sound, Unharmed, Later
  <2>3. b \in 1..Len(boxes')
    BY <2>1, <2>2 DEF ImapTypes, DataTypes
  <2> QED
    BY <2>1, <2>2, <2>3, BoxFields DEF ImapTypes, DataTypes, WorkType
<1>4. B \in SUBSET Nat
  <2>1. boxes'[b] \in BoxType
    BY <1>3 DEF ImapTypes, DataTypes
  <2> QED
    BY <2>1 DEF BoxType
<1>5. /\ A \subseteq B /\ \A v \in B \ A : next <= v
      /\ \A u \in A : u < next
  BY <1>1, <1>2, <1>3 DEF Unharmed, Later, Selected, Sound, RowsOK
<1>6. NumbersOK(d) => /\ work[d].step \notin Untold \/ (Cmd(d) = "CLOSE" /\ deleted = {})
                           => Right(view[d], A)
                      /\ work[d].step = 1 /\ Cmd(d) \in OnMessages => BeginsWith(A, read)
                      /\ work[d].step \in Untold /\ Cmd(d) = "EXPUNGE" =>
                           /\ Right(view[d], A \cup deleted)
                           /\ A \cap deleted = {}
                           /\ \A u \in deleted : {v \in read : v <= u}
                                                   = {v \in A \cup deleted : v <= u}
  BY <1>1, <1>2 DEF NumbersOK, Listing
<1>7. work[d].step \in {1, 2, 3} /\ Cmd(d) \in OnMessages =>
        \A u \in read : u < next
  BY DEF Sound, WorkOK
<1>8. work[d].step \in Untold /\ Cmd(d) = "EXPUNGE" => \A u \in deleted : u < next
  <2>1. work[d].step \in Untold /\ Cmd(d) = "EXPUNGE" => deleted \subseteq read
    BY DEF Sound, WorkOK, OnMessages, Untold
  <2> QED
    BY <1>7, <2>1 DEF OnMessages, Untold
<1>9. Listing(selected[d])' = B
  BY <1>1 DEF Listing
<1> HIDE DEF A, B, next, read, deleted
<1>10. work[d].step \notin Untold \/ (Cmd(d) = "CLOSE" /\ deleted = {}) => Right(view[d], B)
  <2>1. BeginsWith(B, A)
    <3>1. \A v \in B \ A, u \in A : next \in Nat /\ v \in Nat /\ u \in Nat /\ u < next /\ next <= v
      BY <1>3, <1>4, <1>5
    <3> QED
      BY <1>5, <3>1 DEF BeginsWith
  <2> QED
    BY <1>3, <1>4, <1>6, <2>1, RightGrows
<1>12. work[d].step = 1 /\ Cmd(d) \in OnMessages => BeginsWith(B, read)
  <2>1. BeginsWith(B, A)
    <3>1. \A v \in B \ A, u \in A : next \in Nat /\ v \in Nat /\ u \in Nat /\ u < next /\ next <= v
      BY <1>3, <1>4, <1>5
    <3> QED
      BY <1>5, <3>1 DEF BeginsWith
  <2>2. SUFFICES ASSUME BeginsWith(A, read)
                 PROVE  BeginsWith(B, read)
    BY <1>6
  <2>3. read \subseteq A /\ \A v \in A \ read, u \in read : u < v
    BY <2>2 DEF BeginsWith
  <2> QED
    BY <1>5, <2>1, <2>3 DEF BeginsWith
<1>11. ASSUME work[d].step \in Untold, Cmd(d) = "EXPUNGE"
       PROVE  /\ Right(view[d], B \cup deleted)
              /\ B \cap deleted = {}
              /\ \A u \in deleted : {v \in read : v <= u}
                                      = {v \in B \cup deleted : v <= u}
  <2>2. /\ Right(view[d], A \cup deleted) /\ A \cap deleted = {}
        /\ \A u \in deleted : {v \in read : v <= u} = {v \in A \cup deleted : v <= u}
    BY <1>6, <1>11
  <2>3. \A u \in deleted, v \in B \ A : u < v
    <3>1. \A u \in deleted, v \in B \ A :
             next \in Nat /\ v \in Nat /\ u \in Nat /\ u < next /\ next <= v
      BY <1>3, <1>4, <1>5, <1>8, <1>11
    <3> QED
      BY <3>1
  <2>4. \A u \in A, v \in B \ A : u < v
    <3>1. \A u \in A, v \in B \ A :
             next \in Nat /\ v \in Nat /\ u \in Nat /\ u < next /\ next <= v
      BY <1>3, <1>4, <1>5
    <3> QED
      BY <3>1
  <2>5. BeginsWith(B \cup deleted, A \cup deleted)
    BY <1>5, <2>3, <2>4 DEF BeginsWith
  <2>6. Right(view[d], B \cup deleted)
    BY <1>3, <1>4, <2>2, <2>5, RightGrows
  <2>7. \A u \in deleted, v \in B : u \in Nat /\ v \in Nat
    BY <1>3, <1>4
  <2>8. B \cap deleted = {}
    BY <2>2, <2>3, <2>7
  <2>9. ASSUME NEW u \in deleted
        PROVE  {v \in read : v <= u} = {v \in B \cup deleted : v <= u}
    <3>1. \A v \in B \ A : ~(v <= u)
      BY <2>3, <2>7
    <3>2. {v \in B \cup deleted : v <= u} = {v \in A \cup deleted : v <= u}
      BY <1>5, <3>1
    <3> QED
      BY <2>2, <3>2
  <2> QED
    BY <2>6, <2>8, <2>9
<1> QED
  BY <1>9, <1>10, <1>11, <1>12 DEF read, deleted

(* Neither does what a client asked for go astray by it.                   *)
LEMMA KeptMeant ==
    ASSUME NEW d \in Conns, Kept(d), Unharmed(d), MeantOK(d)
    PROVE  MeantOK(d)'
<1>1. /\ Cmd(d)' = Cmd(d) /\ Flags(d)' = Flags(d) /\ selected'[d] = selected[d]
      /\ queue'[d] = queue[d] /\ work'[d] = work[d] /\ Targets(d)' = Targets(d)
      /\ \A by, n : Behind(d, by, n)' = Behind(d, by, n)
  BY DEF Kept, Cmd, Flags, Targets, Behind, Line
<1>2. meant \subseteq meant'
  BY DEF Unharmed
<1> QED
  BY <1>1, <1>2 DEF MeantOK

-----------------------------------------------------------------------------
(* The lines and the IDLE of the connection that takes the step.           *)

LEMMA NextLine ==
    ASSUME ImapTypes, NEW c \in Conns, Answered(c)
    PROVE  /\ queue[c] \in Seq(QueueLine) /\ queue'[c] = Tail(queue[c])
           /\ Len(queue[c]) \in Nat /\ Len(queue'[c]) = Len(queue[c]) - 1
           /\ \A k \in 1..Len(queue'[c]) :
                 queue'[c][k] = queue[c][k + 1] /\ k + 1 \in 2..Len(queue[c])
           /\ work'[c] = NoWork /\ work'[c].step = 0
<1>1. queue[c] \in Seq(QueueLine) /\ queue[c] # <<>> /\ queue'[c] = Tail(queue[c])
  BY DEF ImapTypes, ConnTypes, Answered
<1>2. work'[c] = NoWork /\ NoWork.step = 0
  BY DEF Answered, ImapTypes, DataTypes, NoWork
<1> QED
  BY <1>1, <1>2

LEMMA AnsweredLines ==
    ASSUME ImapTypes, NEW c \in Conns, Answered(c), LinesOK(c), script'[c] = script[c]
    PROVE  LinesOK(c)' /\ ~Flags(c)'
<1>1. /\ Len(queue[c]) \in Nat /\ Len(queue'[c]) = Len(queue[c]) - 1
      /\ \A k \in 1..Len(queue'[c]) :
            queue'[c][k] = queue[c][k + 1] /\ k + 1 \in 2..Len(queue[c])
      /\ work'[c].step = 0 /\ queue'[c] = Tail(queue[c]) /\ queue[c] \in Seq(QueueLine)
  BY NextLine
<1>2. \A k \in 1..Len(queue'[c]) : queue'[c][k].by = "none" /\ queue'[c][k].cmd # "STORE"
  BY <1>1 DEF LinesOK
<1>3. queue'[c] # <<>> => 1 \in 1..Len(queue'[c])
  BY <1>1
<1>4. LinesOK(c)'
  <2>1. \A k \in 2..Len(queue'[c]) : k \in 1..Len(queue'[c])
    BY <1>1
  <2>2. \A k \in 2..Len(queue'[c]) : queue'[c][k].by = "none" /\ queue'[c][k].cmd # "STORE"
    BY <1>2, <2>1
  <2>3. \A k \in 1..Len(script[c]) : script[c][k].cmd = "STORE" => script[c][k].by # "none"
    BY DEF LinesOK
  <2> QED
    BY <1>1, <2>2, <2>3 DEF LinesOK
<1> QED
  BY <1>2, <1>3, <1>4 DEF Flags, Cmd

LEMMA AnsweredIdle ==
    ASSUME ImapTypes, NEW c \in Conns, Answered(c), IdleOK(c),
           idle'[c] = idle[c], subs'[c] = subs[c], rude'[c] = rude[c],
           idle[c] => state'[c] # "LOGOUT", Cmd(c) = "DONE" => ~idle[c]
    PROVE  IdleOK(c)'
<1>1. /\ Len(queue[c]) \in Nat /\ Len(queue'[c]) = Len(queue[c]) - 1
      /\ \A k \in 1..Len(queue'[c]) :
            queue'[c][k] = queue[c][k + 1] /\ k + 1 \in 2..Len(queue[c])
  BY NextLine
<1>2. ~rude[c] => ~idle[c]
  BY DEF IdleOK, Answered, Cmd
<1>3. ASSUME ~rude[c], NEW k \in 1..Len(queue'[c]) - 1, queue'[c][k].cmd = "IDLE"
      PROVE  queue'[c][k + 1].cmd = "DONE"
  <2>1. /\ k \in 1..Len(queue'[c]) /\ k + 1 \in 1..Len(queue'[c])
        /\ k + 1 \in 1..Len(queue[c]) - 1
    BY <1>1, <1>3
  <2>2. queue'[c][k] = queue[c][k + 1] /\ queue'[c][k + 1] = queue[c][k + 1 + 1]
    BY <1>1, <2>1
  <2> QED
    BY <1>3, <2>1, <2>2 DEF IdleOK
<1> QED
  BY <1>2, <1>3 DEF IdleOK

(* The end of an IDLE.                                                     *)
LEMMA Cleared ==
    ASSUME ImapTypes, NEW c \in Conns, ClearIdle(c) \/ CleanUp(c), IdleOK(c)
    PROVE  ~idle'[c] /\ subs'[c] = <<>>
<1>1. ASSUME ClearIdle(c), Len(subs[c]) = 1
      PROVE  ~idle'[c] /\ subs'[c] = <<>>
  <2>1. subs[c] \in Seq(BoxIds) /\ subs[c] # <<>>
    <3>1. subs[c] \in Seq(BoxIds) /\ Len(<<>>) = 0
      BY DEF ImapTypes, ConnTypes
    <3>2. subs[c] = <<>> => Len(subs[c]) = 0
      BY <3>1
    <3> QED
      BY <1>1, <3>1, <3>2
  <2>2. Front(subs[c]) = <<>>
    BY <1>1, <2>1 DEF Front
  <2> QED
    BY <1>1, <2>1, <2>2 DEF ClearIdle, ImapTypes, ConnTypes
<1>2. ASSUME ClearIdle(c), subs[c] = <<>>
      PROVE  ~idle'[c] /\ subs'[c] = <<>>
  BY <1>2 DEF ClearIdle, ImapTypes, ConnTypes
<1>3. ASSUME ~idle[c], CleanUp(c)
      PROVE  ~idle'[c] /\ subs'[c] = <<>>
  BY <1>3 DEF CleanUp, IdleOK
<1>4. idle[c] \in BOOLEAN
  BY DEF ImapTypes, ConnTypes
<1> QED
  BY <1>1, <1>2, <1>3, <1>4 DEF IdleOK, CleanUp

LEMMA Concat ==
    ASSUME NEW T, NEW U, NEW a \in Seq(T), NEW b \in Seq(U)
    PROVE  /\ Len(a \o b) = Len(a) + Len(b)
           /\ \A i \in 1..Len(a) : (a \o b)[i] = a[i]
           /\ \A i \in 1..Len(b) : (a \o b)[Len(a) + i] = b[i]
  OBVIOUS

(* A chunk goes to the end of the queue.                                   *)
LEMMA SendHead ==
    ASSUME ImapTypes, NEW c \in Conns, Send(c), queue[c] # <<>>
    PROVE  queue'[c] # <<>> /\ queue'[c][1] = queue[c][1]
<1>1. PICK k \in 1..2, n \in 1..MaxUid :
         queue' = [queue EXCEPT ![c] = @ \o
             [i \in 1..k |-> [cmd |-> script[c][i].cmd, arg |-> script[c][i].arg,
                              by |-> script[c][i].by, n |-> n]]]
  BY DEF Send
<1> DEFINE lines == [i \in 1..k |-> [cmd |-> script[c][i].cmd, arg |-> script[c][i].arg,
                                     by |-> script[c][i].by, n |-> n]]
           q == queue[c]
<1>2. Len(lines) = k /\ lines \in Seq({lines[i] : i \in 1..k})
  OBVIOUS
<1>3. q \in Seq(QueueLine) /\ queue'[c] = q \o lines /\ q # <<>>
  BY <1>1 DEF ImapTypes, ConnTypes
<1>4. Len(q) \in Nat /\ 1 \in 1..Len(q)
  BY <1>3
<1> HIDE DEF lines, q
<1>5. Len(q \o lines) = Len(q) + Len(lines) /\ (q \o lines)[1] = q[1]
  BY <1>2, <1>3, <1>4, Concat
<1>6. q \o lines # <<>>
  <2>1. Len(q \o lines) # 0 /\ Len(<<>>) = 0
    BY <1>2, <1>4, <1>5
  <2> QED
    BY <2>1
<1> QED
  BY <1>3, <1>5, <1>6 DEF q

LEMMA SendIdle ==
    ASSUME ImapTypes, NEW c \in Conns, Send(c), IdleOK(c), LinesOK(c)
    PROVE  IdleOK(c)' /\ LinesOK(c)'
<1>1. PICK k \in 1..2, n \in 1..MaxUid :
    LET lines == [i \in 1..k |-> [cmd |-> script[c][i].cmd, arg |-> script[c][i].arg,
                                  by |-> script[c][i].by, n |-> n]]
        first == script[c][1] IN
    /\ k <= Len(script[c])
    /\ k = 2 => script[c][2].by = "none"
    /\ first.by # "none" => queue[c] = <<>>
    /\ queue' = [queue EXCEPT ![c] = @ \o lines]
    /\ script' = [script EXCEPT ![c] = SubSeq(@, k + 1, Len(@))]
    /\ rude' = [rude EXCEPT ![c] = @ \/ (Idles(c) /\ first.cmd # "DONE")
                                     \/ (k = 2 /\ first.cmd = "IDLE"
                                               /\ lines[2].cmd # "DONE")]
  BY DEF Send
<1> DEFINE q == queue[c]
           s == script[c]
           lines == [i \in 1..k |-> [cmd |-> script[c][i].cmd, arg |-> script[c][i].arg,
                                     by |-> script[c][i].by, n |-> n]]
<1>2. /\ q \in Seq(QueueLine) /\ s \in Seq(LineType) /\ rude[c] \in BOOLEAN
      /\ Len(q) \in Nat /\ Len(s) \in Nat
  BY DEF ImapTypes, ConnTypes, ClientTypes
<1>0. /\ k \in 1..2 /\ k <= Len(s) /\ (k = 2 => s[2].by = "none")
      /\ (s[1].by # "none" => q = <<>>)
  BY <1>1
<1>3. \A i \in 1..k : lines[i].cmd = s[i].cmd /\ lines[i].by = s[i].by
  OBVIOUS
<1>4. Len(lines) = k /\ lines \in Seq({lines[i] : i \in 1..k})
  OBVIOUS
<1>5. queue'[c] = q \o lines /\ script'[c] = SubSeq(s, k + 1, Len(s))
  BY <1>1 DEF ImapTypes, ConnTypes, ClientTypes
<1>6. /\ rude[c] => rude'[c]
      /\ Idles(c) /\ s[1].cmd # "DONE" => rude'[c]
      /\ k = 2 /\ s[1].cmd = "IDLE" /\ s[2].cmd # "DONE" => rude'[c]
  <2>1. k = 2 => lines[2].cmd = s[2].cmd
    BY <1>3
  <2> QED
    BY <1>1, <1>2, <2>1 DEF ImapTypes, ClientTypes
<1>7. UNCHANGED <<state, selected, idle, subs, work>>
  BY DEF Send
<1> HIDE DEF lines
<1>8. /\ Len(queue'[c]) = Len(q) + k
      /\ \A i \in 1..Len(q) : queue'[c][i] = q[i]
      /\ \A i \in 1..k : queue'[c][Len(q) + i] = lines[i]
  <2> DEFINE X == {lines[i] : i \in 1..k}
  <2>1. lines \in Seq(X) /\ Len(lines) = k
    BY <1>4
  <2> HIDE DEF X
  <2>2. /\ Len(q \o lines) = Len(q) + Len(lines)
        /\ \A i \in 1..Len(q) : (q \o lines)[i] = q[i]
        /\ \A i \in 1..Len(lines) : (q \o lines)[Len(q) + i] = lines[i]
    BY <1>2, <2>1, Concat
  <2> QED
    BY <1>5, <2>1, <2>2
<1>9. /\ queue'[c] # <<>>
      /\ \A i \in 1..Len(q) : q[i].cmd = "IDLE" => Idles(c)
      /\ idle[c] => Idles(c)
  BY <1>2, <1>8 DEF Idles
<1>10. \A i \in 1..Len(queue'[c]) : i \in 1..Len(q) \/ i - Len(q) \in 1..k
  BY <1>2, <1>8
<1>11. LinesOK(c)'
  <2>1. ASSUME NEW i \in 2..Len(queue'[c])
        PROVE  queue'[c][i].by = "none" /\ queue'[c][i].cmd # "STORE"
    <3>1. CASE i \in 1..Len(q)
      <4>1. i \in 2..Len(q)
        BY <3>1, <1>2
      <4> QED
        BY <3>1, <4>1, <1>8 DEF LinesOK
    <3>2. CASE i - Len(q) \in 1..k
      <4> DEFINE j == i - Len(q)
      <4>1. j \in 1..k /\ i = Len(q) + j /\ j \in 1..Len(s)
        BY <3>2, <1>0, <1>2, <1>8
      <4> HIDE DEF j
      <4>2. queue'[c][i] = lines[j] /\ lines[j].cmd = s[j].cmd /\ lines[j].by = s[j].by
        BY <1>3, <1>8, <4>1
      <4>3. s[j].by = "none"
        <5>1. CASE j = 1
          <6>1. q # <<>>
            BY <1>2, <4>1, <5>1
          <6> QED
            BY <1>0, <5>1, <6>1
        <5>2. CASE j = 2
          BY <1>0, <4>1, <5>2
        <5> QED
          BY <1>0, <4>1, <5>1, <5>2
      <4>4. s[j].cmd # "STORE"
        BY <4>1, <4>3 DEF LinesOK
      <4> QED
        BY <4>2, <4>3, <4>4
    <3>3. i \in 1..Len(queue'[c])
      BY <1>2, <1>8
    <3> QED
      BY <3>1, <3>2, <3>3, <1>10
  <2>2. \A i \in 1..Len(script'[c]) : script'[c][i] = s[i + k] /\ i + k \in 1..Len(s)
    <3>1. k \in Nat /\ Len(s) \in Nat
      BY <1>0, <1>2
    <3>2. Len(script'[c]) = Len(s) - k
      BY <1>0, <1>2, <1>5
    <3>3. \A i \in 1..Len(s) - k : i + k \in 1..Len(s) /\ (k + 1) + i - 1 = i + k
      BY <3>1
    <3>4. \A i \in 1..Len(s) - k : script'[c][i] = s[(k + 1) + i - 1]
      BY <1>0, <1>2, <1>5, <3>1
    <3> QED
      BY <3>2, <3>3, <3>4
  <2>3. \A i \in 1..Len(script'[c]) : script'[c][i].cmd = "STORE" => script'[c][i].by # "none"
    BY <2>2 DEF LinesOK
  <2> QED
    BY <1>7, <1>9, <2>1, <2>3 DEF LinesOK
<1>12. IdleOK(c)'
  <2>1. SUFFICES ASSUME ~rude'[c]
                 PROVE  /\ idle[c] => queue'[c][1].cmd = "DONE"
                        /\ \A i \in 1..Len(queue'[c]) - 1 :
                             queue'[c][i].cmd = "IDLE" => queue'[c][i + 1].cmd = "DONE"
    BY <1>6, <1>7 DEF IdleOK
  <2>2. ~rude[c] /\ (Idles(c) => s[1].cmd = "DONE")
        /\ (k = 2 /\ s[1].cmd = "IDLE" => s[2].cmd = "DONE")
    BY <1>6, <2>1
  <2>3. queue'[c][Len(q) + 1].cmd = s[1].cmd
    BY <1>3, <1>8
  <2>4. ASSUME idle[c]
        PROVE  queue'[c][1].cmd = "DONE"
    <3>1. CASE q = <<>>
      BY <3>1, <1>2, <1>9, <2>2, <2>3, <2>4
    <3>2. CASE q # <<>>
      <4>1. queue'[c][1] = q[1]
        BY <3>2, <1>2, <1>8
      <4> QED
        BY <3>2, <4>1, <2>2, <2>4 DEF IdleOK
    <3> QED
      BY <3>1, <3>2
  <2>5. ASSUME NEW i \in 1..Len(queue'[c]) - 1, queue'[c][i].cmd = "IDLE"
        PROVE  queue'[c][i + 1].cmd = "DONE"
    <3>1. CASE i \in 1..Len(q) - 1
      <4>1. queue'[c][i] = q[i] /\ queue'[c][i + 1] = q[i + 1]
        <5>1. i \in 1..Len(q) /\ i + 1 \in 1..Len(q)
          BY <3>1, <1>2
        <5> QED
          BY <5>1, <1>8
      <4> QED
        BY <3>1, <4>1, <2>2, <2>5 DEF IdleOK
    <3>2. CASE i = Len(q)
      <4>1. queue'[c][i] = q[i] /\ i \in 1..Len(q)
        BY <3>2, <1>2, <1>8
      <4> QED
        BY <3>2, <4>1, <1>9, <2>2, <2>3, <2>5
    <3>3. CASE i = Len(q) + 1 /\ k = 2
      <4>1. queue'[c][i + 1] = lines[2] /\ lines[2].cmd = s[2].cmd
        BY <3>3, <1>2, <1>3, <1>8
      <4> QED
        BY <3>3, <4>1, <2>2, <2>3, <2>5
    <3> QED
      BY <3>1, <3>2, <3>3, <1>2, <1>8
  <2> QED
    BY <2>4, <2>5
<1> QED
  BY <1>11, <1>12


(* Every step of the chain answers the first line or works on it.          *)
Replies(c) == Answered(c) /\ script' = script /\ rude' = rude
Working(c) ==
    /\ queue[c] # <<>>
    /\ UNCHANGED <<queue, state, selected, idle, subs, script, rude>>

LEMMA RepliesAfter ==
    ASSUME ImapTypes, NEW c \in Conns, Answer(c) \/ AnswerAndEnd(c), queue[c] # <<>>
    PROVE  Answered(c)
  BY DEF Answer, AnswerAndEnd, Answered

(* The steps that answer and have nothing to do with IDLE.                 *)
PlainReply(c) ==
    \/ Refuse(c) \/ AfterLogout(c) \/ Reject(c) \/ ReadOnly(c) \/ Login(c) \/ Select(c)
    \/ Delete(c) \/ CloseBox(c) \/ Fetch(c) \/ Search(c) \/ Store(c) \/ Copy(c)
    \/ AppendStub(c) \/ ExpungeEnds(c)
    \/ (SelectReads(c) /\ Answer(c)) \/ (CreateReads(c) /\ Answer(c))
    \/ (Create(c) /\ Answered(c))

WorkStep(c) ==
    \/ (SelectReads(c) /\ ~Answer(c)) \/ (CreateReads(c) /\ ~Answer(c))
    \/ CloseExpunges(c) \/ ListMessages(c)
    \/ Expunge(c) \/ ExpungeCounts(c) \/ ExpungeTells(c)

LEMMA ProcessParts ==
    ASSUME ImapTypes, NEW c \in Conns, Process(c)
    PROVE  PlainReply(c) \/ WorkStep(c) \/ Logout(c) \/ StartIdle(c) \/ StopIdle(c)
<1>1. Create(c) => Answered(c)
  <2>1. ASSUME Create(c)
        PROVE  Answered(c)
    <3>1. queue[c] # <<>>
      BY <2>1, AtLine DEF Create
    <3> QED
      BY <2>1, <3>1 DEF Create, Answered, Answer
  <2> QED
    BY <2>1
<1> QED
  BY <1>1 DEF Process, PlainReply, WorkStep

LEMMA WorkStepShape ==
    ASSUME ImapTypes, NEW c \in Conns, WorkStep(c)
    PROVE  Working(c)
<1>1. queue[c] # <<>>
  BY AtLine DEF WorkStep, SelectReads, CreateReads, CloseExpunges, ListMessages, Expunge,
     ExpungeCounts, ExpungeTells
<1>2. UNCHANGED <<queue, state, selected, idle, subs, script, rude>>
  BY DEF WorkStep, SelectReads, CreateReads, CloseExpunges, ListMessages, Expunge,
     ExpungeCounts, ExpungeTells, clientVars
<1> QED
  BY <1>1, <1>2 DEF Working

LEMMA PlainReplyShape ==
    ASSUME ImapTypes, NEW c \in Conns, PlainReply(c)
    PROVE  /\ Replies(c)
           /\ UNCHANGED <<idle, subs>>
           /\ state'[c] = "LOGOUT" => state[c] = "LOGOUT"
           /\ Cmd(c) = "DONE" => ~idle[c] \/ state[c] = "LOGOUT"
<1>1. CASE Refuse(c)
  <2>1. queue[c] # <<>> /\ (Cmd(c) = "DONE" => ~idle[c]) /\ Answer(c)
    BY <1>1, AtLine DEF Refuse
  <2>2. Answered(c)
    BY <2>1, RepliesAfter
  <2>3. UNCHANGED <<idle, subs, script, rude>>
    BY <1>1 DEF Refuse, clientVars
  <2>4. state'[c] = "LOGOUT" => state[c] = "LOGOUT"
    BY <1>1 DEF Refuse, ImapTypes, ConnTypes
  <2> QED
    BY <2>1, <2>2, <2>3, <2>4 DEF Replies
<1>2. CASE AfterLogout(c)
  <2>1. queue[c] # <<>> /\ state[c] = "LOGOUT" /\ AnswerAndEnd(c)
    BY <1>2 DEF AfterLogout
  <2>2. Answered(c)
    BY <2>1, RepliesAfter
  <2>3. UNCHANGED <<idle, subs, script, rude>>
    BY <1>2 DEF AfterLogout, clientVars
  <2>4. state'[c] = "LOGOUT" => state[c] = "LOGOUT"
    BY <1>2 DEF AfterLogout, ImapTypes, ConnTypes
  <2> QED
    BY <2>1, <2>2, <2>3, <2>4 DEF Replies
<1>3. CASE Reject(c)
  <2>1. queue[c] # <<>> /\ Cmd(c) # "DONE"
    BY <1>3, AtLine DEF Reject, Awaits
  <2>2. Answered(c)
    BY <1>3, <2>1 DEF Reject, Answered
  <2>3. UNCHANGED <<idle, subs, script, rude>>
    BY <1>3 DEF Reject, clientVars
  <2>4. state'[c] = "LOGOUT" => state[c] = "LOGOUT"
    BY <1>3 DEF Reject, ImapTypes, ConnTypes
  <2> QED
    BY <2>1, <2>2, <2>3, <2>4 DEF Replies
<1>4. CASE ReadOnly(c)
  <2>1. queue[c] # <<>> /\ Cmd(c) # "DONE" /\ Answer(c)
    BY <1>4, AtLine DEF ReadOnly, Lists, Status
  <2>2. Answered(c)
    BY <2>1, RepliesAfter
  <2>3. UNCHANGED <<idle, subs, script, rude>>
    BY <1>4 DEF ReadOnly, clientVars
  <2>4. state'[c] = "LOGOUT" => state[c] = "LOGOUT"
    BY <1>4 DEF ReadOnly, ImapTypes, ConnTypes
  <2> QED
    BY <2>1, <2>2, <2>3, <2>4 DEF Replies
<1>5. CASE Login(c)
  <2>1. queue[c] # <<>> /\ Cmd(c) # "DONE" /\ Answer(c)
    BY <1>5, AtLine DEF Login
  <2>2. Answered(c)
    BY <2>1, RepliesAfter
  <2>3. UNCHANGED <<idle, subs, script, rude>>
    BY <1>5 DEF Login, clientVars
  <2>4. state'[c] = "LOGOUT" => state[c] = "LOGOUT"
    BY <1>5 DEF Login, ImapTypes, ConnTypes
  <2> QED
    BY <2>1, <2>2, <2>3, <2>4 DEF Replies
<1>6. CASE Select(c)
  <2>1. queue[c] # <<>> /\ Cmd(c) # "DONE" /\ Answer(c)
    BY <1>6, AtLine DEF Select
  <2>2. Answered(c)
    BY <2>1, RepliesAfter
  <2>3. UNCHANGED <<idle, subs, script, rude>>
    BY <1>6 DEF Select, clientVars
  <2>4. state'[c] = "LOGOUT" => state[c] = "LOGOUT"
    BY <1>6 DEF Select, ImapTypes, ConnTypes
  <2> QED
    BY <2>1, <2>2, <2>3, <2>4 DEF Replies
<1>7. CASE Delete(c)
  <2>1. queue[c] # <<>> /\ Cmd(c) # "DONE" /\ Answer(c)
    <3>1. At(c, "DELETE", 0) /\ Answer(c)
      BY <1>7 DEF Delete
    <3> QED
      BY <3>1, AtLine
  <2>2. Answered(c)
    BY <2>1, RepliesAfter
  <2>3. UNCHANGED <<idle, subs, script, rude>>
    BY <1>7 DEF Delete, clientVars
  <2>4. state'[c] = "LOGOUT" => state[c] = "LOGOUT"
    BY <1>7 DEF Delete, ImapTypes, ConnTypes
  <2> QED
    BY <2>1, <2>2, <2>3, <2>4 DEF Replies
<1>8. CASE CloseBox(c)
  <2>1. queue[c] # <<>> /\ Cmd(c) # "DONE" /\ Answer(c)
    BY <1>8, AtLine DEF CloseBox
  <2>2. Answered(c)
    BY <2>1, RepliesAfter
  <2>3. UNCHANGED <<idle, subs, script, rude>>
    BY <1>8 DEF CloseBox, clientVars
  <2>4. state'[c] = "LOGOUT" => state[c] = "LOGOUT"
    BY <1>8 DEF CloseBox, ImapTypes, ConnTypes
  <2> QED
    BY <2>1, <2>2, <2>3, <2>4 DEF Replies
<1>9. CASE Fetch(c)
  <2>1. queue[c] # <<>> /\ Cmd(c) # "DONE" /\ Answer(c)
    BY <1>9, AtLine DEF Fetch
  <2>2. Answered(c)
    BY <2>1, RepliesAfter
  <2>3. UNCHANGED <<idle, subs, script, rude>>
    BY <1>9 DEF Fetch, clientVars
  <2>4. state'[c] = "LOGOUT" => state[c] = "LOGOUT"
    BY <1>9 DEF Fetch, ImapTypes, ConnTypes
  <2> QED
    BY <2>1, <2>2, <2>3, <2>4 DEF Replies
<1>10. CASE Search(c)
  <2>1. queue[c] # <<>> /\ Cmd(c) # "DONE" /\ Answer(c)
    BY <1>10, AtLine DEF Search
  <2>2. Answered(c)
    BY <2>1, RepliesAfter
  <2>3. UNCHANGED <<idle, subs, script, rude>>
    BY <1>10 DEF Search, clientVars
  <2>4. state'[c] = "LOGOUT" => state[c] = "LOGOUT"
    BY <1>10 DEF Search, ImapTypes, ConnTypes
  <2> QED
    BY <2>1, <2>2, <2>3, <2>4 DEF Replies
<1>11. CASE Store(c)
  <2>1. queue[c] # <<>> /\ Cmd(c) # "DONE" /\ Answer(c)
    BY <1>11, AtLine DEF Store
  <2>2. Answered(c)
    BY <2>1, RepliesAfter
  <2>3. UNCHANGED <<idle, subs, script, rude>>
    BY <1>11 DEF Store, clientVars
  <2>4. state'[c] = "LOGOUT" => state[c] = "LOGOUT"
    BY <1>11 DEF Store, ImapTypes, ConnTypes
  <2> QED
    BY <2>1, <2>2, <2>3, <2>4 DEF Replies
<1>12. CASE Copy(c)
  <2>1. queue[c] # <<>> /\ Cmd(c) # "DONE" /\ Answer(c)
    BY <1>12, AtLine DEF Copy
  <2>2. Answered(c)
    BY <2>1, RepliesAfter
  <2>3. UNCHANGED <<idle, subs, script, rude>>
    BY <1>12 DEF Copy, clientVars
  <2>4. state'[c] = "LOGOUT" => state[c] = "LOGOUT"
    BY <1>12 DEF Copy, ImapTypes, ConnTypes
  <2> QED
    BY <2>1, <2>2, <2>3, <2>4 DEF Replies
<1>13. CASE AppendStub(c)
  <2>1. queue[c] # <<>> /\ Cmd(c) # "DONE" /\ Answer(c)
    BY <1>13, AtLine DEF AppendStub
  <2>2. Answered(c)
    BY <2>1, RepliesAfter
  <2>3. UNCHANGED <<idle, subs, script, rude>>
    BY <1>13 DEF AppendStub, clientVars
  <2>4. state'[c] = "LOGOUT" => state[c] = "LOGOUT"
    BY <1>13 DEF AppendStub, ImapTypes, ConnTypes
  <2> QED
    BY <2>1, <2>2, <2>3, <2>4 DEF Replies
<1>14. CASE ExpungeEnds(c)
  <2>1. queue[c] # <<>> /\ Cmd(c) # "DONE" /\ Answer(c)
    BY <1>14, AtLine DEF ExpungeEnds
  <2>2. Answered(c)
    BY <2>1, RepliesAfter
  <2>3. UNCHANGED <<idle, subs, script, rude>>
    BY <1>14 DEF ExpungeEnds, clientVars
  <2>4. state'[c] = "LOGOUT" => state[c] = "LOGOUT"
    BY <1>14 DEF ExpungeEnds, ImapTypes, ConnTypes
  <2> QED
    BY <2>1, <2>2, <2>3, <2>4 DEF Replies
<1>15. CASE SelectReads(c) /\ Answer(c)
  <2>1. queue[c] # <<>> /\ Cmd(c) # "DONE" /\ Answer(c)
    BY <1>15, AtLine DEF SelectReads
  <2>2. Answered(c)
    BY <2>1, RepliesAfter
  <2>3. UNCHANGED <<idle, subs, script, rude>>
    BY <1>15 DEF SelectReads, clientVars
  <2>4. state'[c] = "LOGOUT" => state[c] = "LOGOUT"
    BY <1>15 DEF SelectReads, ImapTypes, ConnTypes
  <2> QED
    BY <2>1, <2>2, <2>3, <2>4 DEF Replies
<1>16. CASE CreateReads(c) /\ Answer(c)
  <2>1. queue[c] # <<>> /\ Cmd(c) # "DONE" /\ Answer(c)
    BY <1>16, AtLine DEF CreateReads
  <2>2. Answered(c)
    BY <2>1, RepliesAfter
  <2>3. UNCHANGED <<idle, subs, script, rude>>
    BY <1>16 DEF CreateReads, clientVars
  <2>4. state'[c] = "LOGOUT" => state[c] = "LOGOUT"
    BY <1>16 DEF CreateReads, ImapTypes, ConnTypes
  <2> QED
    BY <2>1, <2>2, <2>3, <2>4 DEF Replies
<1>17. CASE Create(c) /\ Answered(c)
  <2>1. queue[c] # <<>> /\ Cmd(c) # "DONE"
    BY <1>17, AtLine DEF Create
  <2>2. Answered(c)
    BY <1>17
  <2>3. UNCHANGED <<idle, subs, script, rude>>
    BY <1>17 DEF Create, clientVars
  <2>4. state'[c] = "LOGOUT" => state[c] = "LOGOUT"
    BY <1>17 DEF Create, ImapTypes, ConnTypes
  <2> QED
    BY <2>1, <2>2, <2>3, <2>4 DEF Replies
<1> QED
  BY <1>1, <1>2, <1>3, <1>4, <1>5, <1>6, <1>7, <1>8, <1>9, <1>10, <1>11, <1>12, <1>13, <1>14, <1>15, <1>16, <1>17 DEF PlainReply

LEMMA ClearedIdle ==
    ASSUME ImapTypes, NEW c \in Conns, Answered(c), IdleOK(c), rude'[c] = rude[c],
           ~idle'[c], subs'[c] = <<>>
    PROVE  IdleOK(c)'
<1>1. /\ Len(queue[c]) \in Nat /\ Len(queue'[c]) = Len(queue[c]) - 1
      /\ \A k \in 1..Len(queue'[c]) :
            queue'[c][k] = queue[c][k + 1] /\ k + 1 \in 2..Len(queue[c])
  BY NextLine
<1>2. ASSUME ~rude[c], NEW k \in 1..Len(queue'[c]) - 1, queue'[c][k].cmd = "IDLE"
      PROVE  queue'[c][k + 1].cmd = "DONE"
  <2>1. /\ k \in 1..Len(queue'[c]) /\ k + 1 \in 1..Len(queue'[c])
        /\ k + 1 \in 1..Len(queue[c]) - 1
    BY <1>1, <1>2
  <2>2. queue'[c][k] = queue[c][k + 1] /\ queue'[c][k + 1] = queue[c][k + 1 + 1]
    BY <1>1, <2>1
  <2> QED
    BY <1>2, <2>1, <2>2 DEF IdleOK
<1> QED
  BY <1>2 DEF IdleOK

LEMMA ProcessIdle ==
    ASSUME ImapTypes, NEW c \in Conns, Process(c), IdleOK(c), LinesOK(c)
    PROVE  IdleOK(c)' /\ LinesOK(c)'
<1>1. CASE WorkStep(c)
  <2>1. Working(c)
    BY <1>1, WorkStepShape
  <2>2. IdleOK(c)'
    BY <2>1 DEF Working, IdleOK
  <2>3. LinesOK(c)'
    BY <2>1 DEF Working, LinesOK
  <2> QED
    BY <2>2, <2>3
<1>2. CASE PlainReply(c)
  <2>1. /\ Answered(c) /\ script'[c] = script[c] /\ rude'[c] = rude[c]
        /\ idle'[c] = idle[c] /\ subs'[c] = subs[c]
        /\ state'[c] = "LOGOUT" => state[c] = "LOGOUT"
        /\ Cmd(c) = "DONE" => ~idle[c] \/ state[c] = "LOGOUT"
    BY <1>2, PlainReplyShape DEF Replies
  <2>2. idle[c] => state[c] # "LOGOUT"
    BY DEF IdleOK
  <2> QED
    BY <2>1, <2>2, AnsweredLines, AnsweredIdle
<1>3. CASE Logout(c)
  <2>1. queue[c] # <<>> /\ AnswerAndEnd(c) /\ CleanUp(c) /\ UNCHANGED <<script, rude>>
    BY <1>3, AtLine DEF Logout, clientVars
  <2>2. Answered(c)
    BY <2>1, RepliesAfter
  <2>3. ~idle'[c] /\ subs'[c] = <<>>
    BY <2>1, Cleared
  <2> QED
    BY <2>1, <2>2, <2>3, AnsweredLines, ClearedIdle
<1>4. CASE StopIdle(c)
  <2>1. queue[c] # <<>> /\ Answer(c) /\ ClearIdle(c) /\ UNCHANGED <<script, rude>>
    BY <1>4, AtLine DEF StopIdle, clientVars
  <2>2. Answered(c)
    BY <2>1, RepliesAfter
  <2>3. ~idle'[c] /\ subs'[c] = <<>>
    BY <2>1, Cleared
  <2> QED
    BY <2>1, <2>2, <2>3, AnsweredLines, ClearedIdle
<1>5. CASE StartIdle(c)
  <2>1. /\ queue[c] # <<>> /\ Cmd(c) = "IDLE" /\ state[c] # "LOGOUT" /\ Answer(c)
        /\ ~idle[c] /\ UNCHANGED <<script, rude, state, selected>>
    BY <1>5, AtLine DEF StartIdle, MayIdle, clientVars
  <2>2. Answered(c)
    BY <2>1, RepliesAfter
  <2>3. idle'[c] /\ subs'[c] = <<selected[c]>>
    <3>1. subs[c] = <<>> /\ subs'[c] = Append(subs[c], selected[c]) /\ idle'[c]
      BY <1>5, <2>1 DEF IdleOK, StartIdle, Subscribe, ImapTypes, ConnTypes
    <3> QED
      BY <3>1
  <2>4. LinesOK(c)'
    BY <2>1, <2>2, AnsweredLines
  <2>5. /\ Len(queue[c]) \in Nat /\ Len(queue'[c]) = Len(queue[c]) - 1
        /\ \A k \in 1..Len(queue'[c]) :
              queue'[c][k] = queue[c][k + 1] /\ k + 1 \in 2..Len(queue[c])
    BY <2>2, NextLine
  <2>6. ~rude[c] /\ queue'[c] # <<>> => queue'[c][1].cmd = "DONE"
    <3>1. SUFFICES ASSUME ~rude[c], queue'[c] # <<>>
                   PROVE  queue'[c][1].cmd = "DONE"
      OBVIOUS
    <3>2. queue' \in [Conns -> Seq(QueueLine)]
      BY <2>2, TailTypes
    <3>3. Len(queue'[c]) # 0 /\ Len(queue'[c]) \in Nat
      BY <3>1, <3>2
    <3>4. 1 \in 1..Len(queue'[c]) /\ 1 \in 1..Len(queue[c]) - 1
      <4> DEFINE m == Len(queue[c])
                 n == Len(queue'[c])
      <4>1. m \in Nat /\ n \in Nat /\ n # 0 /\ n = m - 1
        BY <2>5, <3>3
      <4> HIDE DEF m, n
      <4>2. 1 \in 1..n /\ 1 \in 1..m - 1
        BY <4>1
      <4> QED
        BY <4>2 DEF m, n
    <3>5. queue'[c][1] = queue[c][1 + 1]
      BY <2>5, <3>4
    <3> QED
      BY <2>1, <3>1, <3>4, <3>5 DEF IdleOK, Cmd
  <2>7. ASSUME ~rude[c], NEW k \in 1..Len(queue'[c]) - 1, queue'[c][k].cmd = "IDLE"
        PROVE  queue'[c][k + 1].cmd = "DONE"
    <3>1. /\ k \in 1..Len(queue'[c]) /\ k + 1 \in 1..Len(queue'[c])
          /\ k + 1 \in 1..Len(queue[c]) - 1
      BY <2>5, <2>7
    <3>2. queue'[c][k] = queue[c][k + 1] /\ queue'[c][k + 1] = queue[c][k + 1 + 1]
      BY <2>5, <3>1
    <3> QED
      BY <2>7, <3>1, <3>2 DEF IdleOK
  <2>8. Len(subs'[c]) = 1
    BY <2>3
  <2> QED
    BY <2>1, <2>3, <2>4, <2>6, <2>7, <2>8 DEF IdleOK
<1> QED
  BY <1>1, <1>2, <1>3, <1>4, <1>5, ProcessParts

LEMMA EndIdle ==
    ASSUME ImapTypes, NEW c \in Conns, Close(c) \/ TimerFires(c), IdleOK(c), LinesOK(c)
    PROVE  IdleOK(c)' /\ LinesOK(c)'
<1>1. UNCHANGED <<queue, work, script, rude>> /\ (CleanUp(c) \/ ClearIdle(c))
  BY DEF Close, TimerFires, clientVars
<1>2. ~idle'[c] /\ subs'[c] = <<>>
  BY <1>1, Cleared
<1>3. IdleOK(c)'
  BY <1>1, <1>2 DEF IdleOK
<1> QED
  BY <1>1, <1>3 DEF LinesOK

-----------------------------------------------------------------------------
(* What the connection that takes the step has read.                       *)

LEMMA BoxesStay ==
    ASSUME Sound, ImapTypes', Later(boxes, boxes'), NEW b \in 1..Len(boxes)
    PROVE  /\ b \in 1..Len(boxes')
           /\ boxes[b].next \in Nat /\ boxes'[b].next \in Nat
           /\ boxes[b].next <= boxes'[b].next
           /\ boxes[b].uids \in SUBSET Nat /\ boxes'[b].uids \in SUBSET Nat
           /\ \A u \in boxes[b].uids : u < boxes[b].next
           /\ \A u \in boxes'[b].uids \ boxes[b].uids : boxes[b].next <= u
<1>1. ImapTypes /\ RowsOK
  BY DEF Sound
<1>2. b \in 1..Len(boxes')
  BY <1>1 DEF Later, ImapTypes, DataTypes
<1>3. boxes'[b] \in BoxType
  BY <1>2 DEF ImapTypes, DataTypes
<1> QED
  BY <1>1, <1>2, <1>3, BoxFields DEF Later, BoxType, RowsOK

(* Once the line is answered nothing of it is left.                        *)
LEMMA RepliesWork ==
    ASSUME Sound, ImapTypes', Later(boxes, boxes'), NEW c \in Conns, Answered(c),
           selected'[c] \in {selected[c], None} \/ selected'[c] \in 1..Len(boxes)
    PROVE  WorkOK(c)'
<1>1. work'[c].step = 0
  BY NextLine DEF Sound
<1>2. selected'[c] # None => selected'[c] \in 1..Len(boxes')
  BY SeenBox, BoxesStay
<1> QED
  BY <1>1, <1>2 DEF WorkOK

LEMMA SelectReadsWork ==
    ASSUME Sound, ImapTypes', NEW c \in Conns, SelectReads(c), ~Answer(c)
    PROVE  /\ WorkOK(c)' /\ work'[c].step = 1 /\ Cmd(c)' = "SELECT"
           /\ UNCHANGED <<selected, state, view, queue, boxes>>
<1>0. ImapTypes
  BY DEF Sound
<1>1. PICK b \in Named(Line(c).arg) :
        work' = [work EXCEPT ![c] = [step |-> 1, box |-> b, uids |-> {}, flagged |-> {}]]
  BY DEF SelectReads
<1>2. UNCHANGED <<queue, state, selected, view, boxes>>
  BY DEF SelectReads, dataVars, clientVars
<1>3. b \in 1..Len(boxes)
  BY DEF Named
<1>4. work'[c].step = 1 /\ work'[c].box = b
  BY <1>0, <1>1 DEF ImapTypes, DataTypes
<1>5. Cmd(c) = "SELECT"
  BY <1>0, AtLine DEF SelectReads
<1>6. Cmd(c)' = "SELECT"
  BY <1>2, <1>5 DEF Cmd
<1>7. selected[c] # None => selected[c] \in 1..Len(boxes)
  BY SeenBox
<1> QED
  BY <1>2, <1>3, <1>4, <1>6, <1>7 DEF WorkOK, OnMessages

LEMMA CreateReadsWork ==
    ASSUME Sound, ImapTypes', NEW c \in Conns, CreateReads(c), ~Answer(c)
    PROVE  /\ WorkOK(c)' /\ work'[c].step = 1 /\ Cmd(c)' = "CREATE"
           /\ UNCHANGED <<selected, state, view, queue, boxes>>
<1>0. ImapTypes
  BY DEF Sound
<1>1. work' = [work EXCEPT ![c].step = 1]
  BY DEF CreateReads
<1>2. UNCHANGED <<queue, state, selected, view, boxes>>
  BY DEF CreateReads, dataVars, clientVars
<1>4. work'[c].step = 1
  BY <1>0, <1>1 DEF ImapTypes, DataTypes, WorkType
<1>5. Cmd(c) = "CREATE"
  BY <1>0, AtLine DEF CreateReads
<1>6. Cmd(c)' = "CREATE"
  BY <1>2, <1>5 DEF Cmd
<1>7. selected[c] # None => selected[c] \in 1..Len(boxes)
  BY SeenBox
<1> QED
  BY <1>2, <1>4, <1>6, <1>7 DEF WorkOK, OnMessages

LEMMA CloseExpungesWork ==
    ASSUME Sound, ImapTypes', NEW c \in Conns, CloseExpunges(c)
    PROVE  /\ WorkOK(c)' /\ work'[c].step = 2 /\ Cmd(c)' = "CLOSE"
           /\ Selected(c) /\ work[c].step = 0 /\ selected[c] \in 1..Len(boxes)
           /\ work'[c].flagged = boxes[selected[c]].flagged
           /\ Fewer(selected[c], boxes[selected[c]].flagged) /\ stale'[c] = stale[c]
           /\ UNCHANGED <<selected, state, view>>
<1>0. ImapTypes /\ RowsOK
  BY DEF Sound
<1>1. /\ work' = [work EXCEPT ![c].step = 2, ![c].flagged = boxes[selected[c]].flagged]
      /\ TakeAway(c, selected[c], boxes[selected[c]].flagged)
      /\ At(c, "CLOSE", 0) /\ Selected(c)
  BY DEF CloseExpunges
<1>2. UNCHANGED <<queue, state, selected, view>>
  BY DEF CloseExpunges, clientVars
<1>3. selected[c] \in 1..Len(boxes)
  BY <1>1, SeenBox DEF Selected
<1>4. work'[c].step = 2 /\ work'[c].flagged = boxes[selected[c]].flagged
  BY <1>0, <1>1 DEF ImapTypes, DataTypes, WorkType
<1>5. Cmd(c) = "CLOSE" /\ work[c].step = 0
  BY <1>0, <1>1, AtLine
<1>6. Cmd(c)' = "CLOSE"
  BY <1>2, <1>5 DEF Cmd
<1>7. Fewer(selected[c], boxes[selected[c]].flagged) /\ stale'[c] = stale[c]
  BY <1>0, <1>1, <1>3, TakeAwayBoxes
<1>8. WorkOK(c)'
  <2>1. selected'[c] # None => selected'[c] \in 1..Len(boxes')
    BY <1>2, <1>3, <1>7 DEF Fewer
  <2> QED
    BY <1>4, <1>6, <2>1 DEF WorkOK, OnMessages
<1> QED
  BY <1>1, <1>2, <1>3, <1>4, <1>5, <1>6, <1>7, <1>8

LEMMA ListMessagesWork ==
    ASSUME Sound, ImapTypes', NEW c \in Conns, ListMessages(c)
    PROVE  /\ WorkOK(c)' /\ work[c].step = 0 /\ work'[c].step = 1 /\ Cmd(c) \in OnMessages
           /\ Cmd(c)' = Cmd(c) /\ Selected(c) /\ selected[c] \in 1..Len(boxes)
           /\ work'[c].box = selected[c] /\ work'[c].uids = boxes[selected[c]].uids
           /\ work'[c].flagged = boxes[selected[c]].flagged
           /\ UNCHANGED <<selected, state, queue, boxes, meant>>
<1>0. ImapTypes /\ RowsOK
  BY DEF Sound
<1>1. UNCHANGED <<selected, state, queue, boxes, meant>> /\ Selected(c)
  BY DEF ListMessages, dataVars
<1>2. work[c].step = 0 /\ Cmd(c) \in OnMessages
  BY <1>0, AtLine DEF ListMessages, OnMessages
<1>3. Cmd(c)' = Cmd(c) /\ Selected(c)'
  BY <1>1 DEF Cmd, Selected
<1>4. selected[c] \in 1..Len(boxes)
  BY <1>1, SeenBox DEF Selected
<1>5. /\ work'[c].step = 1 /\ work'[c].box = selected[c]
      /\ work'[c].uids = boxes[selected[c]].uids
      /\ work'[c].flagged = boxes[selected[c]].flagged
  <2> DEFINE w == [step |-> 1, box |-> selected[c], uids |-> Listing(selected[c]),
                   flagged |-> boxes[selected[c]].flagged]
  <2>1. work'[c] = w
    BY <1>0 DEF ListMessages, ImapTypes, DataTypes
  <2> QED
    BY <2>1 DEF Listing
<1>6. /\ boxes[selected[c]].flagged \subseteq boxes[selected[c]].uids
      /\ \A u \in boxes[selected[c]].uids : u < boxes[selected[c]].next
  BY <1>0, <1>4 DEF RowsOK
<1> QED
  BY <1>1, <1>2, <1>3, <1>4, <1>5, <1>6 DEF WorkOK, OnMessages

LEMMA ExpungeWork ==
    ASSUME Sound, ImapTypes', NEW c \in Conns, Expunge(c)
    PROVE  /\ WorkOK(c)' /\ work[c].step = 1 /\ work'[c].step = 2
           /\ Cmd(c) = "EXPUNGE" /\ Cmd(c)' = "EXPUNGE"
           /\ Selected(c) /\ selected[c] \in 1..Len(boxes)
           /\ work[c].box = selected[c] /\ work'[c].box = work[c].box
           /\ work'[c].uids = work[c].uids /\ work'[c].flagged = work[c].flagged
           /\ Fewer(selected[c], work[c].flagged)
           /\ UNCHANGED <<selected, state, view, queue>>
<1>0. ImapTypes /\ RowsOK /\ WorkOK(c)
  BY DEF Sound
<1>1. /\ At(c, "EXPUNGE", 1) /\ work' = [work EXCEPT ![c].step = 2]
      /\ UNCHANGED <<selected, state, queue, view>>
      /\ TakeAway(c, work[c].box, work[c].flagged)
  BY DEF Expunge, clientVars
<1>2. /\ Selected(c) /\ work[c].box = selected[c] /\ selected[c] \in 1..Len(boxes)
      /\ work[c].flagged \subseteq work[c].uids /\ work[c].uids \subseteq Nat
      /\ \A u \in work[c].uids : u < boxes[selected[c]].next
  BY <1>0, <1>1, AtWork DEF OnMessages
<1>3. work[c].step = 1 /\ Cmd(c) = "EXPUNGE"
  BY <1>0, <1>1, AtLine
<1>4. Cmd(c)' = "EXPUNGE" /\ Selected(c)'
  BY <1>1, <1>2, <1>3 DEF Cmd, Selected
<1>5. /\ work'[c].step = 2 /\ work'[c].box = work[c].box
      /\ work'[c].uids = work[c].uids /\ work'[c].flagged = work[c].flagged
  BY <1>0, <1>1 DEF ImapTypes, DataTypes, WorkType
<1>6. Fewer(selected[c], work[c].flagged)
  BY <1>0, <1>1, <1>2, TakeAwayBoxes
<1>7. \A u \in work[c].uids : u < boxes'[selected[c]].next
  <2> DEFINE b == selected[c]
  <2>1. boxes[b].next \in Nat /\ boxes'[b].next \in Nat /\ boxes[b].next <= boxes'[b].next
    BY <1>2, <1>6, BoxesStay DEF Fewer
  <2> HIDE DEF b
  <2>2. \A u \in work[c].uids : u \in Nat /\ u < boxes[b].next
    BY <1>2 DEF b
  <2>3. \A u \in work[c].uids : u < boxes'[b].next
    BY <2>1, <2>2
  <2> QED
    BY <2>3 DEF b
<1> QED
  BY <1>1, <1>2, <1>3, <1>4, <1>5, <1>6, <1>7 DEF WorkOK, OnMessages, Fewer

LEMMA ExpungeCountsWork ==
    ASSUME Sound, ImapTypes', NEW c \in Conns, ExpungeCounts(c)
    PROVE  /\ WorkOK(c)' /\ work[c].step = 2 /\ work'[c].step = 3
           /\ Cmd(c) = "EXPUNGE" /\ Cmd(c)' = "EXPUNGE"
           /\ work'[c].box = work[c].box
           /\ work'[c].uids = work[c].uids /\ work'[c].flagged = work[c].flagged
           /\ UNCHANGED <<selected, state, view, queue, boxes, stale, meant, gone>>
<1>0. ImapTypes /\ WorkOK(c)
  BY DEF Sound
<1>1. /\ At(c, "EXPUNGE", 2) /\ work' = [work EXCEPT ![c].step = 3]
      /\ UNCHANGED <<selected, state, view, queue, boxes, stale, meant, gone>>
  BY DEF ExpungeCounts, dataVars, clientVars, history
<1>2. /\ Selected(c) /\ work[c].box = selected[c] /\ selected[c] \in 1..Len(boxes)
      /\ work[c].flagged \subseteq work[c].uids
      /\ \A u \in work[c].uids : u < boxes[selected[c]].next
  BY <1>0, <1>1, AtWork DEF OnMessages
<1>3. work[c].step = 2 /\ Cmd(c) = "EXPUNGE"
  BY <1>0, <1>1, AtLine
<1>4. Cmd(c)' = "EXPUNGE" /\ Selected(c)'
  BY <1>1, <1>2, <1>3 DEF Cmd, Selected
<1>5. /\ work'[c].step = 3 /\ work'[c].box = work[c].box
      /\ work'[c].uids = work[c].uids /\ work'[c].flagged = work[c].flagged
  BY <1>0, <1>1 DEF ImapTypes, DataTypes, WorkType
<1>6. WorkOK(c)'
  BY <1>1, <1>2, <1>4, <1>5 DEF WorkOK, OnMessages
<1> QED
  BY <1>1, <1>3, <1>4, <1>5, <1>6

LEMMA ExpungeTellsWork ==
    ASSUME Sound, ImapTypes', NEW c \in Conns, ExpungeTells(c)
    PROVE  \E u \in work[c].flagged :
           /\ WorkOK(c)' /\ work[c].step = 3 /\ work'[c].step = 3
           /\ Cmd(c) = "EXPUNGE" /\ Cmd(c)' = "EXPUNGE"
           /\ Selected(c) /\ selected[c] \in 1..Len(boxes)
           /\ work[c].flagged \subseteq work[c].uids /\ work[c].box = selected[c]
           /\ work'[c].box = work[c].box
           /\ work'[c].uids = work[c].uids /\ work'[c].flagged = work[c].flagged \ {u}
           /\ LastOf(work[c].flagged, u)
           /\ view'[c] = Forget(view[c], Number(work[c].uids, u))
           /\ UNCHANGED <<selected, state, queue, boxes, stale, meant>>
<1>0. ImapTypes /\ RowsOK /\ WorkOK(c)
  BY DEF Sound
<1>1. PICK u \in work[c].flagged :
         /\ At(c, "EXPUNGE", 3) /\ LastOf(work[c].flagged, u)
         /\ view' = [view EXCEPT ![c] = Forget(@, Number(work[c].uids, u))]
         /\ work' = [work EXCEPT ![c].flagged = @ \ {u}]
         /\ UNCHANGED <<queue, state, selected, boxes, stale, meant>>
  BY DEF ExpungeTells, dataVars, history
<1>2. /\ Selected(c) /\ work[c].box = selected[c] /\ selected[c] \in 1..Len(boxes)
      /\ work[c].flagged \subseteq work[c].uids /\ work[c].uids \subseteq Nat
      /\ \A v \in work[c].uids : v < boxes[selected[c]].next
  BY <1>0, <1>1, AtWork DEF OnMessages
<1>3. work[c].step = 3 /\ Cmd(c) = "EXPUNGE"
  BY <1>0, <1>1, AtLine
<1>4. Cmd(c)' = "EXPUNGE" /\ Selected(c)'
  BY <1>1, <1>2, <1>3 DEF Cmd, Selected
<1>5. /\ work'[c].step = work[c].step /\ work'[c].box = work[c].box
      /\ work'[c].uids = work[c].uids /\ work'[c].flagged = work[c].flagged \ {u}
  BY <1>0, <1>1 DEF ImapTypes, DataTypes, WorkType
<1>6. view'[c] = Forget(view[c], Number(work[c].uids, u))
  BY <1>0, <1>1 DEF ImapTypes, ClientTypes
<1>7. WorkOK(c)'
  BY <1>1, <1>2, <1>3, <1>4, <1>5 DEF WorkOK, OnMessages
<1> QED
  BY <1>1, <1>2, <1>3, <1>4, <1>5, <1>6, <1>7

-----------------------------------------------------------------------------
(* The numbers of the connection that takes the step.                      *)

(* A step that answers, and neither takes rows of the mailbox away nor     *)
(* tells of numbers.                                                       *)
LEMMA RepliesNumbers ==
    ASSUME Sound, ImapTypes', NEW c \in Conns, Answered(c), Unharmed(c), NumbersOK(c),
           work[c].step \notin Untold, view'[c] = view[c], selected'[c] = selected[c],
           Selected(c)' => Selected(c)
    PROVE  NumbersOK(c)'
<1>1. work'[c].step = 0
  BY NextLine DEF Sound
<1>2. SUFFICES ASSUME Selected(c)', ~stale'[c]
               PROVE  Right(view[c], Listing(selected[c])')
  BY <1>1 DEF NumbersOK, Untold
<1> DEFINE b == selected[c]
           A == boxes[b].uids
           B == boxes'[b].uids
<1>3. b \in 1..Len(boxes) /\ Selected(c) /\ ~stale[c]
  BY <1>2, SeenBox DEF Selected, Unharmed
<1>4. Right(view[c], A)
  BY <1>3 DEF NumbersOK, Listing
<1>5. A \subseteq B /\ Later(boxes, boxes')
  BY <1>2, <1>3 DEF Unharmed, Selected
<1>6. /\ A \in SUBSET Nat /\ B \in SUBSET Nat /\ boxes[b].next \in Nat
      /\ \A u \in A : u < boxes[b].next
      /\ \A u \in B \ A : boxes[b].next <= u
  BY <1>3, <1>5, BoxesStay
<1>7. Listing(selected[c])' = B
  BY DEF Listing
<1> HIDE DEF A, B
<1>8. BeginsWith(B, A)
  <2>1. \A v \in B \ A, u \in A : v \in Nat /\ u \in Nat /\ u < boxes[b].next /\ boxes[b].next <= v
    BY <1>6
  <2>2. \A v \in B \ A, u \in A : u < v
    BY <1>6, <2>1
  <2> QED
    BY <1>5, <2>2 DEF BeginsWith
<1> QED
  BY <1>4, <1>6, <1>7, <1>8, RightGrows

(* The answers that tell all numbers.                                      *)
LEMMA LearnsNumbers ==
    ASSUME Sound, ImapTypes', NEW c \in Conns, Answered(c), NumbersOK(c), WorkOK(c),
           work[c].step = 1, Cmd(c) \in OnMessages,
           view'[c] = Numbered(work[c].uids),
           UNCHANGED <<selected, state, stale, boxes>>
    PROVE  NumbersOK(c)'
<1>1. work'[c].step = 0
  BY NextLine DEF Sound
<1>2. SUFFICES ASSUME Selected(c), ~stale[c]
               PROVE  Right(Numbered(work[c].uids), Listing(selected[c]))
  BY <1>1 DEF NumbersOK, Selected, Listing, Untold
<1> DEFINE A == work[c].uids
           B == boxes[selected[c]].uids
<1>3. selected[c] \in 1..Len(boxes)
  BY <1>2, SeenBox DEF Selected
<1>4. A \in SUBSET Nat /\ B \in SUBSET Nat
  BY <1>3, BoxFields DEF Sound, ImapTypes, DataTypes, WorkType
<1>5. BeginsWith(B, A)
  BY <1>2 DEF NumbersOK, Listing
<1>6. Right(Numbered(A), A)
  BY <1>4, NumberedRight
<1> HIDE DEF A
<1>7. Right(Numbered(A), B)
  BY <1>4, <1>5, <1>6, RightGrows
<1> QED
  BY <1>7 DEF A, Listing

LEMMA NothingKnown ==
    ASSUME Sound, NEW c \in Conns, Answered(c), view'[c] = {}
    PROVE  NumbersOK(c)'
<1>1. work'[c].step = 0
  BY NextLine DEF Sound
<1> QED
  BY <1>1 DEF NumbersOK, Right, Untold

LEMMA ListMessagesNumbers ==
    ASSUME Sound, ImapTypes', NEW c \in Conns, ListMessages(c), NumbersOK(c)
    PROVE  NumbersOK(c)'
<1> DEFINE b == selected[c]
           A == boxes[b].uids
<1>1. /\ work[c].step = 0 /\ work'[c].step = 1 /\ Selected(c) /\ b \in 1..Len(boxes)
      /\ work'[c].uids = A /\ UNCHANGED <<selected, state, boxes>>
  BY ListMessagesWork
<1>2. /\ view'[c] = (IF Teaches(Line(c)) THEN {} ELSE view[c])
      /\ stale'[c] = (stale[c] /\ ~Teaches(Line(c)))
  BY DEF ListMessages, Sound, ImapTypes, ClientTypes
<1>3. ~stale'[c] => Right(view'[c], A)
  <2>1. CASE Teaches(Line(c))
    BY <1>2, <2>1 DEF Right
  <2>2. CASE ~Teaches(Line(c))
    <3>1. ~stale[c] => Right(view[c], A)
      BY <1>1 DEF Untold, NumbersOK, Listing
    <3> QED
      BY <1>2, <2>2, <3>1
  <2> QED
    BY <2>1, <2>2
<1>4. Listing(selected[c])' = A
  BY <1>1 DEF Listing
<1> HIDE DEF A
<1>5. BeginsWith(A, A)
  BY DEF BeginsWith
<1> QED
  BY <1>1, <1>3, <1>4, <1>5 DEF Untold, NumbersOK

LEMMA ExpungeNumbers ==
    ASSUME Sound, ImapTypes', NEW c \in Conns, Expunge(c), NumbersOK(c)
    PROVE  NumbersOK(c)'
<1> DEFINE b == selected[c]
           A == boxes[b].uids
           B == boxes'[b].uids
           read == work[c].uids
           deleted == work[c].flagged
<1>1. /\ work[c].step = 1 /\ work'[c].step = 2 /\ Cmd(c) = "EXPUNGE" /\ Cmd(c)' = "EXPUNGE"
      /\ Selected(c) /\ b \in 1..Len(boxes)
      /\ work[c].box = b /\ work'[c].uids = read /\ work'[c].flagged = deleted
      /\ Fewer(b, deleted) /\ UNCHANGED <<selected, state, view, queue>>
  BY ExpungeWork
<1>2. stale'[c] = stale[c]
  BY <1>1, TakeAwayBoxes DEF Sound, Expunge
<1>3. B = A \ deleted
  BY <1>1 DEF Fewer
<1>4. deleted \subseteq read /\ A \in SUBSET Nat /\ read \in SUBSET Nat
  BY <1>1, BoxFields DEF Sound, WorkOK, OnMessages, ImapTypes, DataTypes, WorkType
<1>5. SUFFICES ASSUME ~stale[c]
      PROVE  /\ Right(view[c], B \cup deleted)
             /\ B \cap deleted = {}
             /\ \A u \in deleted : {v \in read : v <= u} = {v \in B \cup deleted : v <= u}
  <2>1. Listing(selected[c])' = B
    BY <1>1 DEF Listing
  <2> QED
    BY <1>1, <1>2, <2>1 DEF Untold, NumbersOK, Selected
<1>6. Right(view[c], A) /\ BeginsWith(A, read)
  BY <1>1, <1>5 DEF Untold, NumbersOK, Listing, OnMessages
<1> HIDE DEF A, B, read, deleted
<1>7. B \cup deleted = A
  BY <1>3, <1>4, <1>6 DEF BeginsWith
<1>8. ASSUME NEW u \in deleted
      PROVE  {v \in read : v <= u} = {v \in A : v <= u}
  <2>1. u \in read
    BY <1>4
  <2>2. Upto(read, u) = Upto(A, u)
    BY <1>4, <1>6, <2>1, BeginsUpto
  <2> QED
    BY <2>2 DEF Upto
<1> QED
  BY <1>3, <1>6, <1>7, <1>8

LEMMA ExpungeTellsNumbers ==
    ASSUME Sound, ImapTypes', NEW c \in Conns, ExpungeTells(c), NumbersOK(c)
    PROVE  NumbersOK(c)'
<1> DEFINE b == selected[c]
           B == boxes[b].uids
           read == work[c].uids
           deleted == work[c].flagged
<1>1. PICK r \in deleted :
           /\ work[c].step = 3 /\ work'[c].step = 3
           /\ Cmd(c) = "EXPUNGE" /\ Cmd(c)' = "EXPUNGE"
           /\ Selected(c) /\ b \in 1..Len(boxes)
           /\ deleted \subseteq read
           /\ work'[c].uids = read /\ work'[c].flagged = deleted \ {r}
           /\ LastOf(deleted, r)
           /\ view'[c] = Forget(view[c], Number(read, r))
           /\ UNCHANGED <<selected, state, queue, boxes, stale, meant>>
  BY ExpungeTellsWork
<1>2. B \in SUBSET Nat /\ read \in SUBSET Nat /\ view[c] \in SUBSET (Nat \X Nat)
  BY <1>1, BoxFields DEF Sound, ImapTypes, DataTypes, ClientTypes, WorkType
<1>3. SUFFICES ASSUME ~stale[c]
      PROVE  /\ Right(view'[c], B \cup (deleted \ {r}))
             /\ B \cap (deleted \ {r}) = {}
             /\ \A u \in deleted \ {r} : {v \in read : v <= u}
                                          = {v \in B \cup (deleted \ {r}) : v <= u}
  <2>1. Listing(selected[c])' = B
    BY <1>1 DEF Listing
  <2> QED
    BY <1>1, <2>1 DEF Untold, NumbersOK, Selected
<1>4. /\ Right(view[c], B \cup deleted) /\ B \cap deleted = {}
      /\ \A u \in deleted : {v \in read : v <= u} = {v \in B \cup deleted : v <= u}
  BY <1>1, <1>3 DEF Untold, NumbersOK, Listing
<1>5. deleted \in SUBSET Nat /\ r \in deleted /\ \A v \in deleted : v <= r
  BY <1>1, <1>2 DEF LastOf
<1> DEFINE known == view[c]
<1>6. known \in SUBSET (Nat \X Nat) /\ Right(known, B \cup deleted)
      /\ view'[c] = Forget(known, Number(read, r))
  BY <1>1, <1>2, <1>4
<1> HIDE DEF B, read, deleted, known
<1>7. Number(read, r) = Number(B \cup deleted, r)
  <2>1. Upto(read, r) = Upto(B \cup deleted, r)
    BY <1>4, <1>5 DEF Upto
  <2> QED
    BY <2>1, NumberSame
<1>8. B \cup (deleted \ {r}) = (B \cup deleted) \ {r}
  BY <1>4, <1>5
<1>9. Right(Forget(known, Number(B \cup deleted, r)), (B \cup deleted) \ {r})
  <2> DEFINE A == B \cup deleted
  <2>1. A \in SUBSET Nat /\ r \in A /\ Right(known, A)
    BY <1>2, <1>5, <1>6
  <2> HIDE DEF A
  <2>2. Right(Forget(known, Number(A, r)), A \ {r})
    BY <1>6, <2>1, ForgetRight
  <2> QED
    BY <2>2 DEF A
<1>10. ASSUME NEW u \in deleted \ {r}
       PROVE  {v \in read : v <= u} = {v \in B \cup (deleted \ {r}) : v <= u}
  <2>1. u \in Nat /\ r \in Nat /\ u <= r /\ u # r
    BY <1>5
  <2>2. ~(r <= u)
    BY <2>1
  <2>3. {v \in B \cup (deleted \ {r}) : v <= u} = {v \in B \cup deleted : v <= u}
    BY <2>2
  <2> QED
    BY <1>4, <2>3
<1> QED
  BY <1>4, <1>6, <1>7, <1>8, <1>9, <1>10

(* The EXPUNGE is over when its client has been told of all of them.       *)
LEMMA ExpungeEndsNumbers ==
    ASSUME Sound, ImapTypes', NEW c \in Conns, ExpungeEnds(c), Answered(c), NumbersOK(c)
    PROVE  NumbersOK(c)'
<1>1. work'[c].step = 0
  BY NextLine DEF Sound
<1>2. work[c].step = 3 /\ Cmd(c) = "EXPUNGE" /\ work[c].flagged = {}
  <2>1. At(c, "EXPUNGE", 3) /\ work[c].flagged = {}
    BY DEF ExpungeEnds
  <2> QED
    BY <2>1, AtLine DEF Sound
<1>3. UNCHANGED <<view, selected, state, stale, boxes>>
  BY DEF ExpungeEnds, clientVars, dataVars, history
<1>4. SUFFICES ASSUME Selected(c), ~stale[c]
               PROVE  Right(view[c], Listing(selected[c]))
  BY <1>1, <1>3 DEF Untold, NumbersOK, Selected, Listing
<1>5. Right(view[c], Listing(selected[c]) \cup {})
  BY <1>2, <1>4 DEF Untold, NumbersOK
<1>6. Listing(selected[c]) \cup {} = Listing(selected[c])
  OBVIOUS
<1> QED
  BY <1>5, <1>6

(* The counters of an EXPUNGE: nothing is told by that.                    *)
LEMMA ExpungeCountsNumbers ==
    ASSUME Sound, ImapTypes', NEW c \in Conns, ExpungeCounts(c), NumbersOK(c)
    PROVE  NumbersOK(c)'
<1>1. /\ work[c].step = 2 /\ work'[c].step = 3 /\ Cmd(c) = "EXPUNGE" /\ Cmd(c)' = "EXPUNGE"
      /\ work'[c].uids = work[c].uids /\ work'[c].flagged = work[c].flagged
      /\ UNCHANGED <<selected, state, view, boxes, stale>>
  BY ExpungeCountsWork
<1>2. Selected(c)' = Selected(c) /\ Listing(selected[c])' = Listing(selected[c])
  BY <1>1 DEF Selected, Listing
<1> QED
  BY <1>1, <1>2 DEF NumbersOK, Untold

(* A CLOSE that deletes nothing leaves the numbers as they are.            *)
LEMMA CloseExpungesNumbers ==
    ASSUME Sound, ImapTypes', NEW c \in Conns, CloseExpunges(c), NumbersOK(c)
    PROVE  NumbersOK(c)'
<1> DEFINE b == selected[c]
<1>1. /\ work[c].step = 0 /\ work'[c].step = 2 /\ Cmd(c)' = "CLOSE" /\ Selected(c)
      /\ work'[c].flagged = boxes[b].flagged /\ Fewer(b, boxes[b].flagged)
      /\ stale'[c] = stale[c] /\ UNCHANGED <<selected, state, view>>
  BY CloseExpungesWork
<1>2. ~stale[c] => Right(view[c], boxes[b].uids)
  BY <1>1 DEF NumbersOK, Untold, Listing
<1>3. boxes[b].flagged = {} => Listing(selected[c])' = boxes[b].uids
  BY <1>1 DEF Fewer, Listing
<1> QED
  BY <1>1, <1>2, <1>3 DEF NumbersOK, Untold

(* A query is rejected: what was deleted, and is not told of, makes the    *)
(* numbers stale.                                                          *)
LEMMA RejectNumbers ==
    ASSUME Sound, ImapTypes', NEW c \in Conns, Reject(c), Answered(c), NumbersOK(c)
    PROVE  NumbersOK(c)'
<1>0. ImapTypes /\ WorkOK(c)
  BY DEF Sound
<1>1. work'[c].step = 0
  BY NextLine DEF Sound
<1>2. /\ UNCHANGED <<view, selected, state, boxes>>
      /\ stale'[c] = (stale[c] \/ (work[c].step = 2 /\ work[c].flagged # {}))
  BY <1>0 DEF Reject, clientVars, ImapTypes, ClientTypes
<1>3. SUFFICES ASSUME Selected(c), ~stale[c], ~(work[c].step = 2 /\ work[c].flagged # {})
               PROVE  Right(view[c], Listing(selected[c]))
  <2>1. work'[c].step \notin Untold /\ work'[c].step # 1
    BY <1>1 DEF Untold
  <2>2. /\ Selected(c)' = Selected(c) /\ view'[c] = view[c]
        /\ Listing(selected[c])' = Listing(selected[c])
    BY <1>2 DEF Selected, Listing
  <2>3. Selected(c)' /\ ~stale'[c] => Right(view'[c], Listing(selected[c])')
    BY <1>2, <1>3, <2>2
  <2> QED
    BY <2>1, <2>3 DEF NumbersOK
<1>4. work[c].step # 3
  BY <1>0, AtLine DEF Reject, Awaits
<1>5. CASE work[c].step # 2
  BY <1>3, <1>4, <1>5 DEF NumbersOK, Untold
<1>6. CASE work[c].step = 2 /\ Cmd(c) = "CLOSE"
  BY <1>3, <1>6 DEF NumbersOK, Untold
<1>7. CASE work[c].step = 2 /\ Cmd(c) = "EXPUNGE"
  <2>1. Right(view[c], Listing(selected[c]) \cup {})
    BY <1>3, <1>7 DEF NumbersOK, Untold
  <2>2. Listing(selected[c]) \cup {} = Listing(selected[c])
    OBVIOUS
  <2> QED
    BY <2>1, <2>2
<1> QED
  BY <1>0, <1>5, <1>6, <1>7 DEF WorkOK

(* A step that answers a line.                                             *)
ReplyStep(c) == PlainReply(c) \/ Logout(c) \/ StartIdle(c) \/ StopIdle(c)

LEMMA ReplyStepShape ==
    ASSUME ImapTypes, NEW c \in Conns, ReplyStep(c)
    PROVE  Replies(c)
<1>1. CASE PlainReply(c)
  BY <1>1, PlainReplyShape
<1>2. CASE Logout(c)
  <2>1. queue[c] # <<>> /\ AnswerAndEnd(c) /\ UNCHANGED <<script, rude>>
    BY <1>2, AtLine DEF Logout, clientVars
  <2> QED
    BY <2>1, RepliesAfter DEF Replies
<1>3. CASE StartIdle(c)
  <2>1. queue[c] # <<>> /\ Answer(c) /\ UNCHANGED <<script, rude>>
    BY <1>3, AtLine DEF StartIdle, MayIdle, clientVars
  <2> QED
    BY <2>1, RepliesAfter DEF Replies
<1>4. CASE StopIdle(c)
  <2>1. queue[c] # <<>> /\ Answer(c) /\ UNCHANGED <<script, rude>>
    BY <1>4, AtLine DEF StopIdle, clientVars
  <2> QED
    BY <2>1, RepliesAfter DEF Replies
<1> QED
  BY <1>1, <1>2, <1>3, <1>4 DEF ReplyStep

LEMMA ReplyNumbers ==
    ASSUME Sound, ImapTypes', NEW c \in Conns, ReplyStep(c), Unharmed(c), NumbersOK(c)
    PROVE  WorkOK(c)' /\ NumbersOK(c)'
<1>0. ImapTypes /\ WorkOK(c) /\ Later(boxes, boxes')
  BY DEF Sound, Unharmed
<1>1. Answered(c)
  BY <1>0, ReplyStepShape DEF Replies
<1>2. ASSUME ~Selected(c)'
      PROVE  NumbersOK(c)'
  BY <1>2 DEF NumbersOK
<1>3. ASSUME work[c].step \notin Untold, UNCHANGED <<view, selected, state>>
      PROVE  WorkOK(c)' /\ NumbersOK(c)'
  <2>1. NumbersOK(c)'
    BY <1>1, <1>3, RepliesNumbers DEF Selected
  <2> QED
    BY <1>0, <1>1, <1>3, <2>1, RepliesWork
<1>4. CASE Refuse(c)
  <2>1. work[c].step \notin Untold
    BY <1>0, <1>4, AtLine DEF Untold, Refuse
  <2>2. UNCHANGED <<view, selected, state>>
    BY <1>4 DEF Refuse, clientVars
  <2> QED
    BY <1>3, <2>1, <2>2
<1>5. CASE Reject(c)
  <2>1. selected' = selected
    BY <1>5 DEF Reject
  <2> QED
    BY <1>0, <1>1, <1>5, <2>1, RepliesWork, RejectNumbers
<1>6. CASE ReadOnly(c)
  <2>1. work[c].step \notin Untold
    BY <1>0, <1>6, AtLine DEF Untold, ReadOnly, Lists, Status
  <2>2. UNCHANGED <<view, selected, state>>
    BY <1>6 DEF ReadOnly, clientVars
  <2> QED
    BY <1>3, <2>1, <2>2
<1>7. CASE Delete(c)
  <2>1. At(c, "DELETE", 0) /\ UNCHANGED <<view, selected, state>>
    BY <1>7 DEF Delete, clientVars
  <2>2. work[c].step \notin Untold
    BY <1>0, <2>1, AtLine DEF Untold
  <2> QED
    BY <1>3, <2>1, <2>2
<1>8. CASE Store(c)
  <2>1. At(c, "STORE", 1) /\ UNCHANGED <<view, selected, state>>
    BY <1>8 DEF Store, clientVars
  <2>2. work[c].step \notin Untold
    BY <1>0, <2>1, AtLine DEF Untold
  <2> QED
    BY <1>3, <2>1, <2>2
<1>9. CASE Copy(c)
  <2>1. At(c, "COPY", 1) /\ UNCHANGED <<view, selected, state>>
    BY <1>9 DEF Copy, clientVars
  <2>2. work[c].step \notin Untold
    BY <1>0, <2>1, AtLine DEF Untold
  <2> QED
    BY <1>3, <2>1, <2>2
<1>10. CASE AppendStub(c)
  <2>1. At(c, "APPEND", 0) /\ UNCHANGED <<view, selected, state>>
    BY <1>10 DEF AppendStub, clientVars
  <2>2. work[c].step \notin Untold
    BY <1>0, <2>1, AtLine DEF Untold
  <2> QED
    BY <1>3, <2>1, <2>2
<1>11. CASE SelectReads(c)
  <2>1. At(c, "SELECT", 0) /\ UNCHANGED <<view, selected, state>>
    BY <1>11 DEF SelectReads, clientVars
  <2>2. work[c].step \notin Untold
    BY <1>0, <2>1, AtLine DEF Untold
  <2> QED
    BY <1>3, <2>1, <2>2
<1>12. CASE CreateReads(c)
  <2>1. At(c, "CREATE", 0) /\ UNCHANGED <<view, selected, state>>
    BY <1>12 DEF CreateReads, clientVars
  <2>2. work[c].step \notin Untold
    BY <1>0, <2>1, AtLine DEF Untold
  <2> QED
    BY <1>3, <2>1, <2>2
<1>13. CASE Create(c)
  <2>1. At(c, "CREATE", 1) /\ UNCHANGED <<view, selected, state>>
    BY <1>13 DEF Create, clientVars
  <2>2. work[c].step \notin Untold
    BY <1>0, <2>1, AtLine DEF Untold
  <2> QED
    BY <1>3, <2>1, <2>2
<1>14. CASE StartIdle(c)
  <2>1. work[c].step \notin Untold
    BY <1>0, <1>14, AtLine DEF Untold, StartIdle, MayIdle
  <2>2. UNCHANGED <<view, selected, state>>
    BY <1>14 DEF StartIdle, clientVars
  <2> QED
    BY <1>3, <2>1, <2>2
<1>15. CASE StopIdle(c)
  <2>1. work[c].step \notin Untold
    BY <1>0, <1>15, AtLine DEF Untold, StopIdle
  <2>2. UNCHANGED <<view, selected, state>>
    BY <1>15 DEF StopIdle, clientVars
  <2> QED
    BY <1>3, <2>1, <2>2
<1>16. CASE AfterLogout(c)
  <2>1. state'[c] # "SELECTED" /\ selected' = selected
    BY <1>0, <1>16 DEF AfterLogout, ImapTypes, ConnTypes
  <2> QED
    BY <1>0, <1>1, <1>2, <2>1, RepliesWork DEF Selected
<1>17. CASE Login(c)
  <2>1. state'[c] # "SELECTED" /\ selected' = selected
    BY <1>0, <1>17 DEF Login, ImapTypes, ConnTypes
  <2> QED
    BY <1>0, <1>1, <1>2, <2>1, RepliesWork DEF Selected
<1>18. CASE Logout(c)
  <2>1. state'[c] # "SELECTED" /\ selected' = selected
    BY <1>0, <1>18 DEF Logout, ImapTypes, ConnTypes
  <2> QED
    BY <1>0, <1>1, <1>2, <2>1, RepliesWork DEF Selected
<1>19. CASE Select(c)
  <2>1. At(c, "SELECT", 1) /\ view'[c] = {} /\ selected'[c] = work[c].box
    BY <1>0, <1>19 DEF Select, ImapTypes, ConnTypes, ClientTypes
  <2>2. work[c].box \in 1..Len(boxes)
    <3>1. work[c].step # 0 /\ Cmd(c) = "SELECT"
      BY <1>0, <2>1, AtLine
    <3> QED
      BY <1>0, <3>1 DEF WorkOK
  <2> QED
    BY <1>0, <1>1, <2>1, <2>2, RepliesWork, NothingKnown
<1>20. CASE CloseBox(c)
  <2>1. view'[c] = {} /\ selected'[c] = None
    BY <1>0, <1>20 DEF CloseBox, ImapTypes, ConnTypes, ClientTypes
  <2> QED
    BY <1>0, <1>1, <2>1, RepliesWork, NothingKnown
<1>21. CASE Fetch(c)
  <2>1. /\ At(c, "FETCH", 1) /\ view'[c] = Numbered(work[c].uids)
        /\ UNCHANGED <<selected, state, stale, boxes>>
    BY <1>0, <1>21 DEF Fetch, ImapTypes, ClientTypes, dataVars, history
  <2>2. work[c].step = 1 /\ Cmd(c) \in OnMessages
    BY <1>0, <2>1, AtLine DEF OnMessages
  <2> QED
    BY <1>0, <1>1, <2>1, <2>2, RepliesWork, LearnsNumbers
<1>22. CASE Search(c)
  <2>1. /\ At(c, "SEARCH", 1) /\ UNCHANGED <<selected, state, stale, boxes>>
        /\ view'[c] = IF Teaches(Line(c)) THEN Numbered(Found(c)) ELSE view[c]
    BY <1>0, <1>22 DEF Search, ImapTypes, ClientTypes, dataVars, history
  <2>2. work[c].step = 1 /\ Cmd(c) \in OnMessages /\ Line(c).cmd = "SEARCH"
    BY <1>0, <2>1, AtLine DEF OnMessages, Cmd
  <2>3. Teaches(Line(c)) => Found(c) = work[c].uids
    BY <2>2 DEF Teaches, Found, Matches
  <2>4. CASE Teaches(Line(c))
    BY <1>0, <1>1, <2>1, <2>2, <2>3, <2>4, RepliesWork, LearnsNumbers
  <2>5. CASE ~Teaches(Line(c))
    <3>1. view'[c] = view[c] /\ selected'[c] = selected[c] /\ (Selected(c)' => Selected(c))
      BY <2>1, <2>5 DEF Selected
    <3>2. work[c].step \notin Untold
      BY <2>2 DEF Untold
    <3> QED
      BY <1>0, <1>1, <3>1, <3>2, RepliesWork, RepliesNumbers
  <2> QED
    BY <2>4, <2>5
<1>23. CASE ExpungeEnds(c)
  <2>1. selected' = selected
    BY <1>23 DEF ExpungeEnds
  <2> QED
    BY <1>0, <1>1, <1>23, <2>1, RepliesWork, ExpungeEndsNumbers
<1> QED
  BY <1>4, <1>5, <1>6, <1>7, <1>8, <1>9, <1>10, <1>11, <1>12, <1>13, <1>14, <1>15, <1>16, <1>17, <1>18, <1>19, <1>20, <1>21, <1>22, <1>23 DEF ReplyStep, PlainReply

(* Nothing that the handler at work has read is touched by a line that     *)
(* comes, by the close or by the timer.                                    *)
LEMMA ApartNumbers ==
    ASSUME Sound, NEW c \in Conns, Send(c) \/ Close(c) \/ TimerFires(c), LinesOK(c),
           NumbersOK(c)
    PROVE  WorkOK(c)' /\ NumbersOK(c)'
<1>0. ImapTypes /\ WorkOK(c)
  BY DEF Sound
<1>1. UNCHANGED <<selected, state, work, boxes, view, stale>>
  BY DEF Send, Close, TimerFires, dataVars, clientVars, history
<1>2. work[c].step # 0 => Cmd(c)' = Cmd(c)
  <2>1. CASE Send(c)
    BY <1>0, <2>1, SendHead DEF LinesOK, Cmd
  <2>2. CASE Close(c) \/ TimerFires(c)
    BY <2>2 DEF Close, TimerFires, Cmd
  <2> QED
    BY <2>1, <2>2
<1>3. work[c].step \in {1, 2, 3} => work[c].step # 0
  OBVIOUS
<1>4. work[c].step \in Untold => work[c].step # 0
  BY DEF Untold
<1>5. Selected(c)' = Selected(c) /\ Listing(selected[c])' = Listing(selected[c])
  BY <1>1 DEF Selected, Listing
<1>6. WorkOK(c)'
  BY <1>0, <1>1, <1>2, <1>3, <1>5 DEF WorkOK
<1>7. NumbersOK(c)'
  BY <1>1, <1>2, <1>3, <1>4, <1>5 DEF NumbersOK
<1> QED
  BY <1>6, <1>7

LEMMA WorkNumbers ==
    ASSUME Sound, ImapTypes', NEW c \in Conns, WorkStep(c), NumbersOK(c)
    PROVE  WorkOK(c)' /\ NumbersOK(c)'
<1>0. ImapTypes /\ WorkOK(c)
  BY DEF Sound
<1>1. CASE (SelectReads(c) /\ ~Answer(c)) \/ (CreateReads(c) /\ ~Answer(c))
  <2>1. /\ WorkOK(c)' /\ work'[c].step = 1 /\ Cmd(c)' \in {"SELECT", "CREATE"}
        /\ UNCHANGED <<selected, state, view, queue, boxes>>
    BY <1>1, SelectReadsWork, CreateReadsWork
  <2>2. work[c].step \notin Untold /\ stale' = stale
    BY <1>0, <1>1, AtLine DEF SelectReads, CreateReads, history, Untold
  <2> QED
    BY <2>1, <2>2 DEF NumbersOK, OnMessages, Selected, Listing, Untold
<1>2. CASE CloseExpunges(c)
  BY <1>2, CloseExpungesWork, CloseExpungesNumbers
<1>3. CASE ListMessages(c)
  BY <1>3, ListMessagesWork, ListMessagesNumbers
<1>4. CASE Expunge(c)
  BY <1>4, ExpungeWork, ExpungeNumbers
<1>5. CASE ExpungeTells(c)
  BY <1>5, ExpungeTellsWork, ExpungeTellsNumbers
<1>6. CASE ExpungeCounts(c)
  BY <1>6, ExpungeCountsWork, ExpungeCountsNumbers
<1> QED
  BY <1>1, <1>2, <1>3, <1>4, <1>5, <1>6 DEF WorkStep

-----------------------------------------------------------------------------
(* What the clients asked for.                                             *)

LEMMA SameRowsMeant ==
    ASSUME RowsMeant, UNCHANGED <<boxes, gone>>, meant \subseteq meant'
    PROVE  RowsMeant'
  BY DEF RowsMeant

LEMMA FewerMeant ==
    ASSUME RowsMeant, NEW b, NEW uids, Fewer(b, uids), meant' = meant, gone' \subseteq meant
    PROVE  RowsMeant'
  BY DEF RowsMeant, Fewer

(* A row that comes is not flagged, unless it is the copy of one that is.  *)
LEMMA AddRowMeant ==
    ASSUME Sound, RowsMeant, NEW b \in 1..Len(boxes), NEW f \in BOOLEAN, AddRow(b, f),
           gone' = gone, meant \subseteq meant', f => <<b, boxes[b].next>> \in meant'
    PROVE  RowsMeant'
<1>1. /\ Len(boxes') = Len(boxes)
      /\ \A d \in 1..Len(boxes) : \A u \in boxes'[d].flagged :
            u \in boxes[d].flagged \/ (f /\ d = b /\ u = boxes[b].next)
  BY AddRowBoxes DEF Sound
<1> QED
  BY <1>1 DEF RowsMeant

LEMMA CreateMeant ==
    ASSUME Sound, RowsMeant, NEW c \in Conns, Create(c)
    PROVE  RowsMeant'
<1>0. ImapTypes /\ RowsOK
  BY DEF Sound
<1>1. UNCHANGED <<meant, gone>>
  BY DEF Create, history
<1>2. CASE UNCHANGED boxes
  BY <1>1, <1>2, SameRowsMeant
<1>3. CASE boxes' = Append(boxes, Box(Line(c).arg, {}))
  <2>1. Line(c).arg \in Args
    <3>1. At(c, "CREATE", 1)
      BY DEF Create
    <3> QED
      BY <1>0, <3>1, AtLine DEF QueueLine
  <2>2. /\ Len(boxes') = Len(boxes) + 1 /\ boxes'[Len(boxes) + 1].flagged = {}
        /\ \A d \in 1..Len(boxes) : boxes'[d] = boxes[d]
    BY <1>0, <1>3, <2>1, NewBox
  <2>3. \A d \in 1..Len(boxes') : d \in 1..Len(boxes) \/ d = Len(boxes) + 1
    BY <1>0, <2>2 DEF ImapTypes, DataTypes
  <2>4. \A b \in 1..Len(boxes') : \A u \in boxes'[b].flagged : <<b, u>> \in meant
    BY <2>2, <2>3 DEF RowsMeant
  <2> QED
    BY <1>1, <2>4 DEF RowsMeant
<1> QED
  BY <1>2, <1>3 DEF Create

LEMMA DeleteMeant ==
    ASSUME Sound, RowsMeant, NEW c \in Conns, Delete(c)
    PROVE  RowsMeant'
<1>1. UNCHANGED <<meant, gone>>
  BY DEF Delete
<1>2. CASE UNCHANGED boxes
  BY <1>1, <1>2, SameRowsMeant
<1>3. CASE ~UNCHANGED boxes
  <2>1. PICK b \in Named(Line(c).arg) :
           boxes' = [boxes EXCEPT ![b].there = FALSE, ![b].uids = {}, ![b].flagged = {}]
    BY <1>3 DEF Delete
  <2>2. b \in 1..Len(boxes)
    BY DEF Named
  <2>3. Fewer(b, boxes[b].uids)
    BY <2>1, <2>2, DeleteBoxes DEF Sound
  <2> QED
    BY <1>1, <2>3, FewerMeant DEF RowsMeant
<1> QED
  BY <1>2, <1>3

LEMMA CloseExpungesMeant ==
    ASSUME Sound, RowsMeant, NEW c \in Conns, CloseExpunges(c)
    PROVE  RowsMeant'
<1> DEFINE b == selected[c]
<1>1. b \in 1..Len(boxes)
  BY SeenBox DEF CloseExpunges, Selected
<1>2. /\ TakeAway(c, b, boxes[b].flagged) /\ meant' = meant
      /\ gone' = gone \cup {<<b, u>> : u \in boxes[b].flagged}
  BY DEF CloseExpunges
<1>3. Fewer(b, boxes[b].flagged)
  BY <1>1, <1>2, TakeAwayBoxes DEF Sound
<1>4. gone' \subseteq meant
  BY <1>1, <1>2 DEF RowsMeant
<1> QED
  BY <1>2, <1>3, <1>4, FewerMeant

LEMMA ExpungeMeant ==
    ASSUME Sound, ImapTypes', RowsMeant, NEW c \in Conns, Expunge(c), MeantOK(c)
    PROVE  RowsMeant' /\ MeantOK(c)'
<1>1. /\ work[c].step = 1 /\ work'[c].step = 2 /\ Cmd(c) = "EXPUNGE" /\ Cmd(c)' = "EXPUNGE"
      /\ selected[c] \in 1..Len(boxes)
      /\ work[c].box = selected[c] /\ work'[c].box = work[c].box
      /\ work'[c].flagged = work[c].flagged /\ Fewer(selected[c], work[c].flagged)
  BY ExpungeWork
<1>2. /\ meant' = meant
      /\ gone' = gone \cup {<<work[c].box, u>> : u \in work[c].flagged}
  BY DEF Expunge
<1>3. \A u \in work[c].flagged : <<work[c].box, u>> \in meant
  BY <1>1 DEF MeantOK, OnMessages
<1>4. gone' \subseteq meant
  BY <1>2, <1>3 DEF RowsMeant
<1>5. RowsMeant'
  BY <1>1, <1>2, <1>4, FewerMeant
<1>6. MeantOK(c)'
  BY <1>1, <1>2, <1>3 DEF MeantOK, Flags
<1> QED
  BY <1>5, <1>6

LEMMA ExpungeTellsMeant ==
    ASSUME Sound, ImapTypes', RowsMeant, NEW c \in Conns, ExpungeTells(c), MeantOK(c)
    PROVE  RowsMeant' /\ MeantOK(c)'
<1>1. PICK u \in work[c].flagged :
        /\ work[c].step = 3 /\ work'[c].step = 3
        /\ Cmd(c) = "EXPUNGE" /\ Cmd(c)' = "EXPUNGE"
        /\ work'[c].box = work[c].box /\ work'[c].flagged = work[c].flagged \ {u}
  BY ExpungeTellsWork
<1>2. UNCHANGED <<boxes, meant, gone>>
  BY DEF ExpungeTells, dataVars, history
<1>3. \A v \in work[c].flagged : <<work[c].box, v>> \in meant
  BY <1>1 DEF MeantOK, OnMessages
<1>4. MeantOK(c)'
  BY <1>1, <1>2, <1>3 DEF MeantOK, Flags
<1> QED
  BY <1>2, <1>4, SameRowsMeant

LEMMA ExpungeCountsMeant ==
    ASSUME Sound, ImapTypes', RowsMeant, NEW c \in Conns, ExpungeCounts(c), MeantOK(c)
    PROVE  RowsMeant' /\ MeantOK(c)'
<1>1. /\ work[c].step = 2 /\ work'[c].step = 3 /\ Cmd(c) = "EXPUNGE" /\ Cmd(c)' = "EXPUNGE"
      /\ work'[c].box = work[c].box /\ work'[c].flagged = work[c].flagged
      /\ UNCHANGED <<boxes, meant, gone>>
  BY ExpungeCountsWork
<1>2. \A v \in work[c].flagged : <<work[c].box, v>> \in meant
  BY <1>1 DEF MeantOK, OnMessages
<1>3. MeantOK(c)'
  BY <1>1, <1>2 DEF MeantOK, Flags
<1> QED
  BY <1>1, <1>3, SameRowsMeant

LEMMA StoreMeant ==
    ASSUME Sound, RowsMeant, NEW c \in Conns, Store(c), MeantOK(c)
    PROVE  RowsMeant'
<1> DEFINE b == selected[c]
           set == StoreFlags(Line(c).arg, Targets(c), work[c].flagged)
<1>1. /\ b \in 1..Len(boxes) /\ Len(boxes') = Len(boxes)
      /\ boxes'[b].flagged = (boxes[b].flagged \ Targets(c)) \cup (set \cap boxes[b].uids)
      /\ \A d \in 1..Len(boxes) : d # b => boxes'[d] = boxes[d]
  BY StoreTypes
<1>2. UNCHANGED <<meant, gone>> /\ At(c, "STORE", 1)
  BY DEF Store, history
<1>3. /\ work[c].step = 1 /\ Cmd(c) = "STORE" /\ queue[c] # <<>> /\ Line(c) = queue[c][1]
      /\ work[c].box = b
  BY <1>2, AtLine, AtWork DEF Sound, OnMessages
<1>4. \A u \in work[c].flagged : <<b, u>> \in meant
  BY <1>3 DEF MeantOK, OnMessages
<1>5. Line(c).arg = "+" => \A u \in Targets(c) : <<b, u>> \in meant
  BY <1>3 DEF MeantOK, Flags
<1>6. \A u \in set : <<b, u>> \in meant
  <2>1. CASE Line(c).arg = "+"
    BY <1>5, <2>1 DEF StoreFlags
  <2>2. CASE Line(c).arg = "-"
    BY <2>2 DEF StoreFlags
  <2>3. CASE Line(c).arg \notin {"+", "-"}
    <3>1. set = Targets(c) \cap work[c].flagged
      BY <2>3 DEF StoreFlags
    <3> QED
      BY <1>4, <3>1
  <2> QED
    BY <2>1, <2>2, <2>3
<1> HIDE DEF set
<1>7. \A u \in boxes'[b].flagged : <<b, u>> \in meant
  BY <1>1, <1>6 DEF RowsMeant
<1> QED
  BY <1>1, <1>2, <1>7 DEF RowsMeant

LEMMA CopyMeant ==
    ASSUME Sound, RowsMeant, NEW c \in Conns, Copy(c)
    PROVE  RowsMeant'
<1>1. gone' = gone
  BY DEF Copy
<1>2. CASE UNCHANGED <<boxes, meant>>
  BY <1>1, <1>2, SameRowsMeant
<1>3. CASE ~UNCHANGED <<boxes, meant>>
  <2>1. PICK b \in Named(Line(c).arg) : CopyMessages(b, Targets(c) \subseteq work[c].flagged)
    BY <1>3 DEF Copy
  <2> DEFINE f == Targets(c) \subseteq work[c].flagged
  <2>2. /\ b \in 1..Len(boxes) /\ f \in BOOLEAN /\ AddRow(b, f) /\ meant \subseteq meant'
        /\ f => <<b, boxes[b].next>> \in meant'
    BY <2>1 DEF Named, CopyMessages
  <2> HIDE DEF f
  <2> QED
    BY <1>1, <2>2, AddRowMeant
<1> QED
  BY <1>2, <1>3

LEMMA AppendStubMeant ==
    ASSUME Sound, RowsMeant, NEW c \in Conns, AppendStub(c)
    PROVE  RowsMeant'
<1>1. UNCHANGED <<meant, gone>>
  BY DEF AppendStub, history
<1>2. CASE UNCHANGED boxes
  BY <1>1, <1>2, SameRowsMeant
<1>3. ASSUME NEW b \in Named(Line(c).arg), AddRow(b, FALSE)
      PROVE  RowsMeant'
  <2>1. b \in 1..Len(boxes)
    BY DEF Named
  <2> QED
    BY <1>1, <1>3, <2>1, AddRowMeant
<1> QED
  BY <1>2, <1>3 DEF AppendStub

LEMMA RestMeant ==
    ASSUME Sound, RowsMeant, Deliver \/ RemoveOnWeb
    PROVE  RowsMeant'
<1>0. 1 \in 1..Len(boxes)
  BY DEF Sound, ImapTypes, DataTypes
<1>1. CASE Deliver
  <2>1. AddRow(1, FALSE) /\ UNCHANGED <<meant, gone>>
    BY <1>1 DEF Deliver, history
  <2> QED
    BY <1>0, <2>1, AddRowMeant
<1>2. CASE RemoveOnWeb
  <2>1. PICK u \in boxes[1].uids : TakeAway(None, 1, {u}) /\ UNCHANGED <<meant, gone>>
    BY <1>2 DEF RemoveOnWeb
  <2>2. Fewer(1, {u})
    BY <1>0, <2>1, TakeAwayBoxes DEF Sound
  <2> QED
    BY <2>1, <2>2, FewerMeant DEF RowsMeant
<1> QED
  BY <1>1, <1>2

(* The answers leave nothing to be meant.                                  *)
LEMMA ReplyMeant ==
    ASSUME Sound, RowsMeant, NEW c \in Conns, ReplyStep(c), LinesOK(c), MeantOK(c)
    PROVE  RowsMeant' /\ MeantOK(c)'
<1>0. ImapTypes
  BY DEF Sound
<1>1. Answered(c) /\ script' = script
  BY <1>0, ReplyStepShape DEF Replies
<1>2. ~Flags(c)' /\ work'[c].step = 0
  BY <1>0, <1>1, AnsweredLines, NextLine
<1>3. MeantOK(c)'
  BY <1>2 DEF MeantOK
<1>4. CASE Create(c) \/ Delete(c) \/ Store(c) \/ Copy(c) \/ AppendStub(c)
  <2>1. Create(c) \/ Delete(c) => RowsMeant'
    BY CreateMeant, DeleteMeant
  <2>2. Store(c) => RowsMeant'
    BY StoreMeant
  <2>3. Copy(c) \/ AppendStub(c) => RowsMeant'
    BY CopyMeant, AppendStubMeant
  <2> QED
    BY <1>3, <1>4, <2>1, <2>2, <2>3
<1>5. CASE \/ Refuse(c) \/ AfterLogout(c) \/ Reject(c) \/ ReadOnly(c) \/ Login(c)
           \/ Logout(c) \/ StartIdle(c) \/ StopIdle(c) \/ SelectReads(c) \/ CreateReads(c)
  <2>1. UNCHANGED <<boxes, gone>> /\ meant \subseteq meant'
    BY <1>5 DEF Refuse, AfterLogout, Reject, ReadOnly, Login, Logout, StartIdle, StopIdle,
       SelectReads, CreateReads, dataVars, history
  <2> QED
    BY <1>3, <2>1, SameRowsMeant
<1>6. CASE Select(c) \/ CloseBox(c) \/ Fetch(c) \/ Search(c) \/ ExpungeEnds(c)
  <2>1. UNCHANGED <<boxes, gone>> /\ meant \subseteq meant'
    BY <1>6 DEF Select, CloseBox, Fetch, Search, ExpungeEnds, dataVars, history
  <2> QED
    BY <1>3, <2>1, SameRowsMeant
<1> QED
  BY <1>4, <1>5, <1>6 DEF ReplyStep, PlainReply

(* A STORE is read by the server as its client meant it: as long as the    *)
(* numbers of the client are right, they name one message each.            *)
LEMMA ListMessagesMeant ==
    ASSUME Sound, ImapTypes', RowsMeant, NEW c \in Conns, ListMessages(c), MeantOK(c),
           NumbersOK(c), ~astray'
    PROVE  RowsMeant' /\ MeantOK(c)'
<1> DEFINE b == selected[c]
           A == boxes[b].uids
           line == queue[c][1]
           named == Behind(c, line.by, line.n)
<1>1. /\ work[c].step = 0 /\ work'[c].step = 1 /\ Selected(c) /\ b \in 1..Len(boxes)
      /\ work'[c].box = b /\ work'[c].uids = A /\ work'[c].flagged = boxes[b].flagged
      /\ UNCHANGED <<queue, boxes, meant>>
  BY ListMessagesWork
<1>2. gone' = gone /\ ~(stale[c] /\ Line(c).by = "number")
  BY DEF ListMessages
<1>3. RowsMeant'
  BY <1>1, <1>2, SameRowsMeant
<1>4. ASSUME Flags(c)
      PROVE  \A u \in Targets(c)' : <<b, u>> \in meant
  <2>1. line.by # "none" /\ named # {} /\ {b} \X named \subseteq meant
    BY <1>1, <1>4 DEF MeantOK
  <2>2. line \in QueueLine /\ Line(c) = line /\ Line(c)' = line
    <3>1. queue[c] \in Seq(QueueLine) /\ queue[c] # <<>>
      BY <1>4 DEF Flags, Sound, ImapTypes, ConnTypes
    <3> QED
      BY <1>1, <3>1 DEF Line
  <2>3. line.by \in {"number", "uid"} /\ line.n \in Nat
    BY <2>1, <2>2 DEF QueueLine, Bys
  <2>4. A \in SUBSET Nat
    BY <1>1, BoxFields DEF Sound
  <2>5. SUFFICES ASSUME NEW u \in Targets(c)'
                 PROVE  u \in named
    BY <2>1
  <2>6. CASE line.by = "uid"
    <3>1. u = line.n
      BY <2>2, <2>5, <2>6 DEF Targets, SequenceSet
    <3>2. named \subseteq {line.n}
      BY <2>6 DEF Behind
    <3> QED
      BY <2>1, <3>1, <3>2
  <2>7. CASE line.by = "number"
    <3>1. u \in A /\ Number(A, u) = line.n
      BY <1>1, <2>2, <2>5, <2>7 DEF Targets, SequenceSet
    <3>2. named = {p[2] : p \in {q \in view[c] : q[1] = line.n}}
      BY <2>7 DEF Behind
    <3>3. PICK p \in view[c] : p[1] = line.n /\ p[2] \in named
      BY <2>1, <3>2
    <3>4. Right(view[c], A)
      <4>1. ~stale[c]
        BY <1>2, <2>2, <2>7
      <4>2. work[c].step \notin Untold /\ A = Listing(b)
        BY <1>1 DEF Untold, Listing
      <4> QED
        BY <1>1, <4>1, <4>2, Zenon DEF NumbersOK
    <3>5. p[2] \in A /\ Number(A, p[2]) = line.n
      BY <3>3, <3>4 DEF Right
    <3> DEFINE v == p[2]
    <3>6. v \in A /\ Number(A, v) = Number(A, u) /\ v \in named
      BY <3>1, <3>3, <3>5
    <3> HIDE DEF v, A, named
    <3> QED
      BY <2>4, <3>1, <3>6, NumberNames
  <2> QED
    BY <2>3, <2>6, <2>7
<1>5. \A u \in boxes[b].flagged : <<b, u>> \in meant
  BY <1>1 DEF RowsMeant
<1>6. Flags(c)' = Flags(c)
  BY <1>1 DEF Flags, Cmd
<1>7. MeantOK(c)'
  BY <1>1, <1>4, <1>5, <1>6 DEF MeantOK
<1> QED
  BY <1>3, <1>7

(* A client is held to what it names when it sends the line.               *)
LEMMA SendMeant ==
    ASSUME Sound, RowsMeant, NEW c \in Conns, Send(c), LinesOK(c), MeantOK(c)
    PROVE  RowsMeant' /\ MeantOK(c)'
<1>0. ImapTypes
  BY DEF Sound
<1>1. /\ UNCHANGED <<boxes, gone, selected, work, view>> /\ meant \subseteq meant'
  BY DEF Send, dataVars
<1>2. RowsMeant'
  BY <1>1, SameRowsMeant
<1>3. CASE queue[c] # <<>>
  <2>1. queue'[c] # <<>> /\ queue'[c][1] = queue[c][1]
    BY <1>0, <1>3, SendHead
  <2>2. /\ Cmd(c)' = Cmd(c) /\ Flags(c)' = Flags(c) /\ Targets(c)' = Targets(c)
    <3>1. Head(queue'[c]) = Head(queue[c])
      <4>1. queue'[c] \in Seq(QueueLine) /\ queue[c] \in Seq(QueueLine)
        BY <1>0, SendTypes DEF ImapTypes, ConnTypes
      <4> QED
        BY <1>3, <2>1, <4>1
    <3>2. Line(c)' = Line(c)
      BY <3>1 DEF Line
    <3>3. Targets(c)' = Targets(c)
      BY <1>1, <3>2 DEF Targets
    <3>4. Cmd(c)' = Cmd(c) /\ Flags(c)' = Flags(c)
      BY <1>3, <2>1 DEF Cmd, Flags
    <3> QED
      BY <3>3, <3>4
  <2>3. \A by, n : Behind(c, by, n)' = Behind(c, by, n)
    BY <1>1 DEF Behind
  <2>4. MeantOK(c)'
    BY <1>1, <2>1, <2>2, <2>3 DEF MeantOK
  <2> QED
    BY <1>2, <2>4
<1>4. CASE queue[c] = <<>>
  <2>1. PICK k \in 1..2, n \in 1..MaxUid :
           LET first == script[c][1] IN
           /\ k <= Len(script[c])
           /\ first.by # "none" => Behind(c, first.by, n) # {}
           /\ queue' = [queue EXCEPT ![c] = @ \o
                [i \in 1..k |-> [cmd |-> script[c][i].cmd, arg |-> script[c][i].arg,
                                 by |-> script[c][i].by, n |-> n]]]
           /\ meant' = IF first.cmd = "STORE" /\ first.arg = "+"
                       THEN meant \cup ({selected[c]} \X Behind(c, first.by, n)) ELSE meant
    BY DEF Send
  <2> DEFINE first == script[c][1]
             lines == [i \in 1..k |-> [cmd |-> script[c][i].cmd, arg |-> script[c][i].arg,
                                       by |-> script[c][i].by, n |-> n]]
  <2>2. Len(lines) = k /\ lines \in Seq({lines[i] : i \in 1..k}) /\ 1 \in 1..k
    OBVIOUS
  <2>3. /\ lines[1].cmd = first.cmd /\ lines[1].arg = first.arg /\ lines[1].by = first.by
        /\ lines[1].n = n
    BY <2>2
  <2>4. queue'[c] = queue[c] \o lines
    BY <1>0, <2>1 DEF ImapTypes, ConnTypes
  <2> HIDE DEF lines
  <2>5. queue'[c][1] = lines[1]
    BY <1>4, <2>2, <2>4
  <2>6. work[c].step = 0 /\ (first.cmd = "STORE" => first.by # "none")
    <3>1. 1 \in 1..Len(script[c])
      BY <1>0, <2>1 DEF ImapTypes, ClientTypes
    <3> QED
      BY <1>4, <3>1 DEF LinesOK
  <2>7. \A by, m : Behind(c, by, m)' = Behind(c, by, m)
    BY <1>1 DEF Behind
  <2>8. ASSUME first.cmd = "STORE", first.arg = "+"
        PROVE  /\ first.by # "none" /\ Behind(c, first.by, n) # {}
               /\ {selected[c]} \X Behind(c, first.by, n) \subseteq meant'
    BY <2>1, <2>6, <2>8
  <2>9. MeantOK(c)'
    BY <1>1, <2>3, <2>5, <2>6, <2>7, <2>8 DEF MeantOK, Flags, Cmd
  <2> QED
    BY <1>2, <2>9
<1> QED
  BY <1>3, <1>4

LEMMA WorkMeant ==
    ASSUME Sound, ImapTypes', RowsMeant, NEW c \in Conns, WorkStep(c), MeantOK(c),
           NumbersOK(c), ~astray'
    PROVE  RowsMeant' /\ MeantOK(c)'
<1>1. CASE (SelectReads(c) /\ ~Answer(c)) \/ (CreateReads(c) /\ ~Answer(c))
  <2>1. work'[c].step = 1 /\ Cmd(c)' \in {"SELECT", "CREATE"}
    BY <1>1, SelectReadsWork, CreateReadsWork
  <2>2. UNCHANGED <<boxes, gone>> /\ meant \subseteq meant'
    BY <1>1 DEF SelectReads, CreateReads, dataVars, history
  <2>3. MeantOK(c)'
    BY <2>1 DEF MeantOK, Flags, OnMessages
  <2> QED
    BY <2>2, <2>3, SameRowsMeant
<1>2. CASE CloseExpunges(c)
  <2>1. work'[c].step = 2 /\ Cmd(c)' = "CLOSE"
    BY <1>2, CloseExpungesWork
  <2>2. MeantOK(c)'
    BY <2>1 DEF MeantOK, Flags, OnMessages
  <2> QED
    BY <1>2, <2>2, CloseExpungesMeant
<1>3. CASE ListMessages(c)
  BY <1>3, ListMessagesMeant
<1>4. CASE Expunge(c)
  BY <1>4, ExpungeMeant
<1>5. CASE ExpungeTells(c)
  BY <1>5, ExpungeTellsMeant
<1>6. CASE ExpungeCounts(c)
  BY <1>6, ExpungeCountsMeant
<1> QED
  BY <1>1, <1>2, <1>3, <1>4, <1>5, <1>6 DEF WorkStep

-----------------------------------------------------------------------------
(* The invariant.                                                          *)

LEMMA InitInv ==
    ASSUME Init
    PROVE  ImapInv
<1> USE ImapAssumption DEF Init
<1>1. PICK s \in Scenarios :
         /\ script = s.script
         /\ left = [fails |-> s.fails, removals |-> s.removals, hangups |-> s.hangups]
  OBVIOUS
<1>2. /\ s.script \in [Conns -> Seq(LineType)]
      /\ \A c \in Conns : \A k \in 1..Len(s.script[c]) :
            s.script[c][k].cmd \in {"STORE", "COPY"} => s.script[c][k].by # "none"
      /\ s.fails \in Nat /\ s.removals \in Nat /\ s.hangups \in Nat
  BY ImapAssumption
<1>3. NoWork \in WorkType /\ NoWork.step = 0
  BY DEF NoWork, WorkType, BoxIds
<1>4. ConnTypes
  BY DEF ConnTypes, StateType, BoxIds
<1> DEFINE x == Box("inbox", 1..2)
           y == Box("work", {})
<1>5. /\ x \in BoxType /\ x.flagged = {} /\ x.uids = 1..2 /\ x.next = 3
      /\ y \in BoxType /\ y.flagged = {} /\ y.uids = {}
  <2>1. Cardinality(1..2) = 2 /\ Cardinality({}) = 0
    <3>1. \A a, b \in Int : Cardinality(a..b) = IF a > b THEN 0 ELSE b - a + 1
      BY FS_Interval
    <3>2. Cardinality({}) = 0
      BY FS_EmptySet
    <3>3. 1 \in Int /\ 2 \in Int
      OBVIOUS
    <3>4. Cardinality(1..2) = IF 1 > 2 THEN 0 ELSE 2 - 1 + 1
      BY <3>1, <3>3, Zenon
    <3> QED
      BY <3>2, <3>4
  <2>2. 1..2 \in SUBSET Nat
    OBVIOUS
  <2> QED
    BY <2>1, <2>2 DEF Box, BoxType, Args
<1>6. boxes = <<x, y>>
  OBVIOUS
<1> HIDE DEF x, y
<1>7. /\ boxes \in Seq(BoxType) /\ Len(boxes) = 2 /\ boxes[1] = x /\ boxes[2] = y
      /\ \A b \in 1..Len(boxes) : b = 1 \/ b = 2
  BY <1>5, <1>6
<1>8. left \in [{"fails", "removals", "hangups"} -> Nat]
  BY <1>1, <1>2
<1>9. ImapTypes
  BY <1>1, <1>2, <1>3, <1>4, <1>7, <1>8 DEF ImapTypes, DataTypes, ClientTypes
<1>10. RowsOK /\ Len(boxes) >= 1
  <2>1. \A u \in x.uids : u < x.next
    BY <1>5
  <2>2. x.flagged \subseteq x.uids /\ y.flagged \subseteq y.uids /\ \A u \in y.uids : u < y.next
    BY <1>5
  <2>3. RowsOK
    BY <1>7, <2>1, <2>2 DEF RowsOK
  <2> QED
    BY <1>7, <2>3
<1>11. ASSUME NEW c \in Conns
       PROVE  IdleOK(c) /\ LinesOK(c) /\ WorkOK(c) /\ NumbersOK(c) /\ MeantOK(c)
  <2>1. /\ queue[c] = <<>> /\ work[c].step = 0 /\ selected[c] = None /\ ~idle[c]
        /\ subs[c] = <<>> /\ state[c] = "NOT_AUTHENTICATED" /\ script[c] = s.script[c]
    BY <1>1, <1>3
  <2>2. IdleOK(c)
    BY <2>1 DEF IdleOK
  <2>3. LinesOK(c)
    BY <1>2, <2>1 DEF LinesOK
  <2>4. WorkOK(c) /\ NumbersOK(c)
    BY <2>1 DEF WorkOK, NumbersOK, Selected
  <2>5. MeantOK(c)
    BY <2>1 DEF MeantOK, Flags
  <2> QED
    BY <2>2, <2>3, <2>4, <2>5
<1>12. RowsMeant
  BY <1>5, <1>7 DEF RowsMeant
<1> QED
  BY <1>9, <1>10, <1>11, <1>12 DEF ImapInv, AllMeant

LEMMA InvSound ==
    ASSUME ImapInv
    PROVE  Sound
  BY DEF ImapInv, Sound

LEMMA StutterInv ==
    ASSUME ImapInv, UNCHANGED vars
    PROVE  ImapInv'
<1> USE DEF vars, connVars, dataVars, clientVars, history
<1>1. ImapTypes' /\ RowsOK' /\ Len(boxes') >= 1
  BY DEF ImapInv, ImapTypes, ConnTypes, DataTypes, ClientTypes, RowsOK
<1>2. ASSUME NEW c \in Conns
      PROVE  /\ IdleOK(c)' /\ LinesOK(c)' /\ WorkOK(c)' /\ NumbersOK(c)'
             /\ MeantOK(c) => MeantOK(c)'
  <2>1. Kept(c) /\ Unharmed(c)
    BY Undisturbed DEF Kept, ImapInv
  <2> QED
    BY <1>1, <2>1, KeptIdle, KeptWork, KeptNumbers, KeptMeant, InvSound DEF ImapInv
<1>3. AllMeant => AllMeant'
  BY <1>2, SameRowsMeant DEF AllMeant
<1>4. astray' = astray
  OBVIOUS
<1> QED
  BY <1>1, <1>2, <1>3, <1>4 DEF ImapInv

(* The types and the rows after a step of a connection, and what it leaves *)
(* to all.                                                                 *)
LEMMA StepSound ==
    ASSUME Sound, NEW c \in Conns, Step(c)
    PROVE  /\ ImapTypes' /\ RowsOK' /\ Len(boxes') >= 1
           /\ \A d \in Conns \ {c} : Unharmed(d)
           /\ WorkStep(c) \/ Unharmed(c)
           /\ astray => astray'
<1>0. ImapTypes /\ RowsOK /\ Len(boxes) >= 1
  BY DEF Sound
<1>1. ASSUME ImapTypes', RowsOK', \A d \in Conns : Unharmed(d)
      PROVE  /\ ImapTypes' /\ RowsOK' /\ Len(boxes') >= 1
             /\ \A d \in Conns : Unharmed(d)
             /\ astray => astray'
  <2>1. Len(boxes) <= Len(boxes') /\ (astray => astray')
    BY <1>1 DEF Unharmed, Later
  <2>2. Len(boxes) \in Nat /\ Len(boxes') \in Nat
    BY <1>0, <1>1 DEF ImapTypes, DataTypes
  <2> QED
    BY <1>0, <1>1, <2>1, <2>2
<1>2. CASE QuietSteps(c) \/ Send(c) \/ Close(c) \/ TimerFires(c)
  BY <1>0, <1>1, <1>2, QuietRows
<1>3. CASE Select(c) \/ CloseBox(c) \/ Fetch(c) \/ Search(c) \/ ExpungeEnds(c)
  <2>1. ImapTypes' /\ RowsOK' /\ \A d \in Conns : Unharmed(d)
    BY <1>0, <1>3, SelectTypes, CloseBoxTypes, FetchTypes, SearchTypes, ExpungeEndsTypes
  <2> QED
    BY <1>1, <2>1
<1>4. CASE Create(c) \/ Delete(c)
  <2>1. ImapTypes' /\ RowsOK' /\ \A d \in Conns : Unharmed(d)
    BY <1>4, CreateTypes, DeleteTypes
  <2> QED
    BY <1>1, <2>1
<1>5. CASE Store(c)
  <2>1. ImapTypes' /\ RowsOK' /\ \A d \in Conns : Unharmed(d)
    BY <1>5, StoreTypes
  <2> QED
    BY <1>1, <2>1
<1>6. CASE Copy(c) \/ AppendStub(c)
  <2>1. ImapTypes' /\ RowsOK' /\ \A d \in Conns : Unharmed(d)
    BY <1>6, CopyTypes, AppendStubTypes
  <2> QED
    BY <1>1, <2>1
<1>7. CASE ExpungeTells(c) \/ ExpungeCounts(c)
  <2>1. ImapTypes' /\ RowsOK' /\ \A d \in Conns : Unharmed(d)
    BY <1>0, <1>7, ExpungeTellsTypes, ExpungeCountsTypes
  <2> QED
    BY <1>1, <2>1
<1>8. CASE CloseExpunges(c)
  <2>1. ImapTypes' /\ RowsOK' /\ \A d \in Conns \ {c} : Unharmed(d)
    BY <1>8, CloseExpungesTypes
  <2>2. selected[c] \in 1..Len(boxes)
    BY <1>8, SeenBox DEF CloseExpunges, Selected
  <2>3. TakeAway(c, selected[c], boxes[selected[c]].flagged) /\ astray' = astray
    BY <1>8 DEF CloseExpunges
  <2>4. Len(boxes') = Len(boxes)
    BY <1>0, <2>2, <2>3, TakeAwayBoxes DEF Fewer
  <2> QED
    BY <1>0, <1>8, <2>1, <2>3, <2>4 DEF WorkStep
<1>9. CASE Expunge(c)
  <2>1. ImapTypes' /\ RowsOK' /\ \A d \in Conns \ {c} : Unharmed(d)
    BY <1>9, ExpungeTypes
  <2>2. Fewer(selected[c], work[c].flagged)
    BY <1>9, <2>1, ExpungeWork
  <2>3. astray' = astray
    BY <1>9 DEF Expunge
  <2> QED
    BY <1>0, <1>9, <2>1, <2>2, <2>3 DEF WorkStep, Fewer
<1>10. CASE ListMessages(c)
  <2>1. ImapTypes' /\ RowsOK' /\ \A d \in Conns \ {c} : Unharmed(d)
    BY <1>10, ListMessagesTypes
  <2>2. boxes' = boxes /\ (astray => astray')
    BY <1>10 DEF ListMessages, dataVars
  <2> QED
    BY <1>0, <1>10, <2>1, <2>2 DEF WorkStep
<1> QED
  BY <1>2, <1>3, <1>4, <1>5, <1>6, <1>7, <1>8, <1>9, <1>10
     DEF Step, Process, QuietSteps

(* What the connection that takes the step is left with.                   *)
LEMMA StepOwn ==
    ASSUME ImapInv, NEW c \in Conns, Step(c)
    PROVE  /\ IdleOK(c)' /\ LinesOK(c)' /\ WorkOK(c)' /\ NumbersOK(c)'
           /\ ~astray' => RowsMeant' /\ MeantOK(c)'
<1>0. /\ Sound /\ ImapTypes /\ ImapTypes' /\ (WorkStep(c) \/ Unharmed(c))
      /\ IdleOK(c) /\ LinesOK(c) /\ NumbersOK(c)
      /\ ~astray' => RowsMeant /\ MeantOK(c)
  BY InvSound, StepSound DEF ImapInv, AllMeant
<1>1. CASE Send(c)
  <2>1. IdleOK(c)' /\ LinesOK(c)'
    BY <1>0, <1>1, SendIdle
  <2>2. WorkOK(c)' /\ NumbersOK(c)'
    BY <1>0, <1>1, ApartNumbers
  <2>3. ~astray' => RowsMeant' /\ MeantOK(c)'
    BY <1>0, <1>1, SendMeant
  <2> QED
    BY <2>1, <2>2, <2>3
<1>2. CASE Close(c) \/ TimerFires(c)
  <2>1. IdleOK(c)' /\ LinesOK(c)'
    BY <1>0, <1>2, EndIdle
  <2>2. WorkOK(c)' /\ NumbersOK(c)'
    BY <1>0, <1>2, ApartNumbers
  <2>3. UNCHANGED <<boxes, gone, meant, queue, selected, work, view>>
    BY <1>2 DEF Close, TimerFires, dataVars, clientVars, history
  <2>4. RowsMeant => RowsMeant'
    BY <2>3 DEF RowsMeant
  <2>5. MeantOK(c) => MeantOK(c)'
    BY <2>3 DEF MeantOK, Flags, Cmd, Targets, Behind, Line
  <2> QED
    BY <1>0, <2>1, <2>2, <2>4, <2>5
<1>3. CASE WorkStep(c)
  <2>1. IdleOK(c)' /\ LinesOK(c)'
    <3>1. Process(c)
      BY <1>3 DEF WorkStep, Process
    <3> QED
      BY <1>0, <3>1, ProcessIdle
  <2>2. WorkOK(c)' /\ NumbersOK(c)'
    BY <1>0, <1>3, WorkNumbers
  <2>3. ~astray' => RowsMeant' /\ MeantOK(c)'
    BY <1>0, <1>3, WorkMeant
  <2> QED
    BY <2>1, <2>2, <2>3
<1>4. CASE ReplyStep(c) /\ Unharmed(c)
  <2>1. IdleOK(c)' /\ LinesOK(c)'
    <3>1. Process(c)
      BY <1>4 DEF ReplyStep, PlainReply, Process
    <3> QED
      BY <1>0, <3>1, ProcessIdle
  <2>2. WorkOK(c)' /\ NumbersOK(c)'
    BY <1>0, <1>4, ReplyNumbers
  <2>3. ~astray' => RowsMeant' /\ MeantOK(c)'
    BY <1>0, <1>4, ReplyMeant
  <2> QED
    BY <2>1, <2>2, <2>3
<1> QED
  BY <1>0, <1>1, <1>2, <1>3, <1>4, ProcessParts DEF Step, ReplyStep

LEMMA StepInv ==
    ASSUME ImapInv, NEW c \in Conns, Step(c)
    PROVE  ImapInv'
<1>1. /\ Sound /\ ImapTypes /\ ImapTypes' /\ RowsOK' /\ Len(boxes') >= 1
      /\ \A d \in Conns \ {c} : Unharmed(d)
      /\ astray => astray'
  BY InvSound, StepSound DEF ImapInv
<1>2. /\ IdleOK(c)' /\ LinesOK(c)' /\ WorkOK(c)' /\ NumbersOK(c)'
      /\ ~astray' => RowsMeant' /\ MeantOK(c)'
  BY StepOwn
<1>3. ASSUME NEW d \in Conns \ {c}
      PROVE  /\ IdleOK(d)' /\ LinesOK(d)' /\ WorkOK(d)' /\ NumbersOK(d)'
             /\ MeantOK(d) => MeantOK(d)'
  <2>1. Kept(d) /\ Unharmed(d)
    BY <1>1, OthersKept
  <2>2. IdleOK(d) /\ LinesOK(d) /\ NumbersOK(d)
    BY DEF ImapInv
  <2>3. IdleOK(d)' /\ LinesOK(d)'
    BY <2>1, <2>2, KeptIdle
  <2>4. WorkOK(d)' /\ NumbersOK(d)'
    BY <1>1, <2>1, <2>2, KeptWork, KeptNumbers
  <2>5. MeantOK(d) => MeantOK(d)'
    BY <2>1, KeptMeant
  <2> QED
    BY <2>3, <2>4, <2>5
<1>4. ~astray' => AllMeant'
  <2>1. ~astray' => \A d \in Conns : MeantOK(d)
    BY <1>1 DEF ImapInv, AllMeant
  <2> QED
    BY <1>2, <1>3, <2>1 DEF AllMeant
<1> QED
  BY <1>1, <1>2, <1>3, <1>4 DEF ImapInv

LEMMA RestInv ==
    ASSUME ImapInv, Deliver \/ RemoveOnWeb
    PROVE  ImapInv'
<1>1. /\ Sound /\ ImapTypes /\ ImapTypes' /\ RowsOK' /\ \A d \in Conns : Unharmed(d)
  BY InvSound, DeliverTypes, RemoveOnWebTypes DEF ImapInv
<1>2. Len(boxes') >= 1 /\ astray' = astray
  <2>1. PICK d \in Conns : TRUE
    BY ImapAssumption
  <2>2. Len(boxes) <= Len(boxes') /\ Len(boxes) >= 1
    BY <1>1, <2>1 DEF Unharmed, Later, ImapInv
  <2>3. Len(boxes) \in Nat /\ Len(boxes') \in Nat
    BY <1>1 DEF ImapTypes, DataTypes
  <2>4. astray' = astray
    BY DEF Deliver, RemoveOnWeb, history
  <2> QED
    BY <2>2, <2>3, <2>4
<1>3. ASSUME NEW d \in Conns
      PROVE  /\ IdleOK(d)' /\ LinesOK(d)' /\ WorkOK(d)' /\ NumbersOK(d)'
             /\ MeantOK(d) => MeantOK(d)'
  <2>1. Kept(d)
    BY DEF Deliver, RemoveOnWeb, connVars, clientVars, Kept
  <2>2. IdleOK(d) /\ LinesOK(d) /\ NumbersOK(d) /\ Unharmed(d)
    BY <1>1 DEF ImapInv
  <2>3. IdleOK(d)' /\ LinesOK(d)'
    BY <2>1, <2>2, KeptIdle
  <2>4. WorkOK(d)' /\ NumbersOK(d)'
    BY <1>1, <2>1, <2>2, KeptWork, KeptNumbers
  <2>5. MeantOK(d) => MeantOK(d)'
    BY <2>1, <2>2, KeptMeant
  <2> QED
    BY <2>3, <2>4, <2>5
<1>4. AllMeant => AllMeant'
  <2>1. RowsMeant => RowsMeant'
    BY <1>1, RestMeant
  <2> QED
    BY <1>3, <2>1 DEF AllMeant
<1> QED
  BY <1>1, <1>2, <1>3, <1>4 DEF ImapInv

(* Types; the lines and the IDLE of a connection; what it has read; its    *)
(* numbers; and what its client asked for: whatever the connections do.    *)
THEOREM ImapInvariance == Spec => []ImapInv
<1>1. Init => ImapInv
  BY InitInv
<1>2. ImapInv /\ [Next]_vars => ImapInv'
  <2>1. SUFFICES ASSUME ImapInv, [Next]_vars
                 PROVE  ImapInv'
    OBVIOUS
  <2>2. CASE UNCHANGED vars
    BY <2>1, <2>2, StutterInv
  <2>3. CASE Next
    BY <2>1, <2>3, StepInv, RestInv DEF Next, Step
  <2> QED
    BY <2>1, <2>2, <2>3
<1> QED
  BY <1>1, <1>2, PTL DEF Spec

-----------------------------------------------------------------------------
(* The properties.                                                         *)

(* What the answers told a client about sequence numbers is how the server *)
(* counts, until someone else removes a message, or a query of its own     *)
(* EXPUNGE or CLOSE is rejected after the rows have gone: FETCH and SEARCH *)
(* tell of a listing that may be old by then, but deliveries add at its    *)
(* end, and "* n EXPUNGE" for the last message first lets the client count *)
(* along.                                                                  *)
THEOREM ImapNumbers == Spec => []NumbersAreTrue
<1>1. ImapInv => NumbersAreTrue
  <2>1. SUFFICES ASSUME ImapInv, NEW c \in Conns, Selected(c), ~stale[c], work[c].step < 2
                 PROVE  Right(view[c], Listing(selected[c]))
    BY DEF NumbersAreTrue, Right
  <2>2. work[c].step \in 0..3
    BY <2>1 DEF ImapInv, ImapTypes, DataTypes, WorkType
  <2>3. work[c].step \notin Untold
    BY <2>1, <2>2 DEF Untold
  <2> QED
    BY <2>1, <2>3 DEF ImapInv, NumbersOK
<1> QED
  BY <1>1, ImapInvariance, PTL

(* As long as no number has gone astray, EXPUNGE and CLOSE delete nothing  *)
(* but what a client asked to flag, or the copy of it.                     *)
THEOREM ImapMeant == Spec => []OnlyMeantIsGone
<1>1. ImapInv => OnlyMeantIsGone
  BY DEF ImapInv, AllMeant, RowsMeant, OnlyMeantIsGone
<1> QED
  BY <1>1, ImapInvariance, PTL

(* A connection is subscribed exactly while it idles, once, and to the     *)
(* mailbox it has selected if its client keeps to DONE: whether the IDLE   *)
(* ends by DONE, by LOGOUT, by its timer or by the close.                  *)
THEOREM ImapIdle == Spec => []SubscribedWhileIdle
<1>1. ImapInv => SubscribedWhileIdle
  <2>1. SUFFICES ASSUME ImapInv, NEW c \in Conns
                 PROVE  /\ Len(subs[c]) = (IF idle[c] THEN 1 ELSE 0)
                        /\ ~rude[c] /\ idle[c] => subs[c] = <<selected[c]>>
    BY DEF SubscribedWhileIdle
  <2>2. IdleOK(c) /\ idle[c] \in BOOLEAN
    BY <2>1 DEF ImapInv, ImapTypes, ConnTypes
  <2> QED
    BY <2>2 DEF IdleOK
<1> QED
  BY <1>1, ImapInvariance, PTL
=============================================================================
