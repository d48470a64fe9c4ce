---------------------------- MODULE ImapSession ----------------------------
(***************************************************************************)
(* IMAP connections (imap/server.ts, imap/parser.ts, imap/commands/*.ts,   *)
(* imap/notify.ts): the lines of a connection are worked off one by one on *)
(* its promise chain, while its socket, its IDLE timer, the deliveries and *)
(* the other connections go on between any two awaits.                     *)
(*                                                                         *)
(* A client is modelled by what it asks and by what the answers tell it:   *)
(* after FETCH 1:* (UID) it knows which message each sequence number       *)
(* names, and each "* n EXPUNGE" moves the numbers behind n.  A listing is *)
(* the set of the UIDs in it, since every listing is in the order of the   *)
(* UIDs.  Counters are the subject of MailboxStore.                        *)
(***************************************************************************)
EXTENDS Naturals, FiniteSets, SequencesExt

CONSTANTS
    Conns,      \* connections of one user
    Scenarios,  \* bound: what happens in one behaviour, see the assumption
    MaxUid,     \* bound: UIDs of a mailbox
    None

LineType ==
    [cmd : {"LOGIN", "NOOP", "LIST", "SELECT", "CREATE", "DELETE", "CLOSE", "FETCH",
            "STORE", "COPY", "EXPUNGE", "APPEND", "IDLE", "DONE", "LOGOUT", "STATUS",
            "SEARCH"},
     arg : {"none", "inbox", "work", "+", "-", "seen", "all", "deleted"},
     by  : {"none", "number", "uid"}]

(* script: the lines each client sends, STORE and COPY with the messages   *)
(* they are about; and how many queries are rejected, messages removed by  *)
(* the web client, and sockets closed by a client                          *)
ASSUME ImapAssumption ==
    /\ IsFiniteSet(Conns) /\ Conns # {}
    /\ \A s \in Scenarios :
          /\ s.script \in [Conns -> Seq(LineType)]
          /\ \A c \in Conns : \A k \in 1..Len(s.script[c]) :
                s.script[c][k].cmd \in {"STORE", "COPY"} => s.script[c][k].by # "none"
          /\ s.fails \in Nat /\ s.removals \in Nat /\ s.hangups \in Nat
    /\ MaxUid \in Nat
    /\ None \notin Nat /\ None \notin Conns

VARIABLES
    \* a connection: ConnectionContext and its ImapSession
    socket,   \* "open", "ended" by the server, or "closed"
    queue,    \* lines not answered; the first may be at work
    links,    \* data events whose link of the promise chain is not over
    dead,     \* has a link of the chain been rejected?
    state, selected,
    idle,     \* isIdling; the timer runs as long
    subs,     \* mailboxes the connection's callbacks are subscribed to
    work,     \* what the handler at work has read so far
    \* the database
    boxes,    \* rows of mailboxes by id: name, uidNext, UIDs, UIDs flagged deleted
    left,     \* queries that may yet be rejected, messages removed, sockets closed
    \* the clients
    script,   \* what each has still to send
    view,     \* what it knows of sequence numbers: <<number, UID>>
    \* history
    stale,    \* has a message gone, and it was not told, since it learnt its numbers?
    astray,   \* has a number been used after that?
    meant,    \* messages that a client asked to flag as deleted
    gone,     \* messages that EXPUNGE or CLOSE deleted
    rude      \* has it sent anything but DONE while idling?

connVars   == <<socket, queue, links, dead, state, selected, idle, subs, work>>
clientVars == <<script, view, rude>>
history    == <<stale, astray, meant, gone>>
dataVars   == <<boxes, left>>
vars == <<connVars, dataVars, clientVars, history>>

NoWork == [step |-> 0, box |-> None, uids |-> {}, flagged |-> {}]
Box(name, uids) == [name |-> name, there |-> TRUE, next |-> Cardinality(uids) + 1,
                    uids |-> uids, flagged |-> {}]

Init ==
    /\ socket = [c \in Conns |-> "open"]
    /\ queue = [c \in Conns |-> <<>>]
    /\ links = [c \in Conns |-> 0]
    /\ dead = [c \in Conns |-> FALSE]
    /\ state = [c \in Conns |-> "NOT_AUTHENTICATED"]
    /\ selected = [c \in Conns |-> None]
    /\ idle = [c \in Conns |-> FALSE]
    /\ subs = [c \in Conns |-> <<>>]
    /\ work = [c \in Conns |-> NoWork]
    /\ boxes = <<Box("inbox", 1..2), Box("work", {})>>
    /\ \E s \in Scenarios :
          /\ script = s.script
          /\ left = [fails |-> s.fails, removals |-> s.removals, hangups |-> s.hangups]
    /\ view = [c \in Conns |-> {}]
    /\ stale = [c \in Conns |-> FALSE]
    /\ astray = FALSE /\ meant = {} /\ gone = {}
    /\ rude = [c \in Conns |-> FALSE]

-----------------------------------------------------------------------------
(* The socket.                                                             *)

Spend(what) == left[what] > 0 /\ left' = [left EXCEPT ![what] = @ - 1]

Idles(c) == idle[c] \/ \E k \in 1..Len(queue[c]) : queue[c][k].cmd = "IDLE"

(* The messages that a line names to the client that sends it              *)
Behind(c, by, n) == IF by = "number" THEN {p[2] : p \in {q \in view[c] : q[1] = n}}
                    ELSE {p[2] : p \in view[c]} \cap {n}

(* A chunk of one or two lines; numbers are sent by a client that has read *)
(* all its answers.                                                        *)
Send(c) == \E k \in 1..2, n \in 1..MaxUid :
    LET lines == [i \in 1..k |-> [cmd |-> script[c][i].cmd, arg |-> script[c][i].arg,
                                  by |-> script[c][i].by, n |-> n]]
        first == script[c][1] IN
    /\ socket[c] = "open" /\ k <= Len(script[c])
    /\ k = 2 => script[c][2].by = "none"
    /\ IF first.by = "none" THEN n = 1
       ELSE queue[c] = <<>> /\ selected[c] # None /\ Behind(c, first.by, n) # {}
    /\ queue' = [queue EXCEPT ![c] = @ \o lines]
    /\ links' = [links EXCEPT ![c] = IF dead[c] THEN @ ELSE @ + 1]
    /\ script' = [script EXCEPT ![c] = SubSeq(@, k + 1, Len(@))]
    /\ rude' = [rude EXCEPT ![c] = @ \/ (Idles(c) /\ first.cmd # "DONE")
                                     \/ (k = 2 /\ first.cmd = "IDLE"
                                               /\ lines[2].cmd # "DONE")]
    /\ meant' = IF first.cmd = "STORE" /\ first.arg = "+"
                THEN meant \cup ({selected[c]} \X Behind(c, first.by, n)) ELSE meant
    /\ UNCHANGED <<socket, dead, state, selected, idle, subs, work, dataVars, view,
                   stale, astray, gone>>

Subscribe(c, b) == subs' = [subs EXCEPT ![c] = Append(@, b)]

(* clearIdleState ends the latest subscription.                            *)
ClearIdle(c) ==
    /\ idle' = [idle EXCEPT ![c] = FALSE]
    /\ subs' = [subs EXCEPT ![c] = IF @ = <<>> THEN @ ELSE Front(@)]

(* cleanup                                                                 *)
CleanUp(c) == IF idle[c] THEN ClearIdle(c) ELSE UNCHANGED <<idle, subs>>

(* The client hangs up, or the end() of the server completes.              *)
Close(c) ==
    /\ \/ socket[c] = "ended" /\ UNCHANGED left
       \/ socket[c] = "open" /\ Spend("hangups")
    /\ socket' = [socket EXCEPT ![c] = "closed"]
    /\ CleanUp(c)
    /\ UNCHANGED <<queue, links, dead, state, selected, work, boxes, clientVars,
                   history>>

(* Mutation: the timer only says BYE and closes.                           *)
TimerOnlyCloses(c) ==
    /\ idle[c]
    /\ socket' = [socket EXCEPT ![c] = IF @ = "open" THEN "ended" ELSE @]
    /\ UNCHANGED <<idle, subs, queue, links, dead, state, selected, work, dataVars,
                   clientVars, history>>

(* 30 minutes of IDLE: BYE, and the socket is ended.                       *)
TimerFires(c) ==
    /\ idle[c]
    /\ ClearIdle(c)
    /\ socket' = [socket EXCEPT ![c] = IF @ = "open" THEN "ended" ELSE @]
    /\ UNCHANGED <<queue, links, dead, state, selected, work, dataVars, clientVars,
                   history>>

-----------------------------------------------------------------------------
(***************************************************************************)
(* The promise chain.  At(c, cmd, step): the first line is cmd and its     *)
(* handler has finished that many awaits.                                  *)
(***************************************************************************)

At(c, cmd, step) ==
    /\ ~dead[c] /\ links[c] > 0 /\ queue[c] # <<>>
    /\ state[c] # "LOGOUT"
    /\ Head(queue[c]).cmd = cmd /\ work[c].step = step

Line(c) == Head(queue[c])

(* Mutation: a link takes one line off the queue, not all of them.         *)
AnswerOne(c) ==
    /\ queue' = [queue EXCEPT ![c] = Tail(@)]
    /\ links' = [links EXCEPT ![c] = IF Len(queue[c]) = 1 THEN 0 ELSE @ - 1]
    /\ work' = [work EXCEPT ![c] = NoWork]

(* The line is answered; a link goes on until the queue is empty.  Links   *)
(* that will find the queue empty are not counted.                         *)
Answer(c) ==
    /\ queue' = [queue EXCEPT ![c] = Tail(@)]
    /\ links' = [links EXCEPT ![c] = IF @ < Len(queue[c]) THEN @ ELSE @ - 1]
    /\ work' = [work EXCEPT ![c] = NoWork]

(* ... unless the answer closes the connection.                            *)
AnswerAndEnd(c) ==
    /\ queue' = [queue EXCEPT ![c] = Tail(@)]
    /\ links' = [links EXCEPT ![c] = IF Len(queue[c]) = 1 THEN 0 ELSE @ - 1]
    /\ work' = [work EXCEPT ![c] = NoWork]
    /\ socket' = [socket EXCEPT ![c] = IF @ = "open" THEN "ended" ELSE @]

Authenticated(c) == state[c] \in {"AUTHENTICATED", "SELECTED"}
Selected(c) == state[c] = "SELECTED" /\ selected[c] # None

(* BAD: the command is not allowed in this state.                          *)
Refuse(c) ==
    /\ \/ At(c, "LOGIN", 0) /\ state[c] # "NOT_AUTHENTICATED"
       \/ /\ \E cmd \in {"LIST", "SELECT", "CREATE", "DELETE", "CLOSE", "APPEND", "STATUS"} :
                At(c, cmd, 0)
          /\ ~Authenticated(c)
       \/ /\ \E cmd \in {"CLOSE", "FETCH", "STORE", "COPY", "EXPUNGE", "SEARCH", "IDLE"} :
                At(c, cmd, 0)
          /\ ~Selected(c)
       \/ At(c, "IDLE", 0) /\ idle[c]
       \/ At(c, "DONE", 0) /\ ~idle[c]
    /\ Answer(c)
    /\ UNCHANGED <<socket, dead, state, selected, idle, subs, dataVars, clientVars,
                   history>>

AfterLogout(c) ==
    /\ ~dead[c] /\ links[c] > 0 /\ queue[c] # <<>> /\ state[c] = "LOGOUT"
    /\ AnswerAndEnd(c)
    /\ UNCHANGED <<dead, state, selected, idle, subs, dataVars, clientVars, history>>

(* The lines at whose place in the handler a query is awaited.  STORE and  *)
(* COPY write in a transaction; EXPUNGE and CLOSE await their counters     *)
(* when the rows have gone, and none of the answers is written yet.        *)
Awaits(c) ==
    \/ At(c, "LOGIN", 0) /\ state[c] = "NOT_AUTHENTICATED"
    \/ /\ Authenticated(c)
       /\ \/ \E cmd \in {"LIST", "SELECT", "CREATE", "DELETE", "STATUS", "APPEND"} :
                At(c, cmd, 0)
          \/ At(c, "SELECT", 1) \/ At(c, "CREATE", 1)
    \/ /\ Selected(c)
       /\ \/ \E cmd \in {"FETCH", "STORE", "COPY", "EXPUNGE", "SEARCH", "CLOSE"} :
                At(c, cmd, 0)
          \/ \E cmd \in {"FETCH", "STORE", "COPY", "EXPUNGE"} : At(c, cmd, 1)
          \/ At(c, "EXPUNGE", 2) \/ At(c, "CLOSE", 2)

(* A query is rejected, and the chain with it: no later line is looked at, *)
(* and the client is not told what the handler has done so far.            *)
Reject(c) ==
    /\ Awaits(c)
    /\ Spend("fails")
    /\ stale' = [stale EXCEPT ![c] = @ \/ (work[c].step = 2 /\ work[c].flagged # {})]
    /\ dead' = [dead EXCEPT ![c] = TRUE]
    /\ queue' = [queue EXCEPT ![c] = Tail(@)]
    /\ work' = [work EXCEPT ![c] = NoWork]
    /\ UNCHANGED <<socket, links, state, selected, idle, subs, boxes, clientVars,
                   astray, meant, gone>>

(* CAPABILITY and NOOP need no state, LIST and STATUS a user.  STATUS      *)
(* counts the rows of the mailbox it names; no number of it is a sequence  *)
(* number.                                                                 *)
Lists(c) == At(c, "LIST", 0) /\ Authenticated(c)
Status(c) == At(c, "STATUS", 0) /\ Authenticated(c)

ReadOnly(c) ==
    /\ At(c, "NOOP", 0) \/ Lists(c) \/ Status(c)
    /\ Answer(c)
    /\ UNCHANGED <<socket, dead, state, selected, idle, subs, dataVars, clientVars,
                   history>>

(* validateImapLogin finds the session of the token, or does not.          *)
Login(c) ==
    /\ At(c, "LOGIN", 0) /\ state[c] = "NOT_AUTHENTICATED"
    /\ \E s \in {"AUTHENTICATED", "NOT_AUTHENTICATED"} : state' = [state EXCEPT ![c] = s]
    /\ Answer(c)
    /\ UNCHANGED <<socket, dead, selected, idle, subs, dataVars, clientVars, history>>

Logout(c) ==
    /\ At(c, "LOGOUT", 0)
    /\ CleanUp(c)
    /\ state' = [state EXCEPT ![c] = "LOGOUT"]
    /\ AnswerAndEnd(c)
    /\ UNCHANGED <<dead, selected, dataVars, clientVars, history>>

(* Mutation: a second IDLE is not refused.                                 *)
MayIdleAgain(c) == At(c, "IDLE", 0) /\ Selected(c)

MayIdle(c) == At(c, "IDLE", 0) /\ Selected(c) /\ ~idle[c]

StartIdle(c) ==
    /\ MayIdle(c)
    /\ idle' = [idle EXCEPT ![c] = TRUE]
    /\ Subscribe(c, selected[c])
    /\ Answer(c)
    /\ UNCHANGED <<socket, dead, state, selected, dataVars, clientVars, history>>

StopIdle(c) ==
    /\ At(c, "DONE", 0) /\ idle[c]
    /\ ClearIdle(c)
    /\ Answer(c)
    /\ UNCHANGED <<socket, dead, state, selected, dataVars, clientVars, history>>

-----------------------------------------------------------------------------
(* Mailbox commands.                                                       *)

Named(name) == {b \in 1..Len(boxes) : boxes[b].there /\ boxes[b].name = name}

(* listMessages: the rows of the mailbox, in the order of their UIDs       *)
Listing(b) == boxes[b].uids

(* Find and list: the handler goes on with what it has read.               *)
SelectReads(c) ==
    /\ At(c, "SELECT", 0) /\ Authenticated(c)
    /\ IF Named(Line(c).arg) = {}
       THEN Answer(c)
       ELSE /\ \E b \in Named(Line(c).arg) :
                  work' = [work EXCEPT ![c] =
                      [step |-> 1, box |-> b, uids |-> {}, flagged |-> {}]]
            /\ UNCHANGED <<queue, links>>
    /\ UNCHANGED <<socket, dead, state, selected, idle, subs, dataVars, clientVars,
                   history>>

Select(c) ==
    /\ At(c, "SELECT", 1)
    /\ state' = [state EXCEPT ![c] = "SELECTED"]
    /\ selected' = [selected EXCEPT ![c] = work[c].box]
    /\ view' = [view EXCEPT ![c] = {}]
    /\ Answer(c)
    /\ UNCHANGED <<socket, dead, idle, subs, dataVars, script, rude, history>>

(* Check, then insert: a name taken in between is refused by the unique    *)
(* index, which rejects the chain.                                         *)
CreateReads(c) ==
    /\ At(c, "CREATE", 0) /\ Authenticated(c)
    /\ IF Named(Line(c).arg) # {}
       THEN Answer(c)
       ELSE work' = [work EXCEPT ![c].step = 1] /\ UNCHANGED <<queue, links>>
    /\ UNCHANGED <<socket, dead, state, selected, idle, subs, dataVars, clientVars,
                   history>>

Create(c) ==
    /\ At(c, "CREATE", 1)
    /\ IF Named(Line(c).arg) = {}
       THEN /\ boxes' = Append(boxes, Box(Line(c).arg, {}))
            /\ Answer(c) /\ UNCHANGED dead
       ELSE /\ dead' = [dead EXCEPT ![c] = TRUE]
            /\ queue' = [queue EXCEPT ![c] = Tail(@)]
            /\ work' = [work EXCEPT ![c] = NoWork]
            /\ UNCHANGED <<boxes, links>>
    /\ UNCHANGED <<socket, state, selected, idle, subs, left, clientVars,
                   history>>

(* Messages of b go; others who have b selected are not told.              *)
TakeAway(c, b, uids) ==
    /\ boxes' = [boxes EXCEPT ![b].uids = @ \ uids, ![b].flagged = @ \ uids]
    /\ stale' = [d \in Conns |-> stale[d] \/ ( /\ d # c /\ selected[d] = b
                                               /\ uids \cap boxes[b].uids # {})]

(* DELETE leaves the sessions that have the mailbox selected as they are.  *)
Delete(c) ==
    /\ At(c, "DELETE", 0) /\ Authenticated(c)
    /\ IF Line(c).arg = "inbox" \/ Named(Line(c).arg) = {}
       THEN UNCHANGED <<boxes, stale>>
       ELSE \E b \in Named(Line(c).arg) :
               /\ boxes' = [boxes EXCEPT ![b].there = FALSE, ![b].uids = {},
                                         ![b].flagged = {}]
               /\ stale' = [d \in Conns |-> stale[d] \/ selected[d] = b]
    /\ Answer(c)
    /\ UNCHANGED <<socket, dead, state, selected, idle, subs, left,
                   clientVars, astray, meant, gone>>

CloseExpunges(c) ==
    /\ At(c, "CLOSE", 0) /\ Selected(c)
    /\ TakeAway(c, selected[c], boxes[selected[c]].flagged)
    /\ gone' = gone \cup {<<selected[c], u>> : u \in boxes[selected[c]].flagged}
    /\ work' = [work EXCEPT ![c].step = 2, ![c].flagged = boxes[selected[c]].flagged]
    /\ UNCHANGED <<socket, queue, links, dead, state, selected, idle, subs, left,
                   clientVars, astray, meant>>

(* List what remains, and write the counters.                              *)
CloseBox(c) ==
    /\ At(c, "CLOSE", 2)
    /\ state' = [state EXCEPT ![c] = "AUTHENTICATED"]
    /\ selected' = [selected EXCEPT ![c] = None]
    /\ view' = [view EXCEPT ![c] = {}]
    /\ Answer(c)
    /\ UNCHANGED <<socket, dead, idle, subs, dataVars, script, rude, history>>

-----------------------------------------------------------------------------
(* Message commands: all of them list the selected mailbox first.          *)

(* indexedMessages: the place of a message in the listing                  *)
Number(listed, u) == Cardinality({v \in listed : v <= u})

(* From these answers a client learns which message each number names;     *)
(* what it knew before is no longer of use to it.                          *)
Teaches(line) == line.cmd = "FETCH" \/ (line.cmd = "SEARCH" /\ line.arg = "all")

ListMessages(c) ==
    /\ \E cmd \in {"FETCH", "STORE", "COPY", "EXPUNGE", "SEARCH"} : At(c, cmd, 0)
    /\ Selected(c)
    /\ work' = [work EXCEPT ![c] =
           [step |-> 1, box |-> selected[c], uids |-> Listing(selected[c]),
            flagged |-> boxes[selected[c]].flagged]]
    /\ stale' = [stale EXCEPT ![c] = @ /\ ~Teaches(Line(c))]
    /\ view' = [view EXCEPT ![c] = IF Teaches(Line(c)) THEN {} ELSE @]
    /\ astray' = (astray \/ (stale[c] /\ Line(c).by = "number"))
    /\ UNCHANGED <<socket, queue, links, dead, state, selected, idle, subs, dataVars,
                   script, rude, meant, gone>>

(* buildFetchResponse: each line has the number and the UID.               *)
Numbered(listed) == {<<Number(listed, u), u>> : u \in listed}

(* FETCH 1:* (UID), or with bodies                                         *)
Fetch(c) ==
    /\ At(c, "FETCH", 1)
    /\ view' = [view EXCEPT ![c] = Numbered(work[c].uids)]
    /\ Answer(c)
    /\ UNCHANGED <<socket, dead, state, selected, idle, subs, dataVars, script, rude,
                   history>>

Matches(c, u) == Line(c).arg = "all" \/ u \in work[c].flagged
Found(c) == {u \in work[c].uids : Matches(c, u)}

(* UID SEARCH ALL, or UID SEARCH DELETED: the UIDs found, in the order of  *)
(* the listing                                                             *)
Search(c) ==
    /\ At(c, "SEARCH", 1)
    /\ view' = [view EXCEPT ![c] = IF Teaches(Line(c)) THEN Numbered(Found(c)) ELSE @]
    /\ Answer(c)
    /\ UNCHANGED <<socket, dead, state, selected, idle, subs, dataVars, script, rude,
                   history>>

(* parseSequenceSet, for a set of one number                               *)
SequenceSet(n, highest) == {n} \cap 1..highest

(* Mutation: numbers are taken for UIDs.                                   *)
TargetsByUid(c) == {u \in work[c].uids : u = Line(c).n}

(* resolveTargetMessages: UIDs are looked for, numbers count the listing.  *)
Targets(c) == LET listed == work[c].uids IN
    IF Line(c).by = "uid" THEN listed \cap SequenceSet(Line(c).n, MaxUid)
    ELSE {u \in listed : Number(listed, u) \in SequenceSet(Line(c).n, Cardinality(listed))}

(* applyStoreFlags: the messages of hit that have the flag afterwards, by  *)
(* the operation and by the flags that were listed.                        *)
StoreFlags(operation, hit, listed) ==
    CASE operation = "+" -> hit
      [] operation = "-" -> {}
      [] OTHER           -> hit \cap listed

Store(c) ==
    LET b   == work[c].box
        hit == Targets(c)
        set == StoreFlags(Line(c).arg, hit, work[c].flagged) IN
    /\ At(c, "STORE", 1)
    /\ boxes' = [boxes EXCEPT ![b].flagged = (@ \ hit) \cup (set \cap boxes[b].uids)]
    /\ Answer(c)
    /\ UNCHANGED <<socket, dead, state, selected, idle, subs, left,
                   clientVars, history>>

(* A new row takes the next UID of its mailbox.                            *)
AddRow(b, flagged) == LET new == boxes[b].next IN
    /\ new <= MaxUid
    /\ boxes' = [boxes EXCEPT ![b].next = @ + 1, ![b].uids = @ \cup {new},
                              ![b].flagged = IF flagged THEN @ \cup {new} ELSE @]

(* copyMessages takes the next UIDs and the flags of the source.           *)
CopyMessages(b, flagged) ==
    /\ AddRow(b, flagged)
    /\ meant' = IF flagged THEN meant \cup {<<b, boxes[b].next>>} ELSE meant

Copy(c) ==
    /\ At(c, "COPY", 1)
    /\ IF Named(Line(c).arg) = {} \/ Targets(c) = {}
       THEN UNCHANGED <<boxes, meant>>
       ELSE \E b \in Named(Line(c).arg) :
               CopyMessages(b, Targets(c) \subseteq work[c].flagged)
    /\ Answer(c)
    /\ UNCHANGED <<socket, dead, state, selected, idle, subs, left,
                   clientVars, stale, astray, gone>>

(* A stub without a body, in any mailbox                                   *)
AppendStub(c) ==
    /\ At(c, "APPEND", 0) /\ Authenticated(c)
    /\ IF Named(Line(c).arg) = {} THEN UNCHANGED boxes
       ELSE \E b \in Named(Line(c).arg) : AddRow(b, FALSE)
    /\ Answer(c)
    /\ UNCHANGED <<socket, dead, state, selected, idle, subs, left,
                   clientVars, history>>

Expunge(c) ==
    /\ At(c, "EXPUNGE", 1)
    /\ TakeAway(c, work[c].box, work[c].flagged)
    /\ gone' = gone \cup {<<work[c].box, u>> : u \in work[c].flagged}
    /\ work' = [work EXCEPT ![c].step = 2]
    /\ UNCHANGED <<socket, queue, links, dead, state, selected, idle, subs, left,
                   clientVars, astray, meant>>

(* updateMailboxCounters: until it is over no answer is written.           *)
ExpungeCounts(c) ==
    /\ At(c, "EXPUNGE", 2)
    /\ work' = [work EXCEPT ![c].step = 3]
    /\ UNCHANGED <<socket, queue, links, dead, state, selected, idle, subs, dataVars,
                   clientVars, history>>

(* Mutation: in the order of the listing.                                  *)
FirstOf(S, u) == u \in S /\ \A v \in S : u <= v

(* deletions.sort: "* n EXPUNGE" for each message deleted, the last first  *)
LastOf(S, u) == u \in S /\ \A v \in S : v <= u

(* What a client makes of "* n EXPUNGE"                                    *)
Forget(known, n) ==
    {p \in known : p[1] < n} \cup {<<p[1] - 1, p[2]>> : p \in {q \in known : q[1] > n}}

(* The client reads these answers one by one, the tagged one last.         *)
ExpungeTells(c) == \E u \in work[c].flagged :
    /\ At(c, "EXPUNGE", 3) /\ LastOf(work[c].flagged, u)
    /\ view' = [view EXCEPT ![c] = Forget(@, Number(work[c].uids, u))]
    /\ work' = [work EXCEPT ![c].flagged = @ \ {u}]
    /\ UNCHANGED <<socket, queue, links, dead, state, selected, idle, subs, dataVars,
                   script, rude, history>>

ExpungeEnds(c) ==
    /\ At(c, "EXPUNGE", 3) /\ work[c].flagged = {}
    /\ Answer(c)
    /\ UNCHANGED <<socket, dead, state, selected, idle, subs, dataVars, clientVars,
                   history>>

-----------------------------------------------------------------------------
(* The rest of the server.                                                 *)

(* A delivery to the inbox; publishMailboxUpdate calls the subscribers.    *)
Deliver ==
    /\ AddRow(1, FALSE)
    /\ UNCHANGED <<connVars, left, clientVars, history>>

(* The web client deletes or moves a message.                              *)
RemoveOnWeb == \E u \in boxes[1].uids :
    /\ Spend("removals")
    /\ TakeAway(None, 1, {u})
    /\ UNCHANGED <<connVars, clientVars, astray, meant, gone>>

Process(c) ==
    \/ Refuse(c) \/ AfterLogout(c) \/ Reject(c) \/ ReadOnly(c)
    \/ Login(c) \/ Logout(c) \/ StartIdle(c) \/ StopIdle(c)
    \/ SelectReads(c) \/ Select(c) \/ CreateReads(c) \/ Create(c)
    \/ Delete(c) \/ CloseExpunges(c) \/ CloseBox(c)
    \/ ListMessages(c) \/ Fetch(c) \/ Search(c) \/ Store(c) \/ Copy(c) \/ AppendStub(c)
    \/ Expunge(c) \/ ExpungeCounts(c) \/ ExpungeTells(c) \/ ExpungeEnds(c)

Next ==
    \/ \E c \in Conns : Send(c) \/ Close(c) \/ TimerFires(c) \/ Process(c)
    \/ Deliver \/ RemoveOnWeb

Spec == Init /\ [][Next]_vars

(* The chain and the timers of the event loop go on; clients need not.     *)
FairSpec == Spec /\ \A c \in Conns : WF_vars(Process(c)) /\ WF_vars(TimerFires(c))

-----------------------------------------------------------------------------
(***************************************************************************)
(* Properties.                                                             *)
(***************************************************************************)

(* What the answers told a client about sequence numbers is how the server *)
(* counts: deliveries only add at the end, and the EXPUNGE answers are in  *)
(* an order that lets the client count along (not while its own EXPUNGE or *)
(* CLOSE is at work).  It ends when a message goes and the client is not   *)
(* told: when someone else removes one, or when a query of its own EXPUNGE *)
(* or CLOSE is rejected after the rows have gone, which drops the answers. *)
NumbersAreTrue ==
    \A c \in Conns :
        Selected(c) /\ ~stale[c] /\ work[c].step < 2
            => LET listed == Listing(selected[c]) IN
               \A p \in view[c] : p[2] \in listed /\ Number(listed, p[2]) = p[1]

(* EXPUNGE and CLOSE delete what a client asked to flag, and nothing else, *)
(* by way of STORE, COPY and any number of other commands and deliveries;  *)
(* a number may go astray only once someone else has removed a message.    *)
OnlyMeantIsGone == astray \/ gone \subseteq meant

(* A connection is subscribed exactly while it idles, once, and a client   *)
(* that keeps to DONE while idling hears of the mailbox it has selected.   *)
SubscribedWhileIdle ==
    \A c \in Conns :
        /\ Len(subs[c]) = (IF idle[c] THEN 1 ELSE 0)
        /\ ~rude[c] /\ idle[c] => subs[c] = <<selected[c]>>

(* Every line gets its answer, unless the connection is ended or a query   *)
(* was rejected.                                                           *)
LinesAreAnswered ==
    \A c \in Conns :
        queue[c] # <<>> ~> (queue[c] = <<>> \/ dead[c] \/ socket[c] # "open")

(* A connection that is gone is not subscribed for ever, not even when its *)
(* IDLE is worked off after the close.                                     *)
ClosedLetsGo ==
    \A c \in Conns : socket[c] = "closed" /\ subs[c] # <<>> ~> subs[c] = <<>>
=============================================================================
