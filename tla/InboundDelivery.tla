-------------------------- MODULE InboundDelivery --------------------------
(***************************************************************************)
(* Inbound mail: the SMTP client hands a mail to Haraka, whose plugin adds *)
(* a job to BullMQ's inbound queue; the one worker of startInboundWorker   *)
(* stores the mail in the inbox of each local address of its To header.    *)
(* (apps/server/haraka/plugins/queue/enclave_queue.js,                     *)
(* apps/server/src/queue/inbound-worker.ts)                                *)
(*                                                                         *)
(* The client may send a mail again, a job may run again, and the process  *)
(* may die between two recipients: only the lookup of the Message-ID keeps *)
(* copies apart.  The store itself (UIDs, counters) is MailboxStore.       *)
(***************************************************************************)
EXTENDS Naturals, Sequences

CONSTANTS
    Mails,            \* mails, each with a Message-ID of its own
    Accounts,         \* addresses of the server's domain
    To,               \* To[m]: addresses of the To header of m, in order
    Jobs,             \* bound: jobs that can be added to the queue
    NoMail, NoJob,
    MaxAttempts,      \* opts.attempts of a job (3 in the code)
    MaxStalledCount,  \* BullMQ's limit of re-queued stalls (1 by default)
    MaxEdits          \* bound: changes that users make to their mail

ASSUME InboundAssumption ==
    /\ To \in [Mails -> Seq(Accounts)]
    /\ NoMail \notin Mails
    /\ NoJob \notin Jobs
    /\ MaxAttempts \in Nat \ {0}
    /\ MaxStalledCount \in Nat
    /\ MaxEdits \in Nat

VARIABLES
    smtp,      \* where the SMTP transaction of each mail is
    mail,      \* mail of a job, NoMail before the job is added
    state,     \* BullMQ set the job is in
    attempts,  \* job.attemptsMade
    stalls,    \* times the job was found without its lock
    open,      \* accounts that exist (user, active keys and inbox)
    edits,     \* changes users have made to their mail (bounded)
    touched,   \* history: <<a, m>> for which a has made one
    inbox,     \* inbox[a][m]: copies of m in the inbox of a
    aside,     \* aside[a][m]: copies of m in other mailboxes of a
    outcome,   \* outcome[m][a]: what processing m for a has ended with
    cur,       \* job the worker is running
    pc,        \* the await at which that run is
    idx,       \* recipient it is at
    locked     \* does the run still hold the job's lock?

queueVars == <<mail, state, attempts, stalls>>
userVars  == <<open, edits, touched>>
storeVars == <<inbox, aside, outcome>>
runVars   == <<cur, pc, idx, locked>>
vars == <<smtp, queueVars, userVars, storeVars, runVars>>

Addressees == [m \in Mails |-> {To[m][k] : k \in 1..Len(To[m])}]

QueueTypeOK ==
    /\ smtp \in [Mails -> {"ready", "added", "accepted"}]
    /\ mail \in [Jobs -> Mails \cup {NoMail}]
    /\ state \in [Jobs -> {"none", "waiting", "active", "delayed", "completed",
                           "failed"}]
    /\ \A j \in Jobs : (state[j] = "none") <=> (mail[j] = NoMail)
    /\ attempts \in [Jobs -> 0..MaxAttempts]
    /\ stalls \in [Jobs -> 0..(MaxStalledCount + 1)]

UserTypeOK ==
    /\ open \subseteq Accounts
    /\ edits \in 0..MaxEdits
    /\ touched \subseteq Accounts \X Mails

StoreTypeOK ==
    /\ inbox \in [Accounts -> [Mails -> Nat]]
    /\ aside \in [Accounts -> [Mails -> Nat]]
    /\ outcome \in [Mails -> [Accounts -> SUBSET {"there", "skipped", "failed"}]]

RunTypeOK ==
    /\ cur \in Jobs \cup {NoJob}
    /\ pc \in {"idle", "parse", "lookup", "store", "stale", "resolved",
              "rejected"}
    /\ (pc = "idle") <=> (cur = NoJob)
    /\ idx \in Nat
    /\ pc \in {"idle", "parse"} => idx = 1
    /\ pc = "lookup" => idx \in 1..(Len(To[mail[cur]]) + 1)
    /\ pc \in {"store", "stale"} => idx \in 1..Len(To[mail[cur]])
    /\ locked \in BOOLEAN

(* The sender, the queue, the inboxes and the worker only ever hold values *)
(* of these sets; a run stays within the recipients of its mail.           *)
TypeOK == QueueTypeOK /\ UserTypeOK /\ StoreTypeOK /\ RunTypeOK

Init ==
    /\ smtp = [m \in Mails |-> "ready"]
    /\ mail = [j \in Jobs |-> NoMail]
    /\ state = [j \in Jobs |-> "none"]
    /\ attempts = [j \in Jobs |-> 0]
    /\ stalls = [j \in Jobs |-> 0]
    /\ open = {}
    /\ edits = 0
    /\ touched = {}
    /\ inbox = [a \in Accounts |-> [m \in Mails |-> 0]]
    /\ aside = [a \in Accounts |-> [m \in Mails |-> 0]]
    /\ outcome = [m \in Mails |-> [a \in Accounts |-> {}]]
    /\ cur = NoJob /\ pc = "idle" /\ idx = 1
    /\ locked = FALSE

-----------------------------------------------------------------------------
(***************************************************************************)
(* SMTP.  Recipients of the envelope were accepted by hook_rcpt for their  *)
(* domain alone; the worker looks only at the To header.                   *)
(***************************************************************************)

(* The client sends the mail, for the first time or again, and            *)
(* inboundQueue.add gives Redis the job.  When add throws first, DENYSOFT  *)
(* leaves the client and the queue as they were.                           *)
AddJob(m) ==
    /\ smtp[m] = "ready"
    /\ \E j \in Jobs :
          /\ state[j] = "none"
          /\ mail' = [mail EXCEPT ![j] = m]
          /\ state' = [state EXCEPT ![j] = "waiting"]
    /\ smtp' = [smtp EXCEPT ![m] = "added"]
    /\ UNCHANGED <<attempts, stalls, userVars, storeVars, runVars>>

(* The client reads 250.                                                   *)
Accept(m) ==
    /\ smtp[m] = "added"
    /\ smtp' = [smtp EXCEPT ![m] = "accepted"]
    /\ UNCHANGED <<queueVars, userVars, storeVars, runVars>>

(* The job is added, but add throws for a lost answer, a later hook        *)
(* answers with a temporary error, or the connection breaks: the client    *)
(* has no 250 and will try again.                                          *)
AnswerLost(m) ==
    /\ smtp[m] = "added"
    /\ \E j \in Jobs : state[j] = "none"
    /\ smtp' = [smtp EXCEPT ![m] = "ready"]
    /\ UNCHANGED <<queueVars, userVars, storeVars, runVars>>

-----------------------------------------------------------------------------
(***************************************************************************)
(* Users.                                                                  *)
(***************************************************************************)

(* createAccount inserts user, keys and mailboxes in one transaction.      *)
OpenAccount(a) ==
    /\ a \notin open
    /\ open' = open \cup {a}
    /\ UNCHANGED <<smtp, queueVars, edits, touched, storeVars, runVars>>

(* The address that the loop of the run is at.                             *)
Recipient == To[mail[cur]][idx]

UserEdits(a, ms) ==
    /\ edits < MaxEdits
    /\ edits' = edits + 1
    /\ touched' = touched \cup ({a} \X ms)

(* Deleting a user cascades to its mailboxes and messages; a run that has  *)
(* found the inbox holds the id of a row that is gone, also when the       *)
(* address is registered again.                                            *)
CloseAccount(a) ==
    /\ a \in open
    /\ UserEdits(a, Mails)
    /\ open' = open \ {a}
    /\ inbox' = [inbox EXCEPT ![a] = [m \in Mails |-> 0]]
    /\ aside' = [aside EXCEPT ![a] = [m \in Mails |-> 0]]
    /\ pc' = IF pc = "store" /\ Recipient = a THEN "stale" ELSE pc
    /\ UNCHANGED <<smtp, queueVars, outcome, cur, idx, locked>>

(* The user moves a copy away, to the trash or elsewhere, where the lookup *)
(* of the Message-ID does not see it.                                      *)
MoveAside(a, m) ==
    /\ inbox[a][m] > 0
    /\ UserEdits(a, {m})
    /\ inbox' = [inbox EXCEPT ![a][m] = @ - 1]
    /\ aside' = [aside EXCEPT ![a][m] = @ + 1]
    /\ UNCHANGED <<smtp, queueVars, open, outcome, runVars>>

(* ... or back: no move asks for the Message-ID.                           *)
MoveBack(a, m) ==
    /\ aside[a][m] > 0
    /\ UserEdits(a, {m})
    /\ aside' = [aside EXCEPT ![a][m] = @ - 1]
    /\ inbox' = [inbox EXCEPT ![a][m] = @ + 1]
    /\ UNCHANGED <<smtp, queueVars, open, outcome, runVars>>

-----------------------------------------------------------------------------
(***************************************************************************)
(* BullMQ, as in OutboundDelivery.                                         *)
(***************************************************************************)

Claim(j) ==
    /\ cur = NoJob
    /\ state[j] = "waiting"
    /\ state' = [state EXCEPT ![j] = "active"]
    /\ cur' = j /\ pc' = "parse" /\ idx' = 1 /\ locked' = TRUE
    /\ UNCHANGED <<smtp, mail, attempts, stalls, userVars, storeVars>>

EndRun == cur' = NoJob /\ pc' = "idle" /\ idx' = 1 /\ locked' = FALSE

Complete ==
    /\ pc = "resolved"
    /\ IF locked
       THEN /\ state' = [state EXCEPT ![cur] = "completed"]
            /\ attempts' = [attempts EXCEPT ![cur] = @ + 1]
       ELSE UNCHANGED <<state, attempts>>
    /\ EndRun
    /\ UNCHANGED <<smtp, mail, stalls, userVars, storeVars>>

Reject ==
    /\ pc = "rejected"
    /\ IF locked
       THEN /\ attempts' = [attempts EXCEPT ![cur] = @ + 1]
            /\ state' = [state EXCEPT ![cur] =
                            IF attempts[cur] + 1 < MaxAttempts
                            THEN "delayed" ELSE "failed"]
       ELSE UNCHANGED <<state, attempts>>
    /\ EndRun
    /\ UNCHANGED <<smtp, mail, stalls, userVars, storeVars>>

BackoffExpires(j) ==
    /\ state[j] = "delayed"
    /\ state' = [state EXCEPT ![j] = "waiting"]
    /\ UNCHANGED <<smtp, mail, attempts, stalls, userVars, storeVars, runVars>>

LoseLock ==
    /\ locked
    /\ locked' = FALSE
    /\ UNCHANGED <<smtp, queueVars, userVars, storeVars, cur, pc, idx>>

StalledSweep(j) ==
    /\ state[j] = "active"
    /\ ~(cur = j /\ locked)
    /\ stalls' = [stalls EXCEPT ![j] = @ + 1]
    /\ state' = [state EXCEPT ![j] =
                    IF stalls[j] < MaxStalledCount THEN "waiting" ELSE "failed"]
    /\ UNCHANGED <<smtp, mail, attempts, userVars, storeVars, runVars>>

Crash ==
    /\ cur # NoJob
    /\ EndRun
    /\ UNCHANGED <<smtp, queueVars, userVars, storeVars>>

-----------------------------------------------------------------------------
(***************************************************************************)
(* processInboundMailJob.                                                  *)
(***************************************************************************)

(* Parsing and verification are outside the loop's try: an error rejects   *)
(* the job.                                                                *)
Parse ==
    /\ pc = "parse"
    /\ pc' \in {"lookup", "rejected"}
    /\ UNCHANGED <<smtp, queueVars, userVars, storeVars, cur, idx, locked>>

Ended(o) == outcome' = [outcome EXCEPT ![mail[cur]][Recipient] = @ \cup {o}]

(* Mutation: the loop does not go on to the next address.                  *)
SameRecipient == pc' = "lookup" /\ UNCHANGED <<cur, idx, locked>>

NextRecipient == pc' = "lookup" /\ idx' = idx + 1 /\ UNCHANGED <<cur, locked>>

(* User, key and inbox are there.                                          *)
FindRecipient ==
    /\ pc = "lookup"
    /\ idx <= Len(To[mail[cur]])
    /\ Recipient \in open
    /\ pc' = "store"
    /\ UNCHANGED <<smtp, queueVars, userVars, storeVars, cur, idx, locked>>

SkipRecipient ==
    /\ pc = "lookup"
    /\ idx <= Len(To[mail[cur]])
    /\ Recipient \notin open
    /\ Ended("skipped")
    /\ NextRecipient
    /\ UNCHANGED <<smtp, queueVars, userVars, inbox, aside>>

AllRecipientsDone ==
    /\ pc = "lookup"
    /\ idx > Len(To[mail[cur]])
    /\ pc' = "resolved"
    /\ UNCHANGED <<smtp, queueVars, userVars, storeVars, cur, idx, locked>>

(* Mutation: the Message-ID is not looked up.                              *)
StoreBlindly ==
    /\ pc = "store"
    /\ inbox' = [inbox EXCEPT ![Recipient][mail[cur]] = @ + 1]
    /\ Ended("there")
    /\ NextRecipient
    /\ UNCHANGED <<smtp, queueVars, userVars, aside>>

(* storeDelivery's transaction: not when the inbox has the Message-ID.     *)
StoreDelivery ==
    /\ pc = "store"
    /\ inbox' = IF inbox[Recipient][mail[cur]] > 0 THEN inbox
                ELSE [inbox EXCEPT ![Recipient][mail[cur]] = @ + 1]
    /\ Ended("there")
    /\ NextRecipient
    /\ UNCHANGED <<smtp, queueVars, userVars, aside>>

RecipientFailing ==
    /\ pc \in {"lookup", "store", "stale"}
    /\ idx <= Len(To[mail[cur]])

(* Mutation: the error of one recipient ends the loop.                     *)
FailForAll ==
    /\ RecipientFailing
    /\ Ended("failed")
    /\ pc' = "resolved"
    /\ UNCHANGED <<smtp, queueVars, userVars, inbox, aside, cur, idx, locked>>

(* A lookup or the transaction throws (the UID is taken, the account is    *)
(* gone, no connection): caught and counted, the loop goes on.             *)
RecipientFails ==
    /\ RecipientFailing
    /\ Ended("failed")
    /\ NextRecipient
    /\ UNCHANGED <<smtp, queueVars, userVars, inbox, aside>>

Process ==
    \/ Parse \/ FindRecipient \/ SkipRecipient \/ AllRecipientsDone
    \/ StoreDelivery \/ RecipientFails

Next ==
    \/ \E m \in Mails :
          AddJob(m) \/ Accept(m) \/ AnswerLost(m)
    \/ \E a \in Accounts :
          \/ OpenAccount(a) \/ CloseAccount(a)
          \/ \E m \in Mails : MoveAside(a, m) \/ MoveBack(a, m)
    \/ \E j \in Jobs : Claim(j) \/ BackoffExpires(j) \/ StalledSweep(j)
    \/ Complete \/ Reject \/ LoseLock \/ Crash
    \/ Process

Spec == Init /\ [][Next]_vars

(* The worker and the queue's timers go on; nothing is assumed of clients, *)
(* users and crashes.                                                      *)
Fairness ==
    /\ WF_vars(\E j \in Jobs : Claim(j))
    /\ WF_vars(Process)
    /\ WF_vars(Complete \/ Reject)
    /\ \A j \in Jobs : WF_vars(BackoffExpires(j)) /\ WF_vars(StalledSweep(j))

FairSpec == Spec /\ Fairness
-----------------------------------------------------------------------------
(***************************************************************************)
(* Properties.                                                             *)
(***************************************************************************)

JobsOf(m) == {j \in Jobs : mail[j] = m}

(* However often the client sends a mail, and the queue runs its jobs, an  *)
(* inbox whose owner leaves the mail alone never shows it twice.           *)
OneCopyPerInbox ==
    \A a \in Accounts, m \in Mails : <<a, m>> \notin touched => inbox[a][m] <= 1

AcceptedIsQueued ==
    \A m \in Mails : smtp[m] \in {"added", "accepted"} => JobsOf(m) # {}

CompletedIsDecided ==
    \A j \in Jobs : state[j] = "completed" =>
        \A a \in Addressees[mail[j]] : outcome[mail[j]][a] # {}

StoredIsThere ==
    \A a \in Accounts, m \in Mails :
        ("there" \in outcome[m][a] /\ <<a, m>> \notin touched) => inbox[a][m] > 0

(* The client is told 250 only when the queue holds the mail; a completed  *)
(* job has come to an end with every address of the header; and a mail     *)
(* that was stored is in the inbox unless its owner has moved it.          *)
NothingForgotten == AcceptedIsQueued /\ CompletedIsDecided /\ StoredIsThere

(* Every accepted mail is worked off in the end, through crashes, stalls   *)
(* and errors: no job stays in the queue for ever.                         *)
AcceptedIsWorkedOff ==
    \A j \in Jobs : state[j] = "waiting" ~> state[j] \in {"completed", "failed"}

(* What the pipeline promises the sender and the owner of an inbox, copies *)
(* counted: 250 only for a mail in the queue, a copy only where there is   *)
(* none, also after the owner has moved one away and back.                 *)
Promise == INSTANCE InboundPromise WITH
    custody  <- {m \in Mails : JobsOf(m) # {}},
    accepted <- {m \in Mails : smtp[m] = "accepted"}

KeepsInboundPromise == Promise!Spec
=============================================================================
