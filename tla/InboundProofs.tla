--------------------------- MODULE InboundProofs ----------------------------
(***************************************************************************)
(* Proofs about InboundDelivery, for any sets of mails, accounts and jobs, *)
(* any headers and any limits on attempts and stalls.                      *)
(***************************************************************************)
EXTENDS InboundDelivery, TLAPS

(* A job that still has runs before it has not used up its attempts or     *)
(* stalls; a run has a mail, and its lock means that its job is active.    *)
RunsLeft ==
    /\ \A j \in Jobs : state[j] \in {"none", "waiting", "active", "delayed"} =>
          attempts[j] < MaxAttempts /\ stalls[j] <= MaxStalledCount
    /\ cur # NoJob => mail[cur] \in Mails
    /\ locked => cur # NoJob /\ state[cur] = "active"

TInv == TypeOK /\ RunsLeft

LEMMA InitTypes == Init => TInv
<1> SUFFICES ASSUME Init PROVE TInv
  OBVIOUS
<1> USE InboundAssumption DEF InboundAssumption, Init
<1>1. QueueTypeOK /\ UserTypeOK
  BY DEF QueueTypeOK, UserTypeOK
<1>2. StoreTypeOK
  BY DEF StoreTypeOK
<1>3. RunTypeOK
  BY DEF RunTypeOK
<1>4. RunsLeft
  BY DEF RunsLeft
<1>5. QED
  BY <1>1, <1>2, <1>3, <1>4 DEF TInv, TypeOK

-----------------------------------------------------------------------------
(* Sender and users leave the queue and the run alone, but for a new job   *)
(* and for the inbox that an account takes with it.                        *)
LEMMA SenderTypes ==
    ASSUME TInv, NEW m \in Mails, AddJob(m) \/ Accept(m) \/ AnswerLost(m)
    PROVE  TInv'
<1> USE InboundAssumption DEF InboundAssumption
<1>1. CASE AddJob(m)
  <2>1. PICK j \in Jobs :
            /\ state[j] = "none"
            /\ mail' = [mail EXCEPT ![j] = m]
            /\ state' = [state EXCEPT ![j] = "waiting"]
    BY <1>1 DEF AddJob
  <2>2. QueueTypeOK /\ RunTypeOK /\ RunsLeft
    BY DEF TInv, TypeOK
  <2>3. cur # j
    BY <2>1, <2>2 DEF QueueTypeOK, RunTypeOK, RunsLeft
  <2>4. cur # NoJob => mail'[cur] = mail[cur] /\ state'[cur] = state[cur]
    BY <2>1, <2>2, <2>3 DEF QueueTypeOK, RunTypeOK
  <2>5. QueueTypeOK'
    BY <1>1, <2>1, <2>2 DEF AddJob, QueueTypeOK
  <2>6. (UserTypeOK /\ StoreTypeOK)'
    BY <1>1 DEF AddJob, TInv, TypeOK, userVars, storeVars, UserTypeOK, StoreTypeOK
  <2>7. RunTypeOK'
    BY <1>1, <2>2, <2>4 DEF AddJob, runVars, RunTypeOK
  <2>8. RunsLeft'
    BY <1>1, <2>1, <2>2, <2>3, <2>4 DEF AddJob, runVars, RunsLeft, QueueTypeOK, RunTypeOK
  <2>9. QED
    BY <2>5, <2>6, <2>7, <2>8 DEF TInv, TypeOK
<1>2. CASE Accept(m) \/ AnswerLost(m)
  <2>1. UNCHANGED <<queueVars, userVars, storeVars, runVars>>
    BY <1>2 DEF Accept, AnswerLost
  <2>2. smtp' \in [Mails -> {"ready", "added", "accepted"}]
    BY <1>2 DEF Accept, AnswerLost, TInv, TypeOK, QueueTypeOK
  <2>3. QED
    BY <2>1, <2>2 DEF TInv, TypeOK, QueueTypeOK, UserTypeOK, StoreTypeOK,
       RunTypeOK, RunsLeft, queueVars, userVars, storeVars, runVars
<1>3. QED
  BY <1>1, <1>2

LEMMA UserTypes ==
    ASSUME TInv, NEW a \in Accounts,
           \/ OpenAccount(a) \/ CloseAccount(a)
           \/ \E m \in Mails : MoveAside(a, m) \/ MoveBack(a, m)
    PROVE  TInv'
<1> USE InboundAssumption DEF InboundAssumption
<1>1. TypeOK /\ RunsLeft
  BY DEF TInv
<1>2. UNCHANGED <<smtp, queueVars>>
  BY DEF OpenAccount, CloseAccount, MoveAside, MoveBack
<1>3. QueueTypeOK'
  BY <1>1, <1>2 DEF TypeOK, QueueTypeOK, queueVars
<1>4. UNCHANGED <<cur, idx, locked>>
      /\ (pc' = pc \/ (pc = "store" /\ pc' = "stale"))
  BY DEF OpenAccount, CloseAccount, MoveAside, MoveBack, runVars
<1>5. RunTypeOK' /\ RunsLeft'
  BY <1>1, <1>2, <1>4 DEF TypeOK, RunTypeOK, RunsLeft, queueVars
<1>6. CASE OpenAccount(a)
  <2>1. (UserTypeOK /\ StoreTypeOK)'
    BY <1>1, <1>6 DEF OpenAccount, TypeOK, UserTypeOK, StoreTypeOK, storeVars
  <2>2. QED
    BY <2>1, <1>3, <1>5 DEF TInv, TypeOK
<1>7. CASE CloseAccount(a)
  <2>1. (UserTypeOK /\ StoreTypeOK)'
    BY <1>1, <1>7 DEF CloseAccount, UserEdits, TypeOK, UserTypeOK, StoreTypeOK
  <2>2. QED
    BY <2>1, <1>3, <1>5 DEF TInv, TypeOK
<1>8. ASSUME NEW m \in Mails, MoveAside(a, m) \/ MoveBack(a, m)
      PROVE  TInv'
  <2>1. UserTypeOK'
    BY <1>1, <1>8 DEF MoveAside, MoveBack, UserEdits, TypeOK, UserTypeOK
  <2>2. inbox[a][m] \in Nat /\ aside[a][m] \in Nat
    BY <1>1 DEF TypeOK, StoreTypeOK
  <2>3. CASE MoveAside(a, m)
    <3>1. inbox[a][m] - 1 \in Nat /\ aside[a][m] + 1 \in Nat
      BY <2>2, <2>3 DEF MoveAside
    <3>2. QED
      BY <3>1, <2>1, <2>3, <1>1, <1>3, <1>5
      DEF MoveAside, TInv, TypeOK, StoreTypeOK
  <2>4. CASE MoveBack(a, m)
    <3>1. inbox[a][m] + 1 \in Nat /\ aside[a][m] - 1 \in Nat
      BY <2>2, <2>4 DEF MoveBack
    <3>2. QED
      BY <3>1, <2>1, <2>4, <1>1, <1>3, <1>5
      DEF MoveBack, TInv, TypeOK, StoreTypeOK
  <2>5. QED
    BY <1>8, <2>3, <2>4
<1>9. QED
  BY <1>6, <1>7, <1>8

-----------------------------------------------------------------------------
(* The end of a run leaves the idle run.                                   *)
LEMMA EndedRunTypes == EndRun => RunTypeOK'
<1> SUFFICES ASSUME EndRun PROVE RunTypeOK'
  OBVIOUS
<1>1. cur' \in Jobs \cup {NoJob} /\ locked' \in BOOLEAN /\ idx' \in Nat /\ idx' = 1
  BY DEF EndRun
<1>2. pc' = "idle" /\ cur' = NoJob
  BY DEF EndRun
<1>3. QED
  BY <1>1, <1>2 DEF RunTypeOK

(* The queue changes a job and the run, never accounts or mail.            *)
LEMMA QueueTypes ==
    ASSUME TInv,
           \/ \E j \in Jobs : Claim(j) \/ BackoffExpires(j) \/ StalledSweep(j)
           \/ Complete \/ Reject \/ LoseLock \/ Crash
    PROVE  TInv'
<1> USE InboundAssumption DEF InboundAssumption
<1>1. TypeOK /\ RunsLeft
  BY DEF TInv
<1>2. UNCHANGED <<smtp, mail, userVars, storeVars>>
  BY DEF Claim, BackoffExpires, StalledSweep, Complete, Reject, LoseLock, Crash,
     queueVars
<1>3. (UserTypeOK /\ StoreTypeOK)'
  BY <1>1, <1>2 DEF TypeOK, UserTypeOK, StoreTypeOK, userVars, storeVars
<1> USE DEF TypeOK
<1>4. ASSUME NEW j \in Jobs, Claim(j) PROVE TInv'
  <2>1. QueueTypeOK'
    BY <1>1, <1>4 DEF Claim, QueueTypeOK
  <2>2. RunTypeOK'
    BY <1>1, <1>4 DEF Claim, RunTypeOK
  <2>3. RunsLeft'
    BY <1>1, <1>4 DEF Claim, RunsLeft, QueueTypeOK
  <2>4. QED
    BY <1>3, <2>1, <2>2, <2>3 DEF TInv
<1>5. ASSUME NEW j \in Jobs, BackoffExpires(j) PROVE TInv'
  <2>1. QueueTypeOK'
    BY <1>1, <1>5 DEF BackoffExpires, QueueTypeOK
  <2>2. RunTypeOK'
    BY <1>1, <1>5 DEF BackoffExpires, RunTypeOK, runVars
  <2>3. RunsLeft'
    BY <1>1, <1>5 DEF BackoffExpires, RunsLeft, QueueTypeOK, RunTypeOK, runVars
  <2>4. QED
    BY <1>3, <2>1, <2>2, <2>3 DEF TInv
<1>6. ASSUME NEW j \in Jobs, StalledSweep(j) PROVE TInv'
  <2>1. QueueTypeOK'
    BY <1>1, <1>6 DEF StalledSweep, QueueTypeOK, RunsLeft
  <2>2. RunTypeOK'
    BY <1>1, <1>6 DEF StalledSweep, RunTypeOK, runVars
  <2>3. RunsLeft'
    BY <1>1, <1>6 DEF StalledSweep, RunsLeft, QueueTypeOK, RunTypeOK, runVars
  <2>4. QED
    BY <1>3, <2>1, <2>2, <2>3 DEF TInv
<1>7. ASSUME Complete \/ Reject PROVE TInv'
  <2>1. cur \in Jobs
    BY <1>1, <1>7 DEF Complete, Reject, RunTypeOK
  <2>2. UNCHANGED stalls /\ EndRun
    BY <1>7 DEF Complete, Reject
  <2>3. CASE locked
    <3>1. /\ state[cur] = "active" /\ attempts[cur] < MaxAttempts
          /\ stalls[cur] <= MaxStalledCount
      BY <1>1, <2>1, <2>3 DEF RunsLeft
    <3>2. attempts[cur] + 1 \in 0..MaxAttempts
      BY <1>1, <2>1, <3>1 DEF QueueTypeOK
    <3>3. attempts' = [attempts EXCEPT ![cur] = @ + 1]
      BY <1>7, <2>3 DEF Complete, Reject
    <3>4. PICK s \in {"completed", "delayed", "failed"} :
              /\ state' = [state EXCEPT ![cur] = s]
              /\ s = "delayed" => attempts[cur] + 1 < MaxAttempts
      BY <1>7, <2>3 DEF Complete, Reject
    <3>5. QueueTypeOK'
      BY <1>1, <1>2, <2>1, <2>2, <3>1, <3>2, <3>3, <3>4 DEF QueueTypeOK
    <3>6. RunsLeft'
      BY <1>1, <2>1, <2>2, <3>1, <3>2, <3>3, <3>4
      DEF RunsLeft, QueueTypeOK, EndRun
    <3>7. QED
      BY <1>3, <2>2, <3>5, <3>6, EndedRunTypes DEF TInv
  <2>4. CASE ~locked
    <3>1. UNCHANGED queueVars
      BY <1>2, <1>7, <2>2, <2>4 DEF Complete, Reject, queueVars
    <3>2. (QueueTypeOK /\ RunsLeft)'
      BY <1>1, <1>2, <2>2, <3>1 DEF QueueTypeOK, RunsLeft, EndRun, queueVars
    <3>3. QED
      BY <1>3, <2>2, <3>2, EndedRunTypes DEF TInv
  <2>5. QED
    BY <1>1, <2>3, <2>4 DEF RunTypeOK
<1>8. CASE LoseLock
  <2>1. UNCHANGED <<queueVars, cur, pc, idx>> /\ locked' = FALSE
    BY <1>8 DEF LoseLock
  <2>2. QueueTypeOK' /\ RunsLeft'
    BY <1>1, <1>2, <2>1 DEF QueueTypeOK, RunsLeft, queueVars
  <2>3. RunTypeOK'
    BY <1>1, <2>1 DEF RunTypeOK, queueVars
  <2>4. QED
    BY <1>3, <2>2, <2>3 DEF TInv
<1>9. CASE Crash
  <2>1. UNCHANGED queueVars /\ EndRun
    BY <1>9 DEF Crash
  <2>2. QueueTypeOK' /\ RunsLeft'
    BY <1>1, <1>2, <2>1 DEF QueueTypeOK, RunsLeft, EndRun, queueVars
  <2>3. QED
    BY <1>3, <2>1, <2>2, EndedRunTypes DEF TInv
<1>10. QED
  BY <1>4, <1>5, <1>6, <1>7, <1>8, <1>9

-----------------------------------------------------------------------------
(* The recipient of a run that is at one is an account, the next one is    *)
(* within the loop's bounds.                                               *)
LEMMA RecipientKnown ==
    ASSUME TInv, pc \in {"lookup", "store", "stale"}, idx <= Len(To[mail[cur]])
    PROVE  /\ mail[cur] \in Mails
           /\ Len(To[mail[cur]]) \in Nat
           /\ idx \in 1..Len(To[mail[cur]])
           /\ Recipient \in Accounts
           /\ idx + 1 \in 1..(Len(To[mail[cur]]) + 1)
<1>1. mail[cur] \in Mails
  BY DEF TInv, TypeOK, RunTypeOK, RunsLeft
<1>2. To[mail[cur]] \in Seq(Accounts)
  BY <1>1, InboundAssumption DEF InboundAssumption
<1>3. Len(To[mail[cur]]) \in Nat
  BY <1>2
<1>4. idx \in 1..Len(To[mail[cur]])
  BY <1>3 DEF TInv, TypeOK, RunTypeOK
<1>5. Recipient \in Accounts
  BY <1>2, <1>4 DEF Recipient
<1>6. QED
  BY <1>1, <1>3, <1>4, <1>5

(* A run that stores a copy is at a recipient.                             *)
LEMMA AtRecipient ==
    TInv /\ pc \in {"store", "stale"} => idx <= Len(To[mail[cur]])
<1> SUFFICES ASSUME TInv, pc \in {"store", "stale"}
             PROVE  idx <= Len(To[mail[cur]])
  OBVIOUS
<1>1. To[mail[cur]] \in Seq(Accounts) /\ idx \in 1..Len(To[mail[cur]])
  BY InboundAssumption
  DEF InboundAssumption, TInv, TypeOK, RunTypeOK, RunsLeft
<1>2. QED
  BY <1>1

(* How the worker goes on to the next recipient.                           *)
LEMMA NextRecipientTypes ==
    ASSUME TInv, pc \in {"lookup", "store", "stale"}, idx <= Len(To[mail[cur]]),
           NextRecipient, UNCHANGED mail
    PROVE  RunTypeOK'
<1>1. idx' \in 1..(Len(To[mail[cur]]) + 1) /\ idx' \in Nat
  BY RecipientKnown DEF NextRecipient
<1>2. cur \in Jobs /\ cur # NoJob /\ locked \in BOOLEAN
  BY InboundAssumption DEF InboundAssumption, TInv, TypeOK, RunTypeOK
<1>3. QED
  BY <1>1, <1>2 DEF NextRecipient, RunTypeOK

LEMMA EndedTypes ==
    ASSUME TInv, pc \in {"lookup", "store", "stale"}, idx <= Len(To[mail[cur]]),
           NEW o \in {"there", "skipped", "failed"}, Ended(o)
    PROVE  /\ outcome' \in [Mails -> [Accounts -> SUBSET {"there", "skipped", "failed"}]]
           /\ \A m \in Mails, a \in Accounts : outcome[m][a] \subseteq outcome'[m][a]
           /\ o \in outcome'[mail[cur]][Recipient]
           /\ \A m \in Mails, a \in Accounts :
                 (m # mail[cur] \/ a # Recipient) => outcome'[m][a] = outcome[m][a]
           /\ outcome'[mail[cur]][Recipient] = outcome[mail[cur]][Recipient] \cup {o}
<1>1. mail[cur] \in Mails /\ Recipient \in Accounts
  BY RecipientKnown
<1>2. outcome \in [Mails -> [Accounts -> SUBSET {"there", "skipped", "failed"}]]
  BY DEF TInv, TypeOK, StoreTypeOK
<1>3. QED
  BY <1>1, <1>2 DEF Ended

(* The worker changes the inbox, what happened to a mail, and its run.     *)
LEMMA ProcessTypes == ASSUME TInv, Process PROVE TInv'
<1> USE InboundAssumption DEF InboundAssumption
<1>1. TypeOK /\ RunsLeft
  BY DEF TInv
<1>2. UNCHANGED <<smtp, queueVars, userVars, cur, locked>>
  BY DEF Process, Parse, FindRecipient, SkipRecipient, AllRecipientsDone,
     StoreDelivery, RecipientFails, NextRecipient
<1>3. (QueueTypeOK /\ UserTypeOK /\ RunsLeft)'
  BY <1>1, <1>2
  DEF TypeOK, QueueTypeOK, UserTypeOK, RunsLeft, queueVars, userVars
<1>4. CASE Parse \/ FindRecipient \/ AllRecipientsDone
  <2>1. UNCHANGED storeVars
    BY <1>4 DEF Parse, FindRecipient, AllRecipientsDone
  <2>2. StoreTypeOK'
    BY <1>1, <2>1 DEF TypeOK, StoreTypeOK, storeVars
  <2>3. CASE Parse
    <3>1. cur \in Jobs /\ mail[cur] \in Mails /\ idx = 1
      BY <1>1, <2>3 DEF Parse, TypeOK, RunTypeOK, RunsLeft
    <3>2. Len(To[mail[cur]]) \in Nat
      BY <3>1
    <3>3. idx \in 1..(Len(To[mail[cur]]) + 1)
      BY <3>1, <3>2
    <3>4. pc' \in {"lookup", "rejected"} /\ UNCHANGED <<cur, idx, locked, mail>>
      BY <1>2, <2>3 DEF Parse, queueVars
    <3>5. RunTypeOK'
      BY <1>1, <3>1, <3>3, <3>4 DEF TypeOK, RunTypeOK
    <3>6. QED
      BY <1>3, <2>2, <3>5 DEF TInv, TypeOK
  <2>4. CASE FindRecipient \/ AllRecipientsDone
    <3>1. UNCHANGED <<cur, idx, locked, mail>> /\ pc = "lookup"
      BY <1>2, <2>4 DEF FindRecipient, AllRecipientsDone, queueVars
    <3>2. \/ pc' = "store" /\ idx \in 1..Len(To[mail[cur]])
          \/ pc' = "resolved"
      BY <2>4, RecipientKnown DEF FindRecipient, AllRecipientsDone
    <3>3. RunTypeOK'
      BY <1>1, <3>1, <3>2 DEF TypeOK, RunTypeOK
    <3>4. QED
      BY <1>3, <2>2, <3>3 DEF TInv, TypeOK
  <2>5. QED
    BY <1>4, <2>3, <2>4
<1>5. CASE SkipRecipient \/ StoreDelivery \/ RecipientFails
  <2>1. pc \in {"lookup", "store", "stale"} /\ idx <= Len(To[mail[cur]])
    BY <1>5, AtRecipient
    DEF SkipRecipient, StoreDelivery, RecipientFails, RecipientFailing
  <2>2. NextRecipient /\ UNCHANGED <<mail, aside>>
    BY <1>2, <1>5 DEF SkipRecipient, StoreDelivery, RecipientFails, queueVars
  <2>3. RunTypeOK'
    BY <2>1, <2>2, NextRecipientTypes
  <2>4. PICK o \in {"there", "skipped", "failed"} : Ended(o)
    BY <1>5 DEF SkipRecipient, StoreDelivery, RecipientFails
  <2>5. outcome' \in [Mails -> [Accounts -> SUBSET {"there", "skipped", "failed"}]]
    BY <2>1, <2>4, EndedTypes
  <2>6. inbox' \in [Accounts -> [Mails -> Nat]]
    <3>1. inbox \in [Accounts -> [Mails -> Nat]]
      BY <1>1 DEF TypeOK, StoreTypeOK
    <3>2. inbox[Recipient][mail[cur]] + 1 \in Nat
      BY <2>1, <3>1, RecipientKnown
    <3>3. \/ inbox' = inbox
          \/ inbox' = [inbox EXCEPT ![Recipient][mail[cur]] = @ + 1]
      BY <1>5 DEF SkipRecipient, StoreDelivery, RecipientFails
    <3>4. PICK a \in Accounts, m \in Mails : a = Recipient /\ m = mail[cur]
      BY <2>1, RecipientKnown
    <3>5. [inbox[a] EXCEPT ![m] = inbox[a][m] + 1] \in [Mails -> Nat]
      BY <3>1, <3>2, <3>4
    <3>6. [inbox EXCEPT ![a] = [inbox[a] EXCEPT ![m] = inbox[a][m] + 1]]
             \in [Accounts -> [Mails -> Nat]]
      BY <3>1, <3>5
    <3>7. QED
      BY <3>1, <3>3, <3>4, <3>6
  <2>7. QED
    BY <1>1, <1>3, <2>2, <2>3, <2>5, <2>6 DEF TInv, TypeOK, StoreTypeOK
<1>6. QED
  BY <1>4, <1>5 DEF Process

(* Every variable keeps its type, and so do the bounds of attempts and     *)
(* stalls.                                                                 *)
LEMMA TypesKept == TInv /\ [Next]_vars => TInv'
<1> SUFFICES ASSUME TInv, [Next]_vars PROVE TInv'
  OBVIOUS
<1>1. CASE Next
  BY <1>1, SenderTypes, UserTypes, QueueTypes, ProcessTypes DEF Next
<1>2. CASE UNCHANGED vars
  BY <1>2 DEF vars, queueVars, userVars, storeVars, runVars, TInv, TypeOK,
     QueueTypeOK, UserTypeOK, StoreTypeOK, RunTypeOK, RunsLeft
<1>3. QED
  BY <1>1, <1>2

LEMMA TypesHold == Spec => []TInv
<1>1. QED
  BY InitTypes, TypesKept, PTL DEF Spec

(* The variables keep their types in every run: attempts and stalls stay   *)
(* within BullMQ's limits, and a run within the addresses of its mail.     *)
THEOREM TypeCorrect == Spec => []TypeOK
<1>1. TInv => TypeOK
  BY DEF TInv
<1>2. QED
  BY <1>1, TypesHold, PTL

-----------------------------------------------------------------------------
(* Steps that leave the mail and the owners' changes alone.                *)
StoreSame == UNCHANGED <<inbox, aside, outcome, touched>>

LEMMA StepKinds ==
    ASSUME [Next]_vars
    PROVE  \/ StoreSame
           \/ \E a \in Accounts : CloseAccount(a)
           \/ \E a \in Accounts, m \in Mails : MoveAside(a, m) \/ MoveBack(a, m)
           \/ SkipRecipient \/ StoreDelivery \/ RecipientFails
<1> USE DEF StoreSame, storeVars, userVars
<1>1. CASE \E m \in Mails : AddJob(m) \/ Accept(m) \/ AnswerLost(m)
  BY <1>1 DEF AddJob, Accept, AnswerLost
<1>2. CASE \E j \in Jobs : Claim(j) \/ BackoffExpires(j) \/ StalledSweep(j)
  BY <1>2 DEF Claim, BackoffExpires, StalledSweep
<1>3. CASE \/ Complete \/ Reject \/ LoseLock \/ Crash
           \/ Parse \/ FindRecipient \/ AllRecipientsDone
  BY <1>3 DEF Complete, Reject, LoseLock, Crash, Parse, FindRecipient,
     AllRecipientsDone
<1>4. CASE \E a \in Accounts : OpenAccount(a)
  BY <1>4 DEF OpenAccount
<1>5. CASE UNCHANGED vars
  BY <1>5 DEF vars
<1>6. QED
  BY <1>1, <1>2, <1>3, <1>4, <1>5 DEF Next, Process

(* However often a mail is sent and its jobs run, it is once in an inbox   *)
(* whose owner leaves it alone: the lookup of the Message-ID is enough     *)
(* because runs do not overlap.                                            *)
THEOREM OneCopyHolds == Spec => []OneCopyPerInbox
<1>1. Init => OneCopyPerInbox
  BY DEF Init, OneCopyPerInbox
<1>2. ASSUME TInv, OneCopyPerInbox, [Next]_vars
      PROVE  OneCopyPerInbox'
  <2>1. inbox \in [Accounts -> [Mails -> Nat]]
    BY <1>2 DEF TInv, TypeOK, StoreTypeOK
  <2>2. CASE StoreSame
    BY <1>2, <2>2 DEF StoreSame, OneCopyPerInbox
  <2>3. ASSUME NEW b \in Accounts, CloseAccount(b)
        PROVE  OneCopyPerInbox'
    BY <1>2, <2>1, <2>3 DEF OneCopyPerInbox, CloseAccount, UserEdits
  <2>4. ASSUME NEW b \in Accounts, NEW n \in Mails, MoveAside(b, n) \/ MoveBack(b, n)
        PROVE  OneCopyPerInbox'
    <3>1. touched' = touched \cup {<<b, n>>}
      BY <2>4 DEF MoveAside, MoveBack, UserEdits
    <3>2. \A a \in Accounts, m \in Mails : (a # b \/ m # n) => inbox'[a][m] = inbox[a][m]
      BY <2>1, <2>4 DEF MoveAside, MoveBack
    <3>3. QED
      BY <1>2, <3>1, <3>2 DEF OneCopyPerInbox
  <2>5. CASE StoreDelivery
    <3>1. mail[cur] \in Mails /\ Recipient \in Accounts
      BY <1>2, <2>5, AtRecipient, RecipientKnown DEF StoreDelivery
    <3>2. touched' = touched
      BY <2>5 DEF StoreDelivery, userVars
    <3>3. \A a \in Accounts, m \in Mails :
             inbox'[a][m] = inbox[a][m] \/ inbox'[a][m] = 1
      BY <2>1, <2>5, <3>1 DEF StoreDelivery
    <3>4. QED
      BY <1>2, <3>2, <3>3 DEF OneCopyPerInbox
  <2>6. CASE SkipRecipient \/ RecipientFails
    BY <1>2, <2>6 DEF SkipRecipient, RecipientFails, userVars, OneCopyPerInbox
  <2>7. QED
    BY <1>2, <2>2, <2>3, <2>4, <2>5, <2>6, StepKinds
<1>3. QED
  BY <1>1, <1>2, TypesHold, PTL DEF Spec

-----------------------------------------------------------------------------
(* Why nothing is forgotten: a run has come to an end with every recipient *)
(* before the one it is at, and a resolved run with all of them.           *)
DecidedUpTo(n) ==
    \A k \in 1..Len(To[mail[cur]]) :
        k < n => outcome[mail[cur]][To[mail[cur]][k]] # {}

RunDecides ==
    /\ pc \in {"lookup", "store", "stale"} => DecidedUpTo(idx)
    /\ pc = "resolved" => DecidedUpTo(Len(To[mail[cur]]) + 1)

FInv == NothingForgotten /\ RunDecides

(* Jobs keep their mails.                                                  *)
LEMMA MailsKept ==
    ASSUME TInv, [Next]_vars
    PROVE  \A j \in Jobs : mail[j] # NoMail => mail'[j] = mail[j]
<1>1. CASE \E m \in Mails : AddJob(m)
  <2>1. PICK m \in Mails, j \in Jobs :
            state[j] = "none" /\ mail' = [mail EXCEPT ![j] = m]
    BY <1>1 DEF AddJob
  <2>2. QED
    BY <2>1 DEF TInv, TypeOK, QueueTypeOK
<1>2. CASE UNCHANGED mail
  BY <1>2
<1>3. UNCHANGED mail \/ \E m \in Mails : AddJob(m)
  BY DEF Next, vars, queueVars, Accept, AnswerLost, OpenAccount, CloseAccount,
     MoveAside, MoveBack, Claim, BackoffExpires, StalledSweep, Complete, Reject,
     LoseLock, Crash, Process, Parse, FindRecipient, SkipRecipient,
     AllRecipientsDone, StoreDelivery, RecipientFails
<1>4. QED
  BY <1>1, <1>2, <1>3

(* What has happened to a recipient is not taken back.                     *)
LEMMA OutcomesKept ==
    ASSUME TInv, [Next]_vars
    PROVE  \A m \in Mails, a \in Accounts : outcome[m][a] \subseteq outcome'[m][a]
<1>1. CASE UNCHANGED outcome
  BY <1>1
<1>2. CASE SkipRecipient \/ StoreDelivery \/ RecipientFails
  <2>1. pc \in {"lookup", "store", "stale"} /\ idx <= Len(To[mail[cur]])
    BY <1>2, AtRecipient
    DEF SkipRecipient, StoreDelivery, RecipientFails, RecipientFailing
  <2>2. PICK o \in {"there", "skipped", "failed"} : Ended(o)
    BY <1>2 DEF SkipRecipient, StoreDelivery, RecipientFails
  <2>3. QED
    BY <2>1, <2>2, EndedTypes
<1>3. QED
  BY <1>1, <1>2, StepKinds DEF StoreSame, CloseAccount, MoveAside, MoveBack

LEMMA QueuedKept ==
    ASSUME TInv, AcceptedIsQueued, [Next]_vars
    PROVE  AcceptedIsQueued'
<1>1. smtp \in [Mails -> {"ready", "added", "accepted"}]
  BY DEF TInv, TypeOK, QueueTypeOK
<1>2. \A m \in Mails : JobsOf(m) # {} => JobsOf(m)' # {}
  BY MailsKept, InboundAssumption DEF InboundAssumption, JobsOf
<1>3. CASE UNCHANGED smtp
  BY <1>2, <1>3 DEF AcceptedIsQueued
<1>4. ASSUME NEW m \in Mails, AddJob(m) PROVE AcceptedIsQueued'
  <2>1. PICK j \in Jobs : state[j] = "none" /\ mail' = [mail EXCEPT ![j] = m]
    BY <1>4 DEF AddJob
  <2>2. j \in JobsOf(m)'
    BY <2>1 DEF JobsOf, TInv, TypeOK, QueueTypeOK
  <2>3. \A n \in Mails : n # m => smtp'[n] = smtp[n]
    BY <1>1, <1>4 DEF AddJob
  <2>4. QED
    BY <1>2, <2>2, <2>3 DEF AcceptedIsQueued
<1>5. ASSUME NEW m \in Mails, Accept(m) \/ AnswerLost(m)
      PROVE  AcceptedIsQueued'
  <2>1. smtp[m] = "added" /\ \A n \in Mails : n # m => smtp'[n] = smtp[n]
    BY <1>1, <1>5 DEF Accept, AnswerLost
  <2>2. QED
    BY <1>2, <2>1 DEF AcceptedIsQueued
<1>6. UNCHANGED smtp \/ \E m \in Mails : AddJob(m) \/ Accept(m) \/ AnswerLost(m)
  BY DEF Next, vars, OpenAccount, CloseAccount, MoveAside, MoveBack, Claim,
     BackoffExpires, StalledSweep, Complete, Reject, LoseLock, Crash, Process,
     Parse, FindRecipient, SkipRecipient, AllRecipientsDone, StoreDelivery,
     RecipientFails
<1>7. QED
  BY <1>3, <1>4, <1>5, <1>6

(* Only a run that is resolved, and still has the lock, completes a job.   *)
LEMMA CompletedBy ==
    ASSUME TInv, [Next]_vars, NEW j \in Jobs, state'[j] = "completed"
    PROVE  \/ state[j] = "completed"
           \/ j = cur /\ pc = "resolved" /\ UNCHANGED <<mail, outcome>>
<1>1. state \in [Jobs -> {"none", "waiting", "active", "delayed", "completed", "failed"}]
  BY DEF TInv, TypeOK, QueueTypeOK
<1>2. CASE UNCHANGED state
  BY <1>2
<1>3. CASE \E m \in Mails : AddJob(m)
  BY <1>1, <1>3 DEF AddJob
<1>4. CASE \E i \in Jobs : Claim(i) \/ BackoffExpires(i) \/ StalledSweep(i)
  BY <1>1, <1>4 DEF Claim, BackoffExpires, StalledSweep
<1>5. CASE Complete
  BY <1>1, <1>5 DEF Complete, storeVars
<1>6. CASE Reject
  BY <1>1, <1>6 DEF Reject
<1>7. \/ UNCHANGED state \/ \E m \in Mails : AddJob(m)
      \/ \E i \in Jobs : Claim(i) \/ BackoffExpires(i) \/ StalledSweep(i)
      \/ Complete \/ Reject
  BY DEF Next, vars, queueVars, Accept, AnswerLost, OpenAccount, CloseAccount,
     MoveAside, MoveBack, LoseLock, Crash, Process, Parse, FindRecipient,
     SkipRecipient, AllRecipientsDone, StoreDelivery, RecipientFails
<1>8. QED
  BY <1>2, <1>3, <1>4, <1>5, <1>6, <1>7

LEMMA AddresseesAreAccounts ==
    \A m \in Mails : Addressees[m] \subseteq Accounts
<1> SUFFICES ASSUME NEW m \in Mails PROVE Addressees[m] \subseteq Accounts
  OBVIOUS
<1>1. To[m] \in Seq(Accounts)
  BY InboundAssumption DEF InboundAssumption
<1>2. QED
  BY <1>1 DEF Addressees

LEMMA DecidedKept ==
    ASSUME TInv, CompletedIsDecided, RunDecides, [Next]_vars
    PROVE  CompletedIsDecided'
<1> SUFFICES ASSUME NEW j \in Jobs, state'[j] = "completed",
                    NEW a \in Addressees[mail'[j]]
             PROVE  outcome'[mail'[j]][a] # {}
  BY DEF CompletedIsDecided
<1>1. CASE state[j] = "completed"
  <2>1. mail[j] \in Mails /\ mail'[j] = mail[j]
    BY <1>1, MailsKept DEF TInv, TypeOK, QueueTypeOK
  <2>2. a \in Accounts /\ outcome[mail[j]][a] # {}
    BY <1>1, <2>1, AddresseesAreAccounts DEF CompletedIsDecided
  <2>3. QED
    BY <2>1, <2>2, OutcomesKept
<1>2. CASE j = cur /\ pc = "resolved" /\ UNCHANGED <<mail, outcome>>
  <2>1. mail[j] \in Mails
    BY <1>2, InboundAssumption
    DEF InboundAssumption, TInv, TypeOK, RunsLeft, RunTypeOK
  <2>2. PICK k \in 1..Len(To[mail[j]]) : a = To[mail[j]][k]
    BY <1>2, <2>1 DEF Addressees
  <2>3. To[mail[j]] \in Seq(Accounts)
    BY <2>1, InboundAssumption DEF InboundAssumption
  <2>4. k < Len(To[mail[j]]) + 1
    BY <2>2, <2>3
  <2>5. QED
    BY <1>2, <2>2, <2>4 DEF RunDecides, DecidedUpTo
<1>3. QED
  BY <1>1, <1>2, CompletedBy

LEMMA StoredKept ==
    ASSUME TInv, StoredIsThere, [Next]_vars
    PROVE  StoredIsThere'
<1>1. /\ inbox \in [Accounts -> [Mails -> Nat]]
      /\ outcome \in [Mails -> [Accounts -> SUBSET {"there", "skipped", "failed"}]]
  BY DEF TInv, TypeOK, StoreTypeOK
<1>2. CASE StoreSame
  BY <1>2 DEF StoreSame, StoredIsThere
<1>3. ASSUME NEW b \in Accounts, CloseAccount(b) PROVE StoredIsThere'
  BY <1>1, <1>3 DEF StoredIsThere, CloseAccount, UserEdits
<1>4. ASSUME NEW b \in Accounts, NEW n \in Mails, MoveAside(b, n) \/ MoveBack(b, n)
      PROVE  StoredIsThere'
  <2>1. outcome' = outcome /\ touched' = touched \cup {<<b, n>>}
    BY <1>4 DEF MoveAside, MoveBack, UserEdits
  <2>2. \A a \in Accounts, m \in Mails : (a # b \/ m # n) => inbox'[a][m] = inbox[a][m]
    BY <1>1, <1>4 DEF MoveAside, MoveBack
  <2>3. QED
    BY <2>1, <2>2 DEF StoredIsThere
<1>5. CASE SkipRecipient \/ StoreDelivery \/ RecipientFails
  <2>1. pc \in {"lookup", "store", "stale"} /\ idx <= Len(To[mail[cur]])
    BY <1>5, AtRecipient
    DEF SkipRecipient, StoreDelivery, RecipientFails, RecipientFailing
  <2>2. mail[cur] \in Mails /\ Recipient \in Accounts
    BY <2>1, RecipientKnown
  <2>3. touched' = touched
    BY <1>5 DEF SkipRecipient, StoreDelivery, RecipientFails, userVars
  <2>4. CASE SkipRecipient \/ RecipientFails
    <3>1. PICK o \in {"skipped", "failed"} : Ended(o)
      BY <2>4 DEF SkipRecipient, RecipientFails
    <3>2. inbox' = inbox
      BY <2>4 DEF SkipRecipient, RecipientFails
    <3>3. \A m \in Mails, a \in Accounts :
             "there" \in outcome'[m][a] => "there" \in outcome[m][a]
      BY <1>1, <2>2, <3>1 DEF Ended
    <3>4. QED
      BY <2>3, <3>2, <3>3 DEF StoredIsThere
  <2>5. CASE StoreDelivery
    <3>1. \A m \in Mails, a \in Accounts :
             "there" \in outcome'[m][a] =>
                "there" \in outcome[m][a] \/ (m = mail[cur] /\ a = Recipient)
      BY <1>1, <2>2, <2>5 DEF StoreDelivery, Ended
    <3>2. inbox'[Recipient][mail[cur]] > 0
      BY <1>1, <2>2, <2>5 DEF StoreDelivery
    <3>3. \A m \in Mails, a \in Accounts : inbox[a][m] > 0 => inbox'[a][m] > 0
      BY <1>1, <2>2, <2>5 DEF StoreDelivery
    <3>4. QED
      BY <2>3, <3>1, <3>2, <3>3 DEF StoredIsThere
  <2>6. QED
    BY <1>5, <2>4, <2>5
<1>6. QED
  BY <1>2, <1>3, <1>4, <1>5, StepKinds

(* A step that stays with the run and its mail keeps what is decided.      *)
LEMMA DecidedUpToKept ==
    ASSUME TInv, cur # NoJob, [Next]_vars, UNCHANGED cur, NEW n \in Nat, DecidedUpTo(n)
    PROVE  mail'[cur'] = mail[cur] /\ DecidedUpTo(n)'
<1>1. cur \in Jobs /\ mail[cur] \in Mails
  BY DEF TInv, TypeOK, RunTypeOK, RunsLeft
<1>2. mail'[cur'] = mail[cur]
  BY <1>1, MailsKept, InboundAssumption DEF InboundAssumption
<1>3. \A k \in 1..Len(To[mail[cur]]) : To[mail[cur]][k] \in Accounts
  <2>1. To[mail[cur]] \in Seq(Accounts)
    BY <1>1, InboundAssumption DEF InboundAssumption
  <2>2. QED
    BY <2>1
<1>4. \A k \in 1..Len(To[mail[cur]]) : k < n =>
         outcome'[mail[cur]][To[mail[cur]][k]] # {}
  BY <1>1, <1>3, OutcomesKept DEF DecidedUpTo
<1>5. QED
  BY <1>2, <1>4 DEF DecidedUpTo

LEMMA PcKnown ==
    TInv => pc \in {"idle", "parse", "lookup", "store", "stale", "resolved",
                   "rejected"}
BY DEF TInv, TypeOK, RunTypeOK

LEMMA RunDecidesKept ==
    ASSUME TInv, RunDecides, [Next]_vars
    PROVE  RunDecides'
<1>1. CASE pc' \in {"idle", "parse", "rejected"}
  BY <1>1 DEF RunDecides
<1>2. CASE SkipRecipient \/ StoreDelivery \/ RecipientFails
  <2>1. pc \in {"lookup", "store", "stale"} /\ idx <= Len(To[mail[cur]])
    BY <1>2, AtRecipient
    DEF SkipRecipient, StoreDelivery, RecipientFails, RecipientFailing
  <2>2. PICK o \in {"there", "skipped", "failed"} : Ended(o)
    BY <1>2 DEF SkipRecipient, StoreDelivery, RecipientFails
  <2>3. pc' = "lookup" /\ idx' = idx + 1 /\ cur' = cur /\ mail' = mail
    BY <1>2 DEF SkipRecipient, StoreDelivery, RecipientFails, NextRecipient, queueVars
  <2>4. DecidedUpTo(idx) /\ idx \in Nat /\ cur # NoJob
    BY <2>1 DEF RunDecides, TInv, TypeOK, RunTypeOK
  <2>5. PICK n \in Nat : n = idx
    BY <2>4
  <2>6. DecidedUpTo(n)'
    BY <2>3, <2>4, <2>5, DecidedUpToKept
  <2>7. outcome'[mail[cur]][To[mail[cur]][n]] # {}
    BY <2>1, <2>2, <2>5, EndedTypes DEF Recipient
  <2>8. \A k \in 1..Len(To[mail[cur]]) : k < n + 1 => k < n \/ k = n
    OBVIOUS
  <2>9. QED
    BY <2>3, <2>5, <2>6, <2>7, <2>8 DEF RunDecides, DecidedUpTo
<1>3. CASE Parse /\ pc' = "lookup"
  <2>1. idx' = 1
    BY <1>3 DEF Parse, TInv, TypeOK, RunTypeOK
  <2>2. QED
    BY <1>3, <2>1 DEF RunDecides, DecidedUpTo
<1>4. CASE AllRecipientsDone
  <2>1. /\ pc = "lookup" /\ pc' = "resolved" /\ idx > Len(To[mail[cur]])
        /\ UNCHANGED <<mail, outcome, cur>>
    BY <1>4 DEF AllRecipientsDone, queueVars, storeVars
  <2>2. mail[cur] \in Mails /\ idx \in Nat
    BY <2>1 DEF TInv, TypeOK, RunTypeOK, RunsLeft
  <2>3. Len(To[mail[cur]]) \in Nat
    BY <2>2, InboundAssumption DEF InboundAssumption
  <2>4. \A k \in 1..Len(To[mail[cur]]) : k < idx
    BY <2>1, <2>2, <2>3
  <2>5. QED
    BY <2>1, <2>4 DEF RunDecides, DecidedUpTo
<1>5. CASE /\ UNCHANGED <<cur, idx>>
           /\ \/ pc' = pc
              \/ pc = "store" /\ pc' = "stale"
              \/ pc = "lookup" /\ pc' = "store"
           /\ pc \in {"lookup", "store", "stale", "resolved"}
  <2>1. cur # NoJob /\ idx \in Nat
    BY <1>5 DEF TInv, TypeOK, RunTypeOK
  <2>2. mail[cur] \in Mails
    BY <2>1 DEF TInv, TypeOK, RunsLeft
  <2>3. PICK n \in Nat, l \in Nat : n = idx /\ l = Len(To[mail[cur]]) + 1
    BY <2>1, <2>2, InboundAssumption DEF InboundAssumption
  <2>4. CASE pc = "resolved"
    <3>1. DecidedUpTo(l)
      BY <2>3, <2>4 DEF RunDecides
    <3>2. DecidedUpTo(l)' /\ mail'[cur'] = mail[cur]
      BY <1>5, <2>1, <3>1, DecidedUpToKept
    <3>3. pc' = "resolved"
      BY <1>5, <2>4
    <3>4. QED
      BY <2>3, <3>2, <3>3 DEF RunDecides, DecidedUpTo
  <2>5. CASE pc # "resolved"
    <3>1. DecidedUpTo(n)
      BY <1>5, <2>3, <2>5 DEF RunDecides
    <3>2. DecidedUpTo(n)' /\ pc' # "resolved"
      BY <1>5, <2>1, <2>5, <3>1, DecidedUpToKept
    <3>3. QED
      BY <1>5, <2>3, <3>2 DEF RunDecides, DecidedUpTo
  <2>6. QED
    BY <2>4, <2>5
<1>6. QED
  <2>1. CASE \E m \in Mails : AddJob(m) \/ Accept(m) \/ AnswerLost(m)
    BY <2>1, <1>1, <1>5, PcKnown DEF AddJob, Accept, AnswerLost, runVars
  <2>2. CASE \E a \in Accounts : OpenAccount(a) \/ CloseAccount(a)
    BY <2>2, <1>1, <1>5, PcKnown DEF OpenAccount, CloseAccount, runVars
  <2>3. CASE \E a \in Accounts, m \in Mails : MoveAside(a, m) \/ MoveBack(a, m)
    BY <2>3, <1>1, <1>5, PcKnown DEF MoveAside, MoveBack, runVars
  <2>4. CASE \E j \in Jobs : BackoffExpires(j) \/ StalledSweep(j)
    BY <2>4, <1>1, <1>5, PcKnown DEF BackoffExpires, StalledSweep, runVars
  <2>5. CASE Complete \/ Reject \/ Crash \/ \E j \in Jobs : Claim(j)
    BY <2>5, <1>1 DEF Complete, Reject, Crash, Claim, EndRun
  <2>6. CASE LoseLock \/ FindRecipient
    BY <2>6, <1>1, <1>5, PcKnown DEF LoseLock, FindRecipient
  <2>7. CASE Parse
    BY <2>7, <1>1, <1>3 DEF Parse
  <2>8. CASE UNCHANGED vars
    BY <2>8, <1>1, <1>5, PcKnown DEF vars, runVars
  <2>9. QED
    BY <1>2, <1>4, <2>1, <2>2, <2>3, <2>4, <2>5, <2>6, <2>7, <2>8
    DEF Next, Process

(* A mail whose sender was told 250 is in the queue, a completed job has   *)
(* come to an end with every address of the header, and what was stored is *)
(* in the inbox unless its owner has moved it.                             *)
THEOREM NothingIsForgotten == Spec => []NothingForgotten
<1>1. Init => FInv
  BY InboundAssumption
  DEF InboundAssumption, Init, FInv, NothingForgotten, AcceptedIsQueued,
      CompletedIsDecided, StoredIsThere, RunDecides
<1>2. TInv /\ FInv /\ [Next]_vars => FInv'
  BY QueuedKept, DecidedKept, StoredKept, RunDecidesKept
  DEF FInv, NothingForgotten
<1>3. FInv => NothingForgotten
  BY DEF FInv
<1>4. QED
  BY <1>1, <1>2, <1>3, TypesHold, PTL DEF Spec

-----------------------------------------------------------------------------
(* The mapping of InboundDelivery to InboundPromise, by name.              *)
Custody == {m \in Mails : JobsOf(m) # {}}
Accepted == {m \in Mails : smtp[m] = "accepted"}

LEMMA CustodySame ==
    ASSUME UNCHANGED mail
    PROVE  Custody' = Custody
BY DEF Custody, JobsOf

(* An owner's change is a Refile or a LoseAll of the promise.              *)
LEMMA OwnerRefiles ==
    ASSUME TInv, NEW b \in Accounts,
           CloseAccount(b) \/ \E m \in Mails : MoveAside(b, m) \/ MoveBack(b, m)
    PROVE  \/ Promise!LoseAll(b)
           \/ \E m \in Mails : Promise!Refile(b, m)
<1>1. /\ inbox \in [Accounts -> [Mails -> Nat]]
      /\ aside \in [Accounts -> [Mails -> Nat]]
  BY DEF TInv, TypeOK, StoreTypeOK
<1>2. Custody' = Custody /\ Accepted' = Accepted
  BY CustodySame DEF CloseAccount, MoveAside, MoveBack, queueVars, Accepted
<1>3. CASE CloseAccount(b)
  BY <1>2, <1>3 DEF CloseAccount, Promise!LoseAll, Custody, Accepted
<1>4. ASSUME NEW m \in Mails, MoveAside(b, m) \/ MoveBack(b, m)
      PROVE  Promise!Refile(b, m)
  <2>1. inbox[b][m] \in Nat /\ aside[b][m] \in Nat
    BY <1>1
  <2>2. PICK in, off \in 0..(inbox[b][m] + aside[b][m]) :
           /\ in + off <= inbox[b][m] + aside[b][m]
           /\ inbox' = [inbox EXCEPT ![b][m] = in]
           /\ aside' = [aside EXCEPT ![b][m] = off]
    <3>1. CASE MoveAside(b, m)
      <4>1. /\ inbox[b][m] - 1 \in 0..(inbox[b][m] + aside[b][m])
            /\ aside[b][m] + 1 \in 0..(inbox[b][m] + aside[b][m])
            /\ (inbox[b][m] - 1) + (aside[b][m] + 1) <= inbox[b][m] + aside[b][m]
        BY <2>1, <3>1 DEF MoveAside
      <4>2. QED
        BY <3>1, <4>1 DEF MoveAside
    <3>2. CASE MoveBack(b, m)
      <4>1. /\ inbox[b][m] + 1 \in 0..(inbox[b][m] + aside[b][m])
            /\ aside[b][m] - 1 \in 0..(inbox[b][m] + aside[b][m])
            /\ (inbox[b][m] + 1) + (aside[b][m] - 1) <= inbox[b][m] + aside[b][m]
        BY <2>1, <3>2 DEF MoveBack
      <4>2. QED
        BY <3>2, <4>1 DEF MoveBack
    <3>3. QED
      BY <1>4, <3>1, <3>2
  <2>3. QED
    BY <1>2, <2>2 DEF Promise!Refile, Custody, Accepted
<1>5. QED
  BY <1>3, <1>4

(* Storing a copy is a Deliver, or nothing when the mail is there.         *)
LEMMA StoringDelivers ==
    ASSUME TInv, StoreDelivery
    PROVE  \/ UNCHANGED <<Custody, Accepted, inbox, aside>>
           \/ \E m \in Mails, a \in Accounts : Promise!Deliver(m, a)
<1>1. cur \in Jobs /\ cur # NoJob
  BY InboundAssumption
  DEF InboundAssumption, StoreDelivery, TInv, TypeOK, RunTypeOK
<1>2. idx <= Len(To[mail[cur]])
  BY AtRecipient DEF StoreDelivery
<1>3. idx \in 1..Len(To[mail[cur]])
  BY <1>2, RecipientKnown DEF StoreDelivery
<1>4. PICK m \in Mails, a \in Accounts : m = mail[cur] /\ a = Recipient
  BY <1>2, RecipientKnown DEF StoreDelivery
<1>5. a \in Addressees[m]
  BY <1>3, <1>4 DEF Addressees, Recipient
<1>6. m \in Custody
  BY <1>1, <1>4 DEF Custody, JobsOf
<1>7. UNCHANGED <<Custody, Accepted, aside>>
  BY CustodySame DEF StoreDelivery, queueVars, Accepted
<1>8. inbox[a][m] \in Nat
  BY DEF TInv, TypeOK, StoreTypeOK
<1>9. CASE inbox[a][m] > 0
  BY <1>4, <1>7, <1>9 DEF StoreDelivery
<1>10. CASE inbox[a][m] = 0
  <2>1. inbox' = [inbox EXCEPT ![a][m] = 1]
    BY <1>4, <1>10 DEF StoreDelivery
  <2>2. Promise!Deliver(m, a)
    BY <1>5, <1>6, <1>7, <1>10, <2>1
    DEF Promise!Deliver, Custody, Accepted
  <2>3. QED
    BY <2>2
<1>11. QED
  BY <1>8, <1>9, <1>10

LEMMA SenderSteps ==
    ASSUME TInv, AcceptedIsQueued, NEW m \in Mails,
           AddJob(m) \/ Accept(m) \/ AnswerLost(m)
    PROVE  \/ UNCHANGED <<Custody, Accepted, inbox, aside>>
           \/ Promise!TakeOver(m) \/ Promise!Accept(m)
<1>1. UNCHANGED <<inbox, aside>>
  BY DEF AddJob, Accept, AnswerLost, storeVars
<1>2. smtp \in [Mails -> {"ready", "added", "accepted"}]
  BY DEF TInv, TypeOK, QueueTypeOK
<1>3. CASE AddJob(m)
  <2>1. PICK j \in Jobs : state[j] = "none" /\ mail' = [mail EXCEPT ![j] = m]
    BY <1>3 DEF AddJob
  <2>2. mail[j] = NoMail /\ mail \in [Jobs -> Mails \cup {NoMail}]
    BY <2>1 DEF TInv, TypeOK, QueueTypeOK
  <2>3. JobsOf(m)' = JobsOf(m) \cup {j}
    BY <2>1, <2>2, InboundAssumption DEF InboundAssumption, JobsOf
  <2>4. \A n \in Mails : n # m => JobsOf(n)' = JobsOf(n)
    BY <2>1, <2>2, InboundAssumption DEF InboundAssumption, JobsOf
  <2>5. Custody' = Custody \cup {m}
    BY <2>3, <2>4 DEF Custody
  <2>6. Accepted' = Accepted
    BY <1>2, <1>3 DEF AddJob, Accepted
  <2>7. QED
    BY <1>1, <2>5, <2>6
    DEF Promise!TakeOver, Custody, Accepted
<1>4. CASE Accept(m)
  <2>1. Custody' = Custody
    BY <1>4, CustodySame DEF Accept, queueVars
  <2>2. m \in Custody
    BY <1>4 DEF Accept, AcceptedIsQueued, Custody
  <2>3. Accepted' = Accepted \cup {m}
    BY <1>2, <1>4 DEF Accept, Accepted
  <2>4. QED
    BY <1>1, <2>1, <2>2, <2>3
    DEF Promise!Accept, Custody, Accepted
<1>5. CASE AnswerLost(m)
  <2>1. Custody' = Custody
    BY <1>5, CustodySame DEF AnswerLost, queueVars
  <2>2. Accepted' = Accepted
    BY <1>2, <1>5 DEF AnswerLost, Accepted
  <2>3. QED
    BY <1>1, <2>1, <2>2
<1>6. QED
  BY <1>3, <1>4, <1>5

(* The other steps change nothing that the promise is about.               *)
LEMMA OtherSteps ==
    ASSUME \/ \E a \in Accounts : OpenAccount(a)
           \/ \E j \in Jobs : Claim(j) \/ BackoffExpires(j) \/ StalledSweep(j)
           \/ Complete \/ Reject \/ LoseLock \/ Crash
           \/ Parse \/ FindRecipient \/ SkipRecipient \/ AllRecipientsDone
           \/ RecipientFails
           \/ UNCHANGED vars
    PROVE  UNCHANGED <<Custody, Accepted, inbox, aside>>
<1>1. UNCHANGED <<mail, smtp, inbox, aside>>
  BY DEF OpenAccount, Claim, BackoffExpires, StalledSweep, Complete, Reject,
     LoseLock, Crash, Parse, FindRecipient, SkipRecipient, AllRecipientsDone,
     RecipientFails, vars, queueVars, storeVars
<1>2. QED
  BY <1>1, CustodySame DEF Accepted

LEMMA PromiseVars ==
    UNCHANGED <<Custody, Accepted, inbox, aside>> => UNCHANGED Promise!vars
BY DEF Promise!vars, Custody, Accepted

(* Inbound delivery implements InboundPromise: whoever was told 250 has    *)
(* its mail in the queue, and a copy comes into being only for an          *)
(* addressee, only from the queue, and only where there is none.           *)
THEOREM InboundKeepsPromise == Spec => KeepsInboundPromise
<1>1. Init => Promise!Init
  <2> SUFFICES ASSUME Init PROVE Promise!Init
    OBVIOUS
  <2>1. Custody = {}
    BY InboundAssumption DEF InboundAssumption, Init, Custody, JobsOf
  <2>2. Accepted = {}
    BY DEF Init, Accepted
  <2>3. QED
    BY <2>1, <2>2 DEF Init, Promise!Init, Custody, Accepted
<1>2. ASSUME TInv, NothingForgotten, [Next]_vars
      PROVE  [Promise!Next]_(Promise!vars)
  <2>1. AcceptedIsQueued
    BY <1>2 DEF NothingForgotten
  <2>2. ASSUME NEW m \in Mails, AddJob(m) \/ Accept(m) \/ AnswerLost(m)
        PROVE  [Promise!Next]_(Promise!vars)
    BY <1>2, <2>1, <2>2, SenderSteps, PromiseVars DEF Promise!Next
  <2>3. ASSUME NEW b \in Accounts,
               CloseAccount(b) \/ \E m \in Mails : MoveAside(b, m) \/ MoveBack(b, m)
        PROVE  [Promise!Next]_(Promise!vars)
    BY <1>2, <2>3, OwnerRefiles DEF Promise!Next
  <2>4. CASE StoreDelivery
    BY <1>2, <2>4, StoringDelivers, PromiseVars DEF Promise!Next
  <2>5. QED
    BY <1>2, <2>2, <2>3, <2>4, OtherSteps, PromiseVars DEF Next, Process
<1>3. QED
  BY <1>1, <1>2, TypesHold, NothingIsForgotten, PTL
  DEF Spec, KeepsInboundPromise, Promise!Spec
=============================================================================
