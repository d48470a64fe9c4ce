-------------------------- MODULE OutboundDelivery --------------------------
(***************************************************************************)
(* The outbound mail pipeline: BullMQ's outbound queue, the one worker     *)
(* that startOutboundWorker creates, and processOutboundMailJob.           *)
(* (apps/server/src/queue/outbound-worker.ts)                              *)
(*                                                                         *)
(* A job relays one stored message to the mail exchangers (MX) of each     *)
(* recipient domain, in the order of groupRecipientsByDomain, and then     *)
(* marks the message row.  The awaits of the function are the points at    *)
(* which the process can crash, the job's lock can expire, or a call can   *)
(* fail, so every awaited call is a step of its own.                       *)
(*                                                                         *)
(* The queue is external (BullMQ 5, not in the repository) and modelled    *)
(* from how the worker uses it: attemptsMade grows when a run ends, a      *)
(* thrown error is retried after a back-off while attempts are left, and a *)
(* job whose lock expired goes back to the queue at most MaxStalledCount   *)
(* times.                                                                  *)
(***************************************************************************)
EXTENDS Naturals

CONSTANTS
    Jobs,             \* outbound messages, one queue job each
    NoJob,            \* "the worker is idle"
    NumDomains,       \* recipient domains of a message
    NumMx,            \* most MX records a domain has
    MaxAttempts,      \* opts.attempts of a job (5 in the code)
    MaxStalledCount,  \* BullMQ's limit of re-queued stalls (1 by default)
    MaxAdminRetries,  \* bound: how often an administrator retries a job
    EditedJobs        \* bound: jobs whose Sent copy the user edits or deletes

ASSUME OutboundAssumption ==
    /\ NoJob \notin Jobs
    /\ NumDomains \in Nat \ {0}
    /\ NumMx \in Nat \ {0}
    /\ MaxAttempts \in Nat \ {0}
    /\ MaxStalledCount \in Nat
    /\ MaxAdminRetries \in Nat
    /\ EditedJobs \subseteq Jobs

Domains == 1..NumDomains

VARIABLES
    state,        \* BullMQ set the job is in, "unsent" before it is added
    attempts,     \* job.attemptsMade
    stalls,       \* times the job's lock was found expired
    adminRetries, \* times an administrator retried the job (bounded)
    stored,       \* is the Sent copy (messages row and body) still there?
    flags,        \* messages.flags of that row
    reading,      \* jobs whose row an API or IMAP flag change has read
    copies,       \* copies[j][d]: times an MX of domain d accepted message j
    deadLetters,  \* entries of the dead-letter queue for the job
    bounces,      \* bounce notifications stored for the job
    cur,          \* job the worker is running
    pc,           \* the await at which that run is
    dom,          \* index of the domain being relayed
    mx, mxs,      \* MX being tried, number of MX records of the domain
    locked        \* does the run still hold the job's lock?

queueVars  == <<state, attempts, stalls, adminRetries>>
rowVars    == <<stored, flags, reading>>
letterVars == <<deadLetters, bounces>>
runVars    == <<cur, pc, dom, mx, mxs, locked>>
vars == <<queueVars, rowVars, copies, letterVars, runVars>>

JobStates == {"unsent", "waiting", "active", "delayed", "completed", "failed"}
Points == {"idle", "load", "resolve", "relay", "quit", "stuck", "markDelivered",
           "markFailed", "deadLetter", "bounce", "resolved", "rejected"}
RowFlags == {"seen", "delivered", "failed", "dead"}

QueueTypeOK ==
    /\ state \in [Jobs -> JobStates]
    /\ attempts \in [Jobs -> Nat]
    /\ stalls \in [Jobs -> Nat]
    /\ adminRetries \in [Jobs -> 0..MaxAdminRetries]

RowTypeOK ==
    /\ stored \in [Jobs -> BOOLEAN]
    /\ flags \in [Jobs -> SUBSET RowFlags]
    /\ reading \subseteq Jobs

LetterTypeOK ==
    /\ deadLetters \in [Jobs -> Nat]
    /\ bounces \in [Jobs -> Nat]

CopyTypeOK == copies \in [Jobs -> [Domains -> Nat]]

RunTypeOK ==
    /\ cur \in Jobs \cup {NoJob}
    /\ pc \in Points
    /\ (pc = "idle") <=> (cur = NoJob)
    /\ dom \in Domains
    /\ mxs \in 1..NumMx
    /\ mx \in 1..mxs
    /\ locked \in BOOLEAN

(* The queue, the rows, the remote servers and the worker only ever hold   *)
(* values of these sets, and the worker is idle exactly without a job.     *)
TypeOK ==
    /\ QueueTypeOK
    /\ RowTypeOK
    /\ LetterTypeOK
    /\ CopyTypeOK
    /\ RunTypeOK

Init ==
    /\ state = [j \in Jobs |-> "unsent"]
    /\ attempts = [j \in Jobs |-> 0]
    /\ stalls = [j \in Jobs |-> 0]
    /\ adminRetries = [j \in Jobs |-> 0]
    /\ stored = [j \in Jobs |-> FALSE]
    /\ flags = [j \in Jobs |-> {}]
    /\ reading = {}
    /\ copies = [j \in Jobs |-> [d \in Domains |-> 0]]
    /\ deadLetters = [j \in Jobs |-> 0]
    /\ bounces = [j \in Jobs |-> 0]
    /\ cur = NoJob /\ pc = "idle"
    /\ dom = 1 /\ mx = 1 /\ mxs = 1
    /\ locked = FALSE

-----------------------------------------------------------------------------
(***************************************************************************)
(* Producers and users.                                                    *)
(***************************************************************************)

(* POST /compose/send has committed the Sent copy, flags ['seen'], and     *)
(* adds the job.                                                           *)
Enqueue(j) ==
    /\ state[j] = "unsent"
    /\ state' = [state EXCEPT ![j] = "waiting"]
    /\ stored' = [stored EXCEPT ![j] = TRUE]
    /\ flags' = [flags EXCEPT ![j] = {"seen"}]
    /\ UNCHANGED <<attempts, stalls, adminRetries, reading, copies, letterVars,
                   runVars>>

(* The user deletes the Sent copy for good (API or IMAP); nothing cancels  *)
(* the job.                                                                *)
DeleteSentCopy(j) ==
    /\ stored[j]
    /\ stored' = [stored EXCEPT ![j] = FALSE]
    /\ flags' = [flags EXCEPT ![j] = {}]
    /\ UNCHANGED <<queueVars, reading, copies, letterVars, runVars>>

(* PATCH /messages/:id/flags and IMAP STORE read the flags, compute the    *)
(* new ones and write them back, in two calls.  Both throw on flags that   *)
(* are no array.                                                           *)
IsArray(fs) == fs \subseteq {"seen"}

ReadFlags(j) ==
    /\ stored[j]
    /\ IsArray(flags[j])
    /\ j \notin reading
    /\ reading' = reading \cup {j}
    /\ UNCHANGED <<queueVars, stored, flags, copies, letterVars, runVars>>

WriteFlags(j) ==
    /\ j \in reading
    /\ reading' = reading \ {j}
    /\ \E fs \in SUBSET {"seen"} :
          flags' = IF stored[j] THEN [flags EXCEPT ![j] = fs] ELSE flags
    /\ UNCHANGED <<queueVars, stored, copies, letterVars, runVars>>

(* POST /admin/queue-stats/retry/:jobId: job.retry() on a failed job.      *)
(* attemptsMade is not reset.                                              *)
AdminRetry(j) ==
    /\ state[j] = "failed"
    /\ adminRetries[j] < MaxAdminRetries
    /\ adminRetries' = [adminRetries EXCEPT ![j] = @ + 1]
    /\ state' = [state EXCEPT ![j] = "waiting"]
    /\ UNCHANGED <<attempts, stalls, rowVars, copies, letterVars, runVars>>

-----------------------------------------------------------------------------
(***************************************************************************)
(* BullMQ.                                                                 *)
(***************************************************************************)

(* The worker, which has concurrency 1, takes the next job.                *)
Claim(j) ==
    /\ cur = NoJob
    /\ state[j] = "waiting"
    /\ state' = [state EXCEPT ![j] = "active"]
    /\ cur' = j /\ pc' = "load" /\ locked' = TRUE
    /\ UNCHANGED <<attempts, stalls, adminRetries, rowVars, copies, letterVars,
                   dom, mx, mxs>>

EndRun ==
    /\ cur' = NoJob /\ pc' = "idle"
    /\ dom' = 1 /\ mx' = 1 /\ mxs' = 1
    /\ locked' = FALSE

(* The processor's promise resolved.  Without the lock the queue refuses   *)
(* the result, and the job stays where the stalled sweep puts it.          *)
Complete ==
    /\ pc = "resolved"
    /\ IF locked
       THEN /\ state' = [state EXCEPT ![cur] = "completed"]
            /\ attempts' = [attempts EXCEPT ![cur] = @ + 1]
       ELSE UNCHANGED <<state, attempts>>
    /\ EndRun
    /\ UNCHANGED <<stalls, adminRetries, rowVars, copies, letterVars>>

(* The processor threw: retry after the back-off while attempts are left.  *)
Reject ==
    /\ pc = "rejected"
    /\ IF locked
       THEN /\ attempts' = [attempts EXCEPT ![cur] = @ + 1]
            /\ state' = [state EXCEPT ![cur] =
                            IF attempts[cur] + 1 < MaxAttempts
                            THEN "delayed" ELSE "failed"]
       ELSE UNCHANGED <<state, attempts>>
    /\ EndRun
    /\ UNCHANGED <<stalls, adminRetries, rowVars, copies, letterVars>>

(* Mutation: the table of delays is one entry short and its index is not   *)
(* clamped, so that the last retry is never due.                           *)
BackoffUnclamped(j) ==
    /\ state[j] = "delayed"
    /\ attempts[j] < MaxAttempts - 1
    /\ state' = [state EXCEPT ![j] = "waiting"]
    /\ UNCHANGED <<attempts, stalls, adminRetries, rowVars, copies, letterVars,
                   runVars>>

BackoffExpires(j) ==
    /\ state[j] = "delayed"
    /\ state' = [state EXCEPT ![j] = "waiting"]
    /\ UNCHANGED <<attempts, stalls, adminRetries, rowVars, copies, letterVars,
                   runVars>>

(* The lock of the running job expires, its renewal did not reach Redis;   *)
(* the processor keeps running.                                            *)
LoseLock ==
    /\ cur # NoJob
    /\ locked
    /\ locked' = FALSE
    /\ UNCHANGED <<queueVars, rowVars, copies, letterVars, cur, pc, dom, mx, mxs>>

(* BullMQ finds an active job without a lock, left by a crashed process or *)
(* by an expired lock, and puts it back, or fails it when it stalled too   *)
(* often.  The processor hears of neither.                                 *)
StalledSweep(j) ==
    /\ state[j] = "active"
    /\ ~(cur = j /\ locked)
    /\ stalls' = [stalls EXCEPT ![j] = @ + 1]
    /\ state' = [state EXCEPT ![j] =
                    IF stalls[j] < MaxStalledCount THEN "waiting" ELSE "failed"]
    /\ UNCHANGED <<attempts, adminRetries, rowVars, copies, letterVars, runVars>>

(* The process dies in mid-run: killed, or by an 'error' event of a plain  *)
(* SMTP socket, for which nobody listens once connectTcp has returned, so  *)
(* that the uncaughtException handler exits.                               *)
Crash ==
    /\ cur # NoJob
    /\ EndRun
    /\ UNCHANGED <<queueVars, rowVars, copies, letterVars>>

-----------------------------------------------------------------------------
(***************************************************************************)
(* processOutboundMailJob, the try block.                                  *)
(***************************************************************************)

Goto(p) == pc' = p /\ UNCHANGED <<cur, dom, mx, mxs, locked>>

(* The message row is read, the body decrypted, attachments fetched and    *)
(* the whole signed.                                                       *)
LoadMessage ==
    /\ pc = "load"
    /\ stored[cur]
    /\ Goto("resolve")
    /\ UNCHANGED <<queueVars, rowVars, copies, letterVars>>

(* Any of those calls throws; a row that is gone always does.              *)
LoadFails ==
    /\ pc = "load"
    /\ Goto("markFailed")
    /\ UNCHANGED <<queueVars, rowVars, copies, letterVars>>

(* resolveMx answers with n records; the first in priority order is tried. *)
ResolveMx ==
    /\ pc = "resolve"
    /\ \E n \in 1..NumMx : mxs' = n
    /\ mx' = 1 /\ pc' = "relay"
    /\ UNCHANGED <<queueVars, rowVars, copies, letterVars, cur, dom, locked>>

(* It throws, or answers with none.                                        *)
ResolveFails ==
    /\ pc = "resolve"
    /\ Goto("markFailed")
    /\ UNCHANGED <<queueVars, rowVars, copies, letterVars>>

(* Mutation: the same MX is tried again.                                   *)
SameMx ==
    /\ pc' = "relay"
    /\ UNCHANGED <<cur, dom, mx, mxs, locked>>

(* relayWithSmtp threw: the next MX, or the error once all were tried.     *)
NextMx ==
    IF mx < mxs
    THEN /\ mx' = mx + 1 /\ pc' = "relay"
         /\ UNCHANGED <<cur, dom, mxs, locked>>
    ELSE Goto("markFailed")

(* Refused before the message was accepted: no connection, or a reply code *)
(* the worker does not expect from the banner, EHLO, STARTTLS, MAIL, any   *)
(* RCPT, DATA or the message text.                                         *)
RelayRefused ==
    /\ pc = "relay"
    /\ NextMx
    /\ UNCHANGED <<queueVars, rowVars, copies, letterVars>>

(* The MX takes the message over (250 after the text).                     *)
RelayAccepted ==
    /\ pc = "relay"
    /\ copies' = [copies EXCEPT ![cur][dom] = @ + 1]
    /\ Goto("quit")
    /\ UNCHANGED <<queueVars, rowVars, letterVars>>

(* Mutation: the last domain is missed.                                    *)
QuitAcceptedEarly ==
    /\ pc = "quit"
    /\ IF dom + 1 < NumDomains
       THEN /\ dom' = dom + 1 /\ pc' = "resolve"
            /\ UNCHANGED <<cur, mx, mxs, locked>>
       ELSE Goto("markDelivered")
    /\ UNCHANGED <<queueVars, rowVars, copies, letterVars>>

(* QUIT answered with 221: the domain is done.                             *)
QuitAccepted ==
    /\ pc = "quit"
    /\ IF dom < NumDomains
       THEN /\ dom' = dom + 1 /\ pc' = "resolve"
            /\ UNCHANGED <<cur, mx, mxs, locked>>
       ELSE Goto("markDelivered")
    /\ UNCHANGED <<queueVars, rowVars, copies, letterVars>>

(* Any other answer to QUIT counts as a failed relay, although the MX has  *)
(* accepted the message.                                                   *)
QuitRefused ==
    /\ pc = "quit"
    /\ NextMx
    /\ UNCHANGED <<queueVars, rowVars, copies, letterVars>>

(* The MX stops answering, or closes the connection: readLine's promise is *)
(* never settled.                                                          *)
MxFallsSilent ==
    /\ pc \in {"relay", "quit"}
    /\ Goto("stuck")
    /\ UNCHANGED <<queueVars, rowVars, copies, letterVars>>

(* The worker's UPDATEs keep the flags of a row only when they are already *)
(* a JSON object: an array is replaced by a new object.  An UPDATE of a    *)
(* row that is gone changes nothing.                                       *)
ObjectFlags(j) == IF IsArray(flags[j]) THEN {} ELSE flags[j]

SetRowFlags(fs) ==
    /\ flags' = IF stored[cur] THEN [flags EXCEPT ![cur] = fs] ELSE flags
    /\ UNCHANGED <<stored, reading>>

MarkDelivered ==
    /\ pc = "markDelivered"
    /\ SetRowFlags(ObjectFlags(cur) \cup {"delivered"})
    /\ Goto("resolved")
    /\ UNCHANGED <<queueVars, copies, letterVars>>

MarkDeliveredFails ==
    /\ pc = "markDelivered"
    /\ Goto("markFailed")
    /\ UNCHANGED <<queueVars, rowVars, copies, letterVars>>

-----------------------------------------------------------------------------
(***************************************************************************)
(* processOutboundMailJob, the catch block: each call that throws skips    *)
(* the ones after it.                                                      *)
(***************************************************************************)

(* Mutation: the attempt that is running is counted twice.                 *)
IsDeadEarly(j) == attempts[j] + 2 >= MaxAttempts

IsDead(j) == attempts[j] + 1 >= MaxAttempts

(* Mutation: the bounce comes before the dead letter.                      *)
MarkFailedBounceFirst ==
    /\ pc = "markFailed"
    /\ SetRowFlags((ObjectFlags(cur) \ {"dead"}) \cup {"failed"}
                      \cup (IF IsDead(cur) THEN {"dead"} ELSE {}))
    /\ Goto(IF IsDead(cur) THEN "bounce" ELSE "rejected")
    /\ UNCHANGED <<queueVars, copies, letterVars>>

MarkFailed ==
    /\ pc = "markFailed"
    /\ SetRowFlags((ObjectFlags(cur) \ {"dead"}) \cup {"failed"}
                      \cup (IF IsDead(cur) THEN {"dead"} ELSE {}))
    /\ Goto(IF IsDead(cur) THEN "deadLetter" ELSE "rejected")
    /\ UNCHANGED <<queueVars, copies, letterVars>>

AddDeadLetter ==
    /\ pc = "deadLetter"
    /\ deadLetters' = [deadLetters EXCEPT ![cur] = @ + 1]
    /\ Goto("bounce")
    /\ UNCHANGED <<queueVars, rowVars, copies, bounces>>

(* createBounceNotification is one transaction.                            *)
CreateBounce ==
    /\ pc = "bounce"
    /\ bounces' = [bounces EXCEPT ![cur] = @ + 1]
    /\ Goto("rejected")
    /\ UNCHANGED <<queueVars, rowVars, copies, deadLetters>>

(* One of the calls of the catch block throws; the bounce is also skipped  *)
(* when the sender has no account, active key or inbox.                    *)
CatchFails ==
    /\ pc \in {"markFailed", "deadLetter", "bounce"}
    /\ Goto("rejected")
    /\ UNCHANGED <<queueVars, rowVars, copies, letterVars>>

-----------------------------------------------------------------------------
(* One run of the processor.                                               *)
Process ==
    \/ LoadMessage \/ LoadFails
    \/ ResolveMx \/ ResolveFails
    \/ RelayRefused \/ RelayAccepted
    \/ QuitAccepted \/ QuitRefused
    \/ MarkDelivered \/ MarkDeliveredFails
    \/ MarkFailed \/ AddDeadLetter \/ CreateBounce \/ CatchFails

Next ==
    \/ \E j \in Jobs :
          \/ Enqueue(j) \/ AdminRetry(j)
          \/ Claim(j) \/ BackoffExpires(j) \/ StalledSweep(j)
    \/ \E j \in EditedJobs : DeleteSentCopy(j) \/ ReadFlags(j) \/ WriteFlags(j)
    \/ Complete \/ Reject \/ LoseLock \/ Crash
    \/ Process \/ MxFallsSilent

Spec == Init /\ [][Next]_vars

(* The worker loop and the promise chain of the processor make progress,   *)
(* timers fire and the stalled sweep runs.  Users, administrators, crashes *)
(* and the silence of a remote server are not fair.                        *)
Fairness ==
    /\ WF_vars(\E j \in Jobs : Claim(j))
    /\ WF_vars(Process)
    /\ WF_vars(Complete \/ Reject)
    /\ \A j \in Jobs : WF_vars(BackoffExpires(j)) /\ WF_vars(StalledSweep(j))

FairSpec == Spec /\ Fairness
-----------------------------------------------------------------------------
(***************************************************************************)
(* Properties.                                                             *)
(***************************************************************************)

AcceptedBy(j, d) == copies[j][d] > 0
AcceptedEverywhere(j) == \A d \in Domains : AcceptedBy(j, d)

(* A row that says "delivered", and a job the queue counts as completed,   *)
(* stand for a message that every recipient domain has accepted, whatever  *)
(* runs were cut short, retried, or finished without their lock.           *)
DeliveredMeansAccepted ==
    \A j \in Jobs :
        ("delivered" \in flags[j] \/ state[j] = "completed") => AcceptedEverywhere(j)

(* Domains are served strictly in order over all the runs of a job: one    *)
(* that never accepts keeps the message from every domain after it, and no *)
(* retry skips a domain that still waits for its copy.                     *)
ServedInOrder ==
    \A j \in Jobs : \A d, e \in Domains :
        (d < e /\ AcceptedBy(j, e)) => AcceptedBy(j, d)

(* A dead letter, or the row flag "dead", is written only by a run that    *)
(* was the last attempt, and a bounce only after its dead letter: nothing  *)
(* is written of a failure while the count of attempts leaves a retry.     *)
DeadOnlyWhenExhausted ==
    \A j \in Jobs :
        /\ ("dead" \in flags[j] \/ deadLetters[j] > 0)
              => attempts[j] + 1 >= MaxAttempts
        /\ bounces[j] <= deadLetters[j]

(* Runs of job j that the queue has counted, plus one that is under way.   *)
Runs(j) == attempts[j] + stalls[j] + (IF state[j] = "active" THEN 1 ELSE 0)

(* Nothing records which domains were served, so every run sends again.    *)
(* But a domain receives at most one copy from each of its MX per run:     *)
(* duplicates are bounded by the runs that the queue has counted.          *)
CopiesBounded ==
    \A j \in Jobs : \A d \in Domains : copies[j][d] <= NumMx * Runs(j)

(* A completed job is never run again: no domain receives another copy and *)
(* no dead letter or bounce is written for it.                             *)
CompletedIsFinal ==
    [][\A j \in Jobs : state[j] = "completed" =>
          /\ state'[j] = "completed"
          /\ copies'[j] = copies[j]
          /\ deadLetters'[j] = deadLetters[j]
          /\ bounces'[j] = bounces[j]]_vars

Settled(j) == state[j] \in {"completed", "failed"}

(* Every queued message is settled in the end, through crashes, expired    *)
(* locks and failing calls, unless a silent MX holds the only worker.      *)
EveryMessageSettles ==
    \A j \in Jobs : state[j] = "waiting" ~> (Settled(j) \/ pc = "stuck")

(* What the pipeline promises the sender of each message.                  *)
Promise == INSTANCE DeliveryPromise WITH
    Messages  <- Jobs,
    received  <- [j \in Jobs |-> {d \in Domains : AcceptedBy(j, d)}],
    reported  <- {j \in Jobs : "delivered" \in flags[j]},
    abandoned <- deadLetters,
    notices   <- bounces

(* The pipeline implements the promise: in order, never reported too soon, *)
(* never a bounce without an abandoned message.                            *)
KeepsPromise == Promise!Spec

(* The bounce says "Delivery failed for message ...".                      *)
BounceMeansUndelivered ==
    \A j \in Jobs : bounces[j] > 0 => ~AcceptedEverywhere(j)

-----------------------------------------------------------------------------
(***************************************************************************)
(* The inductive invariant behind the safety properties (OutboundProofs).  *)
(***************************************************************************)

(* What the queue knows of the job that is run.                            *)
RunInv ==
    /\ cur = NoJob => dom = 1
    /\ cur # NoJob => state[cur] \in {"active", "waiting", "failed"}
    /\ locked => cur # NoJob /\ state[cur] = "active"

(* The run has served the domains before the current one.                  *)
ServeInv ==
    /\ cur # NoJob => \A d \in Domains : d < dom => AcceptedBy(cur, d)
    /\ pc = "quit" => AcceptedBy(cur, dom)
    /\ pc \in {"markDelivered", "resolved"} => AcceptedEverywhere(cur)
    /\ DeliveredMeansAccepted
    /\ ServedInOrder

(* The catch block gets past markFailed only on the last attempt.          *)
DeadInv ==
    /\ pc \in {"deadLetter", "bounce"} => IsDead(cur)
    /\ pc = "bounce" => bounces[cur] < deadLetters[cur]
    /\ DeadOnlyWhenExhausted

(* Copies that the current run may have added for domain d.                *)
Added(d) ==
    CASE d < dom -> NumMx
      [] d > dom -> 0
      [] OTHER -> CASE pc \in {"load", "resolve"} -> 0
                    [] pc = "relay" -> mx - 1
                    [] OTHER -> mx

CopyInv ==
    /\ CopiesBounded
    /\ cur # NoJob =>
          /\ Runs(cur) > 0
          /\ \A d \in Domains :
                copies[cur][d] <= NumMx * (Runs(cur) - 1) + Added(d)
=============================================================================
