------------------------------ MODULE Compose ------------------------------
(***************************************************************************)
(* Writing and sending a mail: the compose page with its draft auto-save   *)
(* and attachments (components/mail/ComposeView.tsx,                       *)
(* hooks/use-encrypt-send.ts), the browser's queue of unsent mails         *)
(* (lib/offline-store.ts) with the service worker that replays it          *)
(* (public/sw.js), and the routes behind them (api/routes/compose.ts).     *)
(*                                                                         *)
(* Requests, answers and React Query callbacks are steps of their own: an  *)
(* answer may be lost, a client may give up while the server goes on, the  *)
(* browser may be offline, and its worker be killed between two awaits.    *)
(***************************************************************************)
EXTENDS Naturals, FiniteSets, Sequences

CONSTANTS
    Budgets,        \* bound: what the user may do, see BudgetType
    Posts,          \* bound: calls of POST /compose/send at one time
    MaxQueueDepth,  \* MAX_OUTBOUND_QUEUE_DEPTH (100 in the code)
    MaxLost,        \* bound: answers lost and clients that give up
    None

(* sends: presses of Send; edits: changes of the text; files: files        *)
(* picked; cuts: may the browser go offline?                               *)
BudgetType == [sends : Nat, edits : Nat, files : Nat, cuts : BOOLEAN]

ASSUME ComposeAssumption ==
    /\ Budgets \subseteq BudgetType
    /\ IsFiniteSet(Posts)
    /\ MaxQueueDepth \in Nat \ {0}
    /\ MaxLost \in Nat
    /\ None \notin Nat \cup Posts

VARIABLES
    budget,   \* the bound chosen for this behaviour
    \* the page
    page,     \* "open", or "left" by navigation
    text,     \* version of the content, 0 while it is empty
    saved,    \* lastSavedRef: version handed to the last auto-save
    status,   \* draftStatus
    draft,    \* draftIdRef.current of useSaveDraft
    saves,    \* runs of the draft mutation, in the order of mutate()
    files,    \* state of each file picked, and the draft id its handler saw
    told,     \* what the page has shown about each mail
    sending,  \* mail of the pending send mutation
    paused,   \* does that mutation wait for the browser to be online?
    \* the browser
    online,   \* onlineManager.isOnline()
    queue,    \* IndexedDB store compose-queue: mails waiting in it
    sync,     \* is the sync tag registered?
    todo,     \* items the running flushComposeQueue has yet to treat
    \* the server
    posts,    \* calls of POST /compose/send, and who waits for their answer
    sent,     \* copies of each mail in Sent
    jobs,     \* jobs added for each mail
    depth,    \* jobs of the user in the outbound queue
    drafts,   \* rows of the Drafts mailbox: is it there, version of its head
              \* (recipients and subject) and of its body
    blobs,    \* files stored with a row: <<draft, file>>
    \* history
    lost,     \* answers for a mail that no client has acted on
    refused,  \* mails the server has refused for good (401, 403)
    older     \* has a stray save put an older head or body over a newer one?

pageVars  == <<page, text, saved, status, draft, saves, files>>
netVars   == <<online, paused>>
sendVars  == <<told, sending, netVars, queue, sync, todo, lost, refused>>
routeVars == <<posts, sent, jobs, depth>>
rowVars   == <<drafts, blobs, older>>
vars == <<budget, pageVars, sendVars, routeVars, rowVars>>

Mails == 1..budget.sends
Files == 1..budget.files

FreePost == [mail |-> 0, by |-> "nobody", step |-> "free"]

Init ==
    /\ budget \in Budgets
    /\ page = "open" /\ text = 0 /\ saved = 0 /\ status = "idle"
    /\ draft = None /\ saves = <<>>
    /\ files = [f \in Files |-> [step |-> "none", row |-> None, head |-> 0]]
    /\ told = [m \in Mails |-> "nothing"]
    /\ sending = 0 /\ online = TRUE /\ paused = FALSE
    /\ queue = {} /\ sync = FALSE /\ todo = {}
    /\ posts = [p \in Posts |-> FreePost]
    /\ sent = [m \in Mails |-> 0]
    /\ jobs = [m \in Mails |-> 0]
    /\ depth = 0
    /\ drafts = <<>> /\ blobs = {}
    /\ lost = [m \in Mails |-> 0]
    /\ refused = {} /\ older = FALSE
-----------------------------------------------------------------------------
(***************************************************************************)
(* The browser's connection.  React Query holds a mutation that is called  *)
(* while offline back, before its function has begun (networkMode          *)
(* "online"); once online, in a tab that is looked at, it goes on.         *)
(***************************************************************************)

Toggle ==
    /\ budget.cuts
    /\ online' = ~online
    /\ UNCHANGED <<budget, pageVars, told, sending, paused, queue, sync, todo, lost,
                   refused, routeVars, rowVars>>

Resume ==
    /\ page = "open" /\ online
    /\ paused \/ \E n \in 1..Len(saves) : saves[n].step = "paused"
    /\ paused' = FALSE
    /\ saves' = [n \in 1..Len(saves) |->
           [saves[n] EXCEPT !.step = IF @ = "paused" THEN "encrypt" ELSE @]]
    /\ UNCHANGED <<budget, page, text, saved, status, draft, files, told, sending,
                   online, queue, sync, todo, lost, refused, routeVars, rowVars>>

-----------------------------------------------------------------------------
(***************************************************************************)
(* Drafts.  mutate() starts a run of the draft mutation; React Query calls *)
(* the callbacks given to mutate() only for the latest of its calls.  An   *)
(* auto-save (file = 0) carries the whole content; the save that an upload *)
(* needs to get a row carries the recipients and the subject of the render *)
(* in which the file was picked (0: none, "Draft"), and no body.  Versions *)
(* from 1 on have every part, and the session key is unlocked.             *)
(***************************************************************************)

Mutate(file, head, body) ==
    saves' = Append(saves,
                    [file |-> file, head |-> head, body |-> body, row |-> None,
                     held |-> ~online, step |-> IF online THEN "encrypt" ELSE "paused"])

Pending(n) == saves[n].step \in {"paused", "encrypt", "request", "ok", "failed"}

Edit ==
    /\ page = "open" /\ text < budget.edits
    /\ text' = text + 1
    /\ UNCHANGED <<budget, page, saved, status, draft, saves, files, sendVars,
                   routeVars, rowVars>>

(* 30 s after the last change; a request gives up after 15 s, so that the  *)
(* previous auto-save is over unless it was held back.                     *)
AutoSave ==
    /\ page = "open" /\ text # saved
    /\ \A n \in 1..Len(saves) : saves[n].file = 0 /\ Pending(n) => saves[n].held
    /\ saved' = text /\ status' = "saving"
    /\ Mutate(0, text, text)
    /\ UNCHANGED <<budget, page, text, draft, files, sendVars, routeVars, rowVars>>

(* The id is read after the encryption, when the request is made.          *)
RequestSave(n) ==
    /\ page = "open" /\ saves[n].step = "encrypt"
    /\ saves' = [saves EXCEPT ![n].step = "request", ![n].row = draft]
    /\ UNCHANGED <<budget, page, text, saved, status, draft, files, sendVars,
                   routeVars, rowVars>>

(* Mutation: a PUT that leaves the body alone.                             *)
StoreSubject(n) ==
    drafts' = IF saves[n].row # None
              THEN [drafts EXCEPT ![saves[n].row].head = saves[n].head]
              ELSE Append(drafts, [there |-> TRUE, head |-> saves[n].head,
                                   body |-> saves[n].body])

(* POST /compose/draft when the page knows no row, else PUT, which leaves  *)
(* out what the payload has not.                                           *)
StoreDraft(n) ==
    LET row == saves[n].row IN
    drafts' = IF row = None
              THEN Append(drafts, [there |-> TRUE, head |-> saves[n].head,
                                   body |-> saves[n].body])
              ELSE [drafts EXCEPT ![row].head = saves[n].head,
                                  ![row].body = IF saves[n].body = 0 THEN @
                                                ELSE saves[n].body]

(* A save that does not bring what the last auto-save has: the page gave   *)
(* it up, an upload started it, or it was held back.                       *)
Stray(n) == saves[n].step = "orphan" \/ saves[n].file # 0 \/ saves[n].held

Overwrites(n) ==
    older' = (older \/ (Stray(n) /\ saves[n].row # None /\ saves[n].head < saved))

AnswerSave(n, outcome) ==
    saves' = [saves EXCEPT
                ![n].row = IF outcome = "ok" /\ @ = None THEN Len(drafts) + 1 ELSE @,
                ![n].step = IF @ = "orphan" THEN "done" ELSE outcome]

ServeSave(n) ==
    /\ saves[n].step \in {"request", "orphan"}
    /\ saves[n].row # None => drafts[saves[n].row].there
    /\ StoreDraft(n)
    /\ AnswerSave(n, "ok")
    /\ Overwrites(n)
    /\ UNCHANGED <<budget, page, text, saved, status, draft, files, sendVars,
                   routeVars, blobs>>

(* 404 for a row that is gone; 429 and 5xx at any time                     *)
RefuseSave(n) ==
    /\ saves[n].step \in {"request", "orphan"}
    /\ AnswerSave(n, "failed")
    /\ UNCHANGED <<budget, page, text, saved, status, draft, files, sendVars,
                   routeVars, rowVars>>

(* PUT runs two statements and no transaction: the second fails.           *)
StoreHalf(n) ==
    /\ saves[n].step \in {"request", "orphan"}
    /\ saves[n].row # None /\ saves[n].body # 0
    /\ drafts[saves[n].row].there
    /\ drafts' = [drafts EXCEPT ![saves[n].row].head = saves[n].head]
    /\ AnswerSave(n, "failed")
    /\ Overwrites(n)
    /\ UNCHANGED <<budget, page, text, saved, status, draft, files, sendVars,
                   routeVars, blobs>>

(* The callbacks of mutate(), for the latest call alone                    *)
Settle(n, ok, row) ==
    /\ status' = IF n = Len(saves) /\ saves[n].file = 0
                 THEN (IF ok THEN "saved" ELSE "error") ELSE status
    /\ files' = IF n = Len(saves) /\ saves[n].file # 0
                THEN [files EXCEPT ![saves[n].file] =
                        [@ EXCEPT !.step = IF ok THEN "upload" ELSE "failed", !.row = row]]
                ELSE files

SaveEnds(n) ==
    /\ page = "open" /\ saves[n].step \in {"ok", "failed"}
    /\ draft' = IF saves[n].step = "ok" THEN saves[n].row ELSE draft
    /\ Settle(n, saves[n].step = "ok", saves[n].row)
    /\ saves' = [saves EXCEPT ![n].step = "done"]
    /\ UNCHANGED <<budget, page, text, saved, sendVars, routeVars, rowVars>>

(* Network error or AbortSignal.timeout(15_000); the server may go on.     *)
SaveGivesUp(n) ==
    /\ page = "open" /\ saves[n].step \in {"request", "ok"}
    /\ Settle(n, FALSE, None)
    /\ saves' = [saves EXCEPT ![n].step = IF @ = "request" THEN "orphan" ELSE "done"]
    /\ UNCHANGED <<budget, page, text, saved, draft, sendVars, routeVars, rowVars>>

(* The row is deleted elsewhere; its files go with it (ON DELETE CASCADE). *)
DeleteDraft(n) ==
    /\ drafts[n].there
    /\ drafts' = [drafts EXCEPT ![n].there = FALSE]
    /\ blobs' = {b \in blobs : b[1] # n}
    /\ UNCHANGED <<budget, pageVars, sendVars, routeVars, older>>

-----------------------------------------------------------------------------
(* Attachments.  The handler keeps the draft id, the recipients and the    *)
(* subject of the render in which the file was picked; without an id it    *)
(* saves a draft first.                                                    *)

SelectFile(f) ==
    /\ page = "open" /\ files[f].step = "none"
    /\ files' = [files EXCEPT ![f] = [step |-> "reading", row |-> draft, head |-> text]]
    /\ UNCHANGED <<budget, page, text, saved, status, draft, saves, sendVars,
                   routeVars, rowVars>>

ReadFile(f) ==
    /\ page = "open" /\ files[f].step = "reading"
    /\ IF files[f].row = None
       THEN files' = [files EXCEPT ![f].step = "waiting"] /\ Mutate(f, files[f].head, 0)
       ELSE files' = [files EXCEPT ![f].step = "upload"] /\ UNCHANGED saves
    /\ UNCHANGED <<budget, page, text, saved, status, draft, sendVars, routeVars,
                   rowVars>>

(* POST and DELETE /compose/attachment                                     *)
StoreBlob(f) == drafts[files[f].row].there /\ blobs' = blobs \cup {<<files[f].row, f>>}
DropBlob(f) == blobs' = blobs \ {<<files[f].row, f>>}

(* Refused without its row or beyond the limits; the answer may be lost    *)
(* after the blob is stored.                                               *)
UploadFile(f) ==
    /\ page = "open" /\ files[f].step = "upload"
    /\ \/ /\ StoreBlob(f)
          /\ \E s \in {"there", "failed"} : files' = [files EXCEPT ![f].step = s]
       \/ files' = [files EXCEPT ![f].step = "failed"] /\ UNCHANGED blobs
    /\ UNCHANGED <<budget, page, text, saved, status, draft, saves, sendVars,
                   routeVars, drafts, older>>

(* handleRemoveAttachment: the list forgets the file whatever the server   *)
(* answers.                                                                *)
RemoveFile(f) ==
    /\ page = "open" /\ files[f].step = "there"
    /\ DropBlob(f) \/ UNCHANGED blobs
    /\ files' = [files EXCEPT ![f].step = "failed"]
    /\ UNCHANGED <<budget, page, text, saved, status, draft, saves, sendVars,
                   routeVars, drafts, older>>

-----------------------------------------------------------------------------
(***************************************************************************)
(* POST /compose/send.                                                     *)
(***************************************************************************)

Open(p, m, by) ==
    posts' = [posts EXCEPT ![p] = [mail |-> m, by |-> by, step |-> "gate"]]

Reach(p, step) ==
    posts' = [posts EXCEPT ![p] =
        IF step \in {"ok", "denied", "failed"} /\ @.by = "nobody"
        THEN FreePost ELSE [@ EXCEPT !.step = step]]

(* 401 and 403: session, disabled account, key export, verification        *)
Deny(p) ==
    /\ posts[p].step = "gate"
    /\ Reach(p, "denied")
    /\ UNCHANGED <<budget, pageVars, sendVars, sent, jobs, depth, rowVars>>

StoreSentCopy(p) ==
    /\ posts[p].step = "gate"
    /\ sent' = [sent EXCEPT ![posts[p].mail] = @ + 1]
    /\ Reach(p, "stored")
    /\ UNCHANGED <<budget, pageVars, sendVars, jobs, depth, rowVars>>

(* Mutation: the limit is compared with > instead of >=.                   *)
CountJobsOver(p) ==
    /\ posts[p].step = "stored"
    /\ Reach(p, IF depth > MaxQueueDepth THEN "failed" ELSE "counted")
    /\ UNCHANGED <<budget, pageVars, sendVars, sent, jobs, depth, rowVars>>


CountJobs(p) ==
    /\ posts[p].step = "stored"
    /\ Reach(p, IF depth >= MaxQueueDepth THEN "failed" ELSE "counted")
    /\ UNCHANGED <<budget, pageVars, sendVars, sent, jobs, depth, rowVars>>

(* Mutation: the handler may still fail after it has added the job.        *)
AddJobThenFail(p) ==
    /\ posts[p].step = "counted"
    /\ jobs' = [jobs EXCEPT ![posts[p].mail] = @ + 1]
    /\ depth' = depth + 1
    /\ \E outcome \in {"ok", "failed"} : Reach(p, outcome)
    /\ UNCHANGED <<budget, pageVars, sendVars, sent, rowVars>>


AddJob(p) ==
    /\ posts[p].step = "counted"
    /\ jobs' = [jobs EXCEPT ![posts[p].mail] = @ + 1]
    /\ depth' = depth + 1
    /\ Reach(p, "ok")
    /\ UNCHANGED <<budget, pageVars, sendVars, sent, rowVars>>

(* The limiter refuses (SendLimit), or a lookup, the transaction, the       *)
(* queue or the encryption fails.                                          *)
FailPost(p) ==
    /\ posts[p].step \in {"gate", "stored", "counted"}
    /\ Reach(p, "failed")
    /\ UNCHANGED <<budget, pageVars, sendVars, sent, jobs, depth, rowVars>>

(* The outbound worker takes a job to its end (OutboundDelivery).          *)
Drain ==
    /\ depth > 0 /\ depth' = depth - 1
    /\ UNCHANGED <<budget, pageVars, sendVars, posts, sent, jobs, rowVars>>

(* The client stops waiting: the call dies with the server or goes on.     *)
Abandon(p) ==
    /\ lost[posts[p].mail] < MaxLost
    /\ lost' = [lost EXCEPT ![posts[p].mail] = @ + 1]
    /\ posts' \in {[posts EXCEPT ![p] = FreePost]} \cup
          (IF posts[p].step \in {"gate", "stored", "counted"}
           THEN {[posts EXCEPT ![p].by = "nobody"]} ELSE {})

-----------------------------------------------------------------------------
(* The page.                                                               *)

CallOf(by) == {p \in Posts : posts[p].by = by}

(* By the button or by Ctrl+Enter, which does not wait for uploads.        *)
PressSend(m) ==
    /\ page = "open" /\ sending = 0
    /\ told[m] = "nothing" /\ \A k \in 1..(m - 1) : told[k] # "nothing"
    /\ sending' = m /\ paused' = ~online
    /\ told' = [told EXCEPT ![m] = "sending"]
    /\ UNCHANGED <<budget, pageVars, online, queue, sync, todo, lost, refused, routeVars,
                   rowVars>>

PostMail(p) ==
    /\ page = "open" /\ sending # 0 /\ ~paused /\ CallOf("page") = {}
    /\ posts[p] = FreePost
    /\ Open(p, sending, "page")
    /\ UNCHANGED <<budget, pageVars, sendVars, sent, jobs, depth, rowVars>>

(* Mutation: the mutation stays pending after its answer.                  *)
TellOnly(what) ==
    /\ told' = [told EXCEPT ![sending] = what]
    /\ UNCHANGED sending


Tell(what) ==
    /\ told' = [told EXCEPT ![sending] = what]
    /\ sending' = 0

(* Navigation ends the handlers of the page, not what the server does.     *)
LeavePage ==
    /\ page' = "left"
    /\ saves' = [n \in 1..Len(saves) |->
           [saves[n] EXCEPT !.step = IF @ \in {"request", "orphan"} THEN "orphan"
                                     ELSE "done"]]
    /\ UNCHANGED <<text, saved, status, draft, files>>

MailIsSent(p) ==
    /\ page = "open" /\ posts[p].by = "page" /\ posts[p].step = "ok"
    /\ Tell("queued")
    /\ posts' = [posts EXCEPT ![p] = FreePost]
    /\ LeavePage
    /\ UNCHANGED <<budget, netVars, queue, sync, todo, lost, refused, sent, jobs, depth,
                   rowVars>>

MailIsRefused(p) ==
    /\ page = "open" /\ posts[p].by = "page"
    /\ posts[p].step \in {"denied", "failed"}
    /\ Tell("error")
    /\ posts' = [posts EXCEPT ![p] = FreePost]
    /\ UNCHANGED <<budget, pageVars, netVars, queue, sync, todo, lost, refused, sent, jobs,
                   depth, rowVars>>

(* AbortSignal.timeout rejects with a TimeoutError, which is neither a     *)
(* TypeError nor an AbortError: the mail is not queued.                    *)
SendTimesOut(p) ==
    /\ page = "open" /\ posts[p].by = "page"
    /\ Abandon(p)
    /\ Tell("error")
    /\ UNCHANGED <<budget, pageVars, netVars, queue, sync, todo, refused, sent, jobs, depth,
                   rowVars>>

(* queueCompose, and the registration of the sync tag if there is one      *)
QueueMail(p) ==
    /\ page = "open" /\ posts[p].by = "page"
    /\ Abandon(p)
    /\ Tell("offline")
    /\ queue' = queue \cup {sending}
    /\ sync' \in {TRUE, sync}
    /\ UNCHANGED <<budget, pageVars, netVars, todo, refused, sent, jobs, depth, rowVars>>

(* handleDiscard, or any other way off the page                            *)
Discard ==
    /\ page = "open"
    /\ LeavePage
    /\ posts' = [p \in Posts |-> IF posts[p].by # "page" THEN posts[p]
                                 ELSE IF posts[p].step \in {"gate", "stored", "counted"}
                                      THEN [posts[p] EXCEPT !.by = "nobody"]
                                      ELSE FreePost]
    /\ UNCHANGED <<budget, sendVars, sent, jobs, depth, rowVars>>

-----------------------------------------------------------------------------
(* The service worker: one event for the tag at a time, items in the order *)
(* of their keys.  One mail is sent at a time and the store numbers what   *)
(* it is given, so that is the order of the mails' own numbers.            *)

SyncFires ==
    /\ sync /\ todo = {}
    /\ sync' = FALSE /\ todo' = queue
    /\ UNCHANGED <<budget, pageVars, told, sending, netVars, queue, lost, refused, routeVars,
                   rowVars>>

PostItem(p) ==
    /\ CallOf("worker") = {} /\ posts[p] = FreePost
    /\ \E m \in todo : (\A k \in todo : m <= k) /\ Open(p, m, "worker")
    /\ UNCHANGED <<budget, pageVars, sendVars, sent, jobs, depth, rowVars>>

DeleteItem(m) == queue' = queue \ {m}

(* The loop goes on with the next item.                                    *)
NextItem(p) == todo' = todo \ {posts[p].mail}

(* Mutation: the item is deleted whatever the answer is.                   *)
ItemIsDropped(p) ==
    /\ posts[p].by = "worker" /\ posts[p].step \in {"ok", "denied", "failed"}
    /\ DeleteItem(posts[p].mail)
    /\ refused' = IF posts[p].step = "denied" THEN refused \cup {posts[p].mail}
                  ELSE refused
    /\ NextItem(p)
    /\ posts' = [posts EXCEPT ![p] = FreePost]
    /\ UNCHANGED <<budget, pageVars, told, sending, netVars, sync, lost, sent, jobs, depth,
                   rowVars>>

(* Deleted when it was sent, or refused for good; kept otherwise           *)
ItemIsAnswered(p) ==
    /\ posts[p].by = "worker" /\ posts[p].step \in {"ok", "denied", "failed"}
    /\ IF posts[p].step = "failed" THEN UNCHANGED queue ELSE DeleteItem(posts[p].mail)
    /\ refused' = IF posts[p].step = "denied" THEN refused \cup {posts[p].mail}
                  ELSE refused
    /\ NextItem(p)
    /\ posts' = [posts EXCEPT ![p] = FreePost]
    /\ UNCHANGED <<budget, pageVars, told, sending, netVars, sync, lost, sent, jobs, depth,
                   rowVars>>

(* The request, or the deletion of the item, throws: the item stays.       *)
ItemFails(p) ==
    /\ posts[p].by = "worker"
    /\ Abandon(p)
    /\ NextItem(p)
    /\ UNCHANGED <<budget, pageVars, told, sending, netVars, queue, sync, refused, sent, jobs,
                   depth, rowVars>>

(* The browser stops the worker and fires an unfinished event again.       *)
WorkerKilled(p) ==
    /\ posts[p].by = "worker"
    /\ Abandon(p)
    /\ todo' = {} /\ sync' = TRUE
    /\ UNCHANGED <<budget, pageVars, told, sending, netVars, queue, refused, sent, jobs, depth,
                   rowVars>>

-----------------------------------------------------------------------------
Page ==
    \/ Edit \/ AutoSave \/ Discard \/ Toggle \/ Resume
    \/ \E n \in 1..Len(saves) : RequestSave(n) \/ SaveEnds(n) \/ SaveGivesUp(n)
    \/ \E f \in Files : SelectFile(f) \/ ReadFile(f) \/ UploadFile(f) \/ RemoveFile(f)
    \/ \E m \in Mails : PressSend(m)
    \/ \E p \in Posts : \/ PostMail(p) \/ MailIsSent(p) \/ MailIsRefused(p)
                        \/ SendTimesOut(p) \/ QueueMail(p)

Worker ==
    \/ SyncFires
    \/ \E p \in Posts :
          PostItem(p) \/ ItemIsAnswered(p) \/ ItemFails(p) \/ WorkerKilled(p)

Server ==
    \/ \E n \in 1..Len(saves) : ServeSave(n) \/ RefuseSave(n) \/ StoreHalf(n)
    \/ \E n \in 1..Len(drafts) : DeleteDraft(n)
    \/ \E p \in Posts :
          Deny(p) \/ StoreSentCopy(p) \/ CountJobs(p) \/ AddJob(p) \/ FailPost(p)
    \/ Drain

Next == Page \/ Worker \/ Server

Spec == Init /\ [][Next]_vars

(* The page's request settles by its timeout at the latest; a mutation     *)
(* that was held back goes on when it can; the server and the service      *)
(* worker go on.  Users, the connection, losses and syncs are not fair.    *)
Fairness ==
    /\ WF_vars(Resume)
    /\ WF_vars(\E p \in Posts : PostMail(p))
    /\ WF_vars(\E p \in Posts : MailIsSent(p) \/ MailIsRefused(p)
                                 \/ SendTimesOut(p) \/ QueueMail(p))
    /\ WF_vars(\E p \in Posts : PostItem(p))
    /\ WF_vars(\E p \in Posts : ItemIsAnswered(p) \/ ItemFails(p))
    /\ \A p \in Posts : WF_vars(Deny(p) \/ StoreSentCopy(p) \/ CountJobs(p)
                                 \/ AddJob(p) \/ FailPost(p))

FairSpec == Spec /\ Fairness

-----------------------------------------------------------------------------
(***************************************************************************)
(* Properties.                                                             *)
(***************************************************************************)

(* What the page says of a mail is true: "queued" means that a job was     *)
(* added; a mail it said would be sent later is in the browser's queue,    *)
(* or has its job, or was refused with 401 or 403 when it was replayed.    *)
ToldIsTrue ==
    \A m \in Mails :
        /\ told[m] = "queued" => jobs[m] > 0
        /\ told[m] = "offline" =>
              m \in queue \/ jobs[m] > 0 \/ m \in refused

(* A mail goes out again only for an answer that was lost, and a mail that *)
(* the page reports as failed does not go out unless its answer was lost.  *)
OnceUnlessLost ==
    \A m \in Mails :
        /\ jobs[m] <= 1 + lost[m]
        /\ told[m] = "error" /\ lost[m] = 0 => jobs[m] = 0

(* Counting and adding are two calls: the queue of a user exceeds its      *)
(* limit by no more than the calls at work besides the one that adds.      *)
DepthNearLimit == depth <= MaxQueueDepth + Cardinality(Posts) - 1

(* "Draft saved" is true: the row that the last auto-save was answered     *)
(* with has its body, and its recipients and subject or later ones, if it  *)
(* is still there; unless a stray save put older ones over them.           *)
Keeps(n) ==
    LET row == saves[n].row IN
    /\ saves[n].file = 0 /\ saves[n].body = saved
    /\ saves[n].step \in {"ok", "done"} /\ row # None
    /\ drafts[row].there => drafts[row].head >= saved /\ drafts[row].body = saved

SavedTextIsStored ==
    status = "saved" /\ ~older => \E n \in 1..Len(saves) : Keeps(n)

(* A press of Send that was taken comes to an end if the browser stays     *)
(* online: by an answer, by the timeout, by the mail being queued, or      *)
(* because the page is left; also when it was held back while offline.     *)
PressIsSettled == <>[]online => (sending # 0 ~> (sending = 0 \/ page = "left"))
=============================================================================
