# Enclave Mail: specifications and proofs

TLA+ modules for Enclave Mail: the mail queues and their workers, the message
store that API, workers and IMAP write together, the IMAP server, sessions and
accounts, keys, the double ratchet, and the web client that uses them: compose
page and offline queue, mail pages with their caches, settings, the onboarding
wizard. TLC checks small instances; `OutboundProofs`, `InboundProofs`,
`MailboxProofs`, `AccessProofs`, `EncryptionProofs` (keys, ratchet and onboarding),
`ComposeProofs`, `ImapProofs` and `ClientProofs` (mail pages and settings) hold
theorems, proved with TLAPS for every value of the constants. `PROJECT.json` maps each
definition to the lines it models and lists components, runs, mutations, hazards, findings and theorems.

Paths are relative to `src/`; `server/` stands for `apps/server/src/`, `web/`
for `apps/web/src/`.

## 1. The system

A mail server and web client in TypeScript (Bun): PostgreSQL through Drizzle
for accounts, mailboxes and messages, Redis for sessions, rate limits and the
BullMQ queues, Haraka plugins for SMTP, a hand-written IMAP server, and a React
client with TanStack Query and a service worker.

| Component | State it keeps | Operations | Talks to | What is hard | Module |
|---|---|---|---|---|---|
| Outbound delivery (`server/queue/outbound-worker.ts`, `mail-queue.ts`) | job states, attempts, flags of the Sent copy, dead letters | take a job, relay to each domain's MX, mark, retry, dead-letter, bounce | BullMQ, remote MX, message store | retries resend, crash or expired lock in mid-run, failures inside the catch block, a silent MX | `OutboundDelivery` |
| Mailbox store (`server/api/routes/messages.ts`, `server/imap/commands/*.ts`, workers) | `messages` rows, `uid_next`, `message_count`, `unread_count` of `mailboxes` | deliver, bounce, send, draft, move, delete, flag, STORE, COPY, APPEND, EXPUNGE, CLOSE | all writers share it, mostly without transactions | values read before and written after; partial updates | `MailboxStore` |
| Inbound delivery (`server/smtp/inbound.ts`, `server/queue/inbound-worker.ts`, Haraka plugins) | inbound jobs | accept DATA, enqueue, store per recipient | Haraka, queue, store, push | errors of one recipient are swallowed; redelivery | `InboundDelivery` |
| Compose (`server/api/routes/compose.ts`, `web/components/mail/ComposeView.tsx`, `web/lib/offline-store.ts`, `apps/web/public/sw.js`) | editor, Sent and draft rows, attachments, queue depth, the browser's queue | auto-save, attach, send, queue offline, replay | store, outbound queue | the copy is stored before the job is added; lost answers; replays | `Compose` |
| IMAP session (`server/imap`) | session state, selected mailbox, subscriptions, timers, promise chain | all commands, IDLE, close | store, notifications | a chain per connection beside timer, socket, deliveries and other sessions | `ImapSession` |
| Sessions and login (`server/auth`, `server/routes/auth.ts`) | session keys and per-user index in Redis, SRP challenge | start, finish, validate, logout, logout everywhere | Redis | separate Redis calls, expiries between them | `Access` |
| Rate limiting (`server/middleware/rate-limit.ts`) | counters with expiry | count, reject | Redis | expiry set by a second call, requests that overtake each other | `Access`, `SendLimit` |
| Accounts and administration (`server/routes/account.ts`, `server/services/account-service.ts`, `server/api/routes/admin.ts`) | users, registration switch | create, register, verify, disable, delete | PostgreSQL, sessions | first administrator, the last one | `Access` |
| Keys and prekeys (`server/api/routes/keys.ts`, `web/components/keys`) | key rows with an active flag, prekeys, the unlocked tab | rotate, change the passphrase, export, upload, fetch a bundle | PostgreSQL, inbound worker, service worker | concurrent rotation, stale reads, one-time use | `Keys` |
| Double ratchet and X3DH (`packages/crypto/src`) | chains, skipped keys | initialise, encrypt, decrypt | pure | lost, late and repeated messages; bounded skips | `Ratchet` |
| Mail pages (`web/components/mail`, `web/hooks`, `Sidebar.tsx`) | query cache, selection, optimistic folders, worker's cache | list, search, read, flag, move, delete, folders | API | optimistic updates, roll-backs, stale answers | `MailClient` |
| Settings (`web/components/settings`, `server/api/routes/settings.ts`) | preferences row, page, one debounce timer | load, choose, save | API | overlapping saves, lost answers | `Settings` |
| Onboarding and setup (`web/components/onboarding`, `server/routes/setup.ts`) | wizard, domain, certificate, account | ten steps, certbot | API, DNS, certbot | two wizards, reloads, a call that fails between two others | `Onboarding` |
| SMTP submission, Haraka plugins other than the queue, primitives, push, views | none that two actors share | | | | none |

What makes each correct:

- **Outbound delivery**: "delivered" is true, order and number of copies are
  what the loop promises, no notice before the last attempt, a finished job is
  finished, every job ends.
- **Mailbox store**: UIDs ascend and never return, `uid_next` stays above them,
  counts equal the rows, a mail is stored once.
- **Inbound delivery**: accepted mail is in the queue until each addressee has
  been dealt with, and is stored once however often it is sent and processed.
- **Compose**: what the page says of a mail is true, a mail goes out once unless
  an answer was lost, a saved text is stored, every press ends.
- **Rate limiting**: the window is neither exceeded nor closed without cause, and a
  full counter comes to an end.
- **IMAP session**: sequence numbers mean what the client was told, only
  messages it flagged are expunged, one subscription per IDLE and never one
  left over, every line is answered.
- **Access**: after "log out everywhere" no older session is valid, an
  administrator remains, a correct login is refused only for another login's
  sake, a full window ends.
- **Keys**: new mail opens with the key a tab holds, no key that was active is
  lost, a one-time prekey is given out once.
- **Ratchet**: a message within the bound opens, an opened one never again.
- **Mail pages, settings**: one press destroys nothing, pages end up showing
  what the server has, a save does not touch other settings.
- **Onboarding**: no mail without a backup of the keys, what a step claims is
  so, what spins comes to an end (but for one button, see section 3).

## 2. Modules

### OutboundDelivery

One action per awaited call of `processOutboundMailJob`, because at each of them
the process can die, the lock expire or the call fail. `state`, `attempts` and
`stalls` are BullMQ's view of a job; `stored` and `flags` the Sent copy's row;
`copies[j][d]` what the recipient domains have received; `cur`, `pc`, `dom`,
`mx`, `mxs` the run of the only worker, `locked` whether the queue still counts
that run. The actions are grouped as in the code: producers and users
(`Enqueue`, `DeleteSentCopy`, `ReadFlags`/`WriteFlags`, `AdminRetry`), BullMQ
(`Claim`, `Complete`, `Reject`, `BackoffExpires`, `LoseLock`, `StalledSweep`,
`Crash`), the try block (`LoadMessage` to `MarkDelivered`) and the catch block
(`MarkFailed`, `AddDeadLetter`, `CreateBounce`, `CatchFails`).

BullMQ and the remote MX are not in the repository. The queue is modelled as far
as the worker relies on it: `attemptsMade` grows when a run that holds its lock
ends; an error is retried while attempts are left; a job without a lock is put
back `MaxStalledCount` times and then failed; an administrator's retry keeps
`attemptsMade`. Message text, DKIM, STARTTLS and attachments are inside one
step: what they do to the control is to succeed or to throw.

A run that lost its lock goes on. The one worker of the model is then still busy
with it, as with concurrency 1; a second server process is not modelled.

### DeliveryPromise

What the sender may rely on, without queue or worker. `OutboundDelivery` refines
it: `received` is the set of domains with a copy, `reported` the rows that say
"delivered", `abandoned` and `notices` the dead letters and bounces.

### MailboxStore

The rows and counters of one user and the calls that change them. A call in
flight is a record: its operation, its next statement (`at`), and what it has
read. One action per statement or transaction. Deliveries, bounces, sends and
drafts read `uidNext` first and update it relatively (`+ 1`); moves, COPY and
APPEND write back a value computed from the one they read; EXPUNGE and CLOSE write
absolute counts. `Ops` chooses which operations run, `MayFail` whether calls can
end between two statements, and the unique index on (mailbox, uid) refuses a
second row (`UidConflict`). `lastUid` is a history variable for the refinement.

A transaction is a single step at its commit: in READ COMMITTED its reads are
not protected, so a value read at its start is a step of its own
(`ReadDestination` of COPY, `ReadUidNext` of the bounce).

A message is `new` before its INSERT and `gone` after its DELETE; identifiers
are UUIDs and are not used again. Only the flags `seen` and `deleted` matter to
counters; a COPY copies one message. The set of mailboxes is fixed here; folders
come and go in `MailClient` and `ImapSession`.

### MailboxUids

The UIDs an IMAP client sees, per mailbox: a new message gets one above all
earlier ones, messages disappear, a move takes a new UID. `MCMailbox` shows
`MailboxStore` to refine it while calls come one at a time (`KeepsUidOrder`).

### InboundDelivery

From the enqueue in `hook_data_post` to the end of the job. `smtp` is how far the
transaction of a mail has come as its sender knows it: a mail whose job is added
but whose 250 is lost is sent again (`AnswerLost`), so one mail may have several
jobs. `inbox[a][m]` and `aside[a][m]` count copies in an inbox and in the other
mailboxes of the account. `outcome[m][a]` collects how processing `m` for `a`
has ended: `"there"` (stored, or found as a duplicate), `"skipped"` (no user, key
or inbox) or `"failed"` (the loop's `catch`). The run of the only worker (`cur`,
`pc`, `idx`, `locked`) and BullMQ are modelled as in `OutboundDelivery`.

`lookup` and `store` are two points, because account and mailbox are looked up
before the transaction that inserts: an account deleted between them leaves the
run with a stale mailbox id (`pc = "stale"`). `RecipientFails` is any error of a
lookup or of the transaction, and may happen at each of them. UIDs and counters
are left to `MailboxStore`.

The worker delivers to the addresses of the `To` header (`To`), in their order,
an address as often as it is there; the recipients of the SMTP envelope are
checked by `hook_rcpt` for their domain and are not in the job. `Addressees` is
therefore the header's set, in the model as in the code.

### InboundPromise

What sender and owner may rely on, with the copies of each mail counted: a mail
is accepted only after the server has taken it over, a copy is delivered only to
an addressee's inbox that has none (`Deliver`), and what owners do to their mail
moves or loses copies and makes none (`Refile`, `LoseAll`).

### Compose

The compose page, the browser's queue and the routes behind them, for one user.
A request to `/compose/send` is a record in `posts`, opened by the page or by
the service worker, that goes through the server's statements (`Deny`,
`StoreSentCopy`, `CountJobs`, `AddJob`) while its caller may give it up
(`Abandon`: a lost answer, a timeout). `saves` are the runs of the draft mutation, answered
in any order; `drafts` the rows they make; `queue` the IndexedDB store, `todo`
what a sync still has to replay (`SyncFires` to `ItemIsAnswered`, `WorkerKilled`
at any of its awaits). `jobs[m]` counts what the outbound worker will see of a
mail, `told[m]` what the page has said of it, `lost[m]` its lost answers.
`Budgets` bounds what the user does.

The content of a text is a number that says which edit it is; a draft row has a
`head`, its recipients and subject, and a `body`, because the saves differ in what
they bring. An auto-save brings both. The save that an upload needs to get a row
is called with the recipients and the subject of the render in which the file was
picked and with no body (`web/components/mail/ComposeView.tsx:318-325`); the PUT
leaves out what a payload has not (`server/api/routes/compose.ts:610-645`), so it
may put an older head over a newer one and leaves the body. The PUT is two
statements without a transaction: `StoreHalf` is a failure between them. Versions
from 1 on have every part (a part emptied by the user is not sent and stays), and
the session key is unlocked.

While the browser is offline (`online`, `Toggle`) TanStack Query holds back a
mutation before its function runs: `paused` says so of the press of Send, the step
`"paused"` of a save; `Resume` lets them go on, which needs a tab that is looked at.
A save that is held back, given up by its timeout, or made for an upload may reach the
server after a newer one; `older` records that it did. Only the latest `mutate()`
hears its callbacks (`Settle`), so a file whose save was displaced waits for ever.
The Send button also waits for uploads (`canSend`), Ctrl+Enter does not: a press may
come while files upload.

### SendLimit

The sliding-window limiter before the compose routes, for the requests of one
user on one route. A request reads the clock (`ReadClock`) and later sends its
MULTI (`Limit`); others overtake it in between. `members` is the sorted set,
`began` the scores, `expires` when Redis deletes the key. The answer may be lost
(`LoseAnswer`) or Redis not be reached (`FailOpen`): both let the request through.
`Compose` lets any call fail; this module says when the limiter refuses one.
The clocks of server and Redis are taken to agree.

### ImapSession

Connections of one user over the rows of its mailboxes. `queue[c]` is the promise chain
of a connection: its head is the line at work, `work[c]` what that line has read and its
next await; a rejected query ends the chain for good (`Reject`, `dead`), as in the code.
EXPUNGE and CLOSE await the deletion and then the update of the counters
(`ExpungeCounts`); rejected at the second, the rows are gone and the client has no
answer. `stale[c]` records that a message went without the client having been told, by
this or by someone else's hand, since it learnt its numbers. `idle`, `subs`, the timer
and the socket change between any two awaits (`TimerFires`, `Close`, `Deliver`,
`RemoveOnWeb`, and the other connection). A client is what it sends (`script`) and what
it concludes from the answers: `view[c]` pairs the sequence numbers it has been told of
with UIDs; FETCH and SEARCH teach it all of them (`Numbered`), and it counts along with
each "* n EXPUNGE" (`ExpungeTells`, `Forget`). A listing is a set of UIDs, its order is
theirs (`Number`). A teaching line makes a client forget what it knew, since the answers
come from a listing that may already be old. `meant` records what a client asked to be
flagged as deleted, `gone` what EXPUNGE and CLOSE deleted. Counters are left to
`MailboxStore`.

### Access

A flow is one thing a person does: create an account in the wizard, register,
log in, log out, log out everywhere, verify an address, administer a user. One
action per awaited call to Redis or PostgreSQL: of the limiter (`Count`,
`StartWindow`), the SRP exchange (`Challenge`, `Prove`, `MatchProof`, `Forget`),
the session manager (`StoreSession`, `IndexSession`, `RefreshIndex`, `ReadIndex`,
`DropAll`, `DropIndex`), the middleware (`Authenticate`, `CheckEnabled`,
`CheckAdmin`) and the routes. `mem[f]` is what a flow has read. Keys of Redis
carry the ticks they have left; `Tick` lets them expire. `CallFails` and
`ServerDies` may strike at each await. A session's token is the name of the flow
that made it.

### Keys

The key rows and prekeys of one person, the rotation dialog, the passphrase
change, export, unlock, senders that fetch a bundle and the inbound worker that
encrypts to the active key. An upload is a record that passes the statements of
its transaction (`Deactivate`, `Lock`, `CommitUpload`): PostgreSQL lets a second
UPDATE of the same rows wait and then looks at them again. With `sw`, `GET
/keys/export` may be answered from the service worker's copy while it asks
anew (`Revalidate`). One row stands for the x25519 and the ed25519 row that an
upload inserts together. A dialog that is closed and opened again may upload while its first
upload is at work. `backups` are the files the person has downloaded,
`raced`, `crossed` and `retired` are history.

### Ratchet

Two `RatchetSession` values opened by X3DH, and messages that are lost,
repeated and reordered. Keys are terms: a pair is a name, a Diffie-Hellman
output the set of its two names, a derived key the list of what went into it,
and a ciphertext opens under the key that sealed it. So the module says which
key opens what, and nothing of the strength of the primitives.

### MailClient

The mail pages in several tabs over the routes for messages and mailboxes.
`place` and `seen` are the server; `data[t]` a tab's query cache, `asks[t]` its
queries in flight, `calls` the changes under way, each with the snapshot its
roll-back will restore; `cache` and `fresh` the service worker. The press, the
handler's SELECT, its write and the hearing of the answer are four steps
(`HandleDelete` and the like, `Look`, `Write`, `Reply`); an answer may be lost
(`Lose`) and a query answered from the cache (`Serve`). Two moves to one mailbox that
were given the same UID collide on the unique index, and one fails (`Collides`). A
form knows only whether its hook's last call is pending (`Pending`).

### Settings

The settings page in several tabs: a choice is shown at once and saved at once
(`theme`), after 500 ms by one timer shared by three settings, or by a button.
The route reads the row, merges and writes it (`ReadExisting`,
`UpdatePreferences`). `MCMailClient` runs it beside `MailClient`: the two share no
state and a behaviour shows one of them.

### Onboarding

The wizard and the routes it calls. A wizard `w` is one visit of a tab: `page[w]`
is what its components keep, `call[w][op]` its request to a route: sent, let pass
by the guard where the route reads again after it (`GuardSetup` before `StoreDomain`
and `RunCertbot`), answered. A reload ends the visit (`Over`) and nothing else: the
server works on what it was asked, and the old visit's requests may land beside
those of the next, which is another wizard that `Before` relates to the first.
`POST /account/create` takes its awaits one by one (`CheckOpen`, `FindEmail`,
`CountUsers`, `InsertUser`), so two first accounts may both become administrators.
Look-ups of DNS records are their possible outcomes; certbot ends well, ends badly,
or is killed at its time limit. `files` are the key backups of a visit's user;
`mishaps` and `setter` are history.

### MC modules

Headers, budgets, scripts and scenarios for TLC, and symmetry sets. Symmetry is
used with safety properties only.

## 3. Runs

| Run | Instance | Shows |
|---|---|---|
| `outbound_two_domains` | 1 message, 2 domains, 2 MX each, 2 attempts, 1 stall, 1 admin retry, flags edited | `DeliveredMeansAccepted`, `DeadOnlyWhenExhausted`, `CopiesBounded`, refinement `KeepsPromise`, `EveryMessageSettles` |
| `outbound_false_bounce` | 1 message, 1 domain | violated: `BounceMeansUndelivered` |
| `mailbox_store` | 2 calls, 3 rows, 1 mail, 4 mailboxes: every operation alone, 3 UIDs taken; deliveries, bounces, flag changes and EXPUNGE of the inbox together, with failures | `CountExactAlone`, `OneCopyPerMail`, refinement `KeepsUidOrder` |
| `inbound_twice` | 1 mail to a1, a2 and a1 again, 2 attempts, 1 stall; 2 jobs, or 1 job and 2 changes by owners | `OneCopyPerInbox`, `NothingForgotten`, refinement `KeepsInboundPromise`, `AcceptedIsWorkedOff` |
| `compose` | 2 sends; 2 edits and 1 file; 1 edit and 2 files; or, with a browser that goes offline, 1 send and 1 edit, 3 edits, 1 edit and 1 file; 2 requests at once, queue depth 1, 2 lost answers; or 4 requests before the limiter, 2 per window of 2 ticks, 3 ticks | `ToldIsTrue`, `OnceUnlessLost`, `DepthNearLimit`, `SavedTextIsStored`, `SlidingWindow`, `PressIsSettled` |
| `imap_session` | 2 connections, 3 UIDs per mailbox, 10 scripts with up to one rejected query (at any await), removal on the web and closed socket | `NumbersAreTrue`, `OnlyMeantIsGone`, `SubscribedWhileIdle`, `LinesAreAnswered`, `ClosedLetsGo` |
| `access` | 5 flows, 2 users, 2 requests per window, 2 ticks, 10 scenarios, up to 1 fault | `AllMeansAll`, `AdminRemains`, `LonelyLoginWorks`, `WindowEnds` |
| `keys` | 5 flows, 3 keys, 2 one-time prekeys, 6 scenarios, up to 1 fault | `FreshMailOpens`, `KeyKept`, `OneTimeOnce` |
| `keys_rotation_undone` | rotation, passphrase change and unlock in one browser with the service worker | violated: `RotatedStaysOut` |
| `ratchet` | 2 skipped keys at most, 5 messages each way | `LateMessageOpens`, `OpenedIsForgotten` |
| `mail_client` | 2 tabs, 2 mails, 2 folders, 8 scenarios of the mail pages and 4 of the settings, up to 3 presses and 1 fault | `OnePressNeverDestroys`, `NoLeftovers`, `ListCatchesUp`, `ShownIsStored`, `NeighboursKept` |
| `onboarding` | 2 visits at a time out of 3, by two users or by one who reloads; the first with faults; 2 addresses, 2 domains, up to 2 generations of keys | `KeyGate`, `ClaimsAreTrue`, `PressSettles` |

**Bounds.** Two domains are the fewest with an order, two MX the fewest for
which "the next MX" differs from "give up", two attempts the fewest with a
retry and a last attempt (the code has five). `MaxAdminRetries` and
`EditedJobs` bound what users do; the theorems hold for all their values. In the
store, calls that run alone take up to `MaxTaken` = 3 UIDs in all, from any
mailboxes: enough for a mailbox to give two in order, for the newest message to be
deleted and its UID to return if it could, and for a COPY of the inbox onto itself.
`MaxUid` is the largest `uidNext` at which an overlapping call that takes a UID
starts; three rows let a stale delivery land below two others.
`MaxUnread` stops flag changes when `unread_count` has drifted upwards: IMAP
STORE never adjusts it and PATCH does, so alternating them makes it grow without
end. A header that names an address twice, two jobs of one mail and a stall
between recipients are the three ways to deliver again what is there; `MaxEdits` =
2 lets an owner move a mail away and back, or delete an account between two runs.

In the other runs the bound is a set of scenarios, each a few people or pages
that do a few things, chosen so that every action fires and each property's
mutation is found; within a scenario all interleavings are explored. A depth of 1
with two requests at work makes the queue limit be passed. Two lost answers let
both a request and its replay be lost. Two connections are a reader and one that
deletes behind its back; three messages are the fewest in which an EXPUNGE of two
shifts a third. `Max` = 2 with three logins fills a window; two ticks let a
challenge or session expire before, between or after two calls. Three keys are
the old one, that of a rotation and that of a second dialog or generation.
Skipping two of five messages fills the cache of skipped keys and passes it.
Three presses are delete, undo by another tab, and delete; two faults of one kind
would only repeat one. Two wizards are needed for one to change what the other
has read, or to start before the first account is there; the first has the faults,
and a third is the visit after its reload. `MCOnboarding` divides the wizard into the
part up to the certificate (`"setup"`) and the part from the account on
(`"accounts"`), which share the configured domain only.

The largest runs are `keys` (4.6 million distinct states), `mailbox_store` (2.0
million), `inbound_twice` (0.85 million), `mail_client` (0.67 million) and `onboarding`
(0.3 million, with liveness).

Deadlock is not checked: in every module the users may stop.

**Fairness.** Nothing is assumed of users, administrators, faults, crashes, locks,
certbot or remote servers. Assumed is what event loop, timers and network
do: a handler that was called goes on, an answer arrives or the call fails.

- Outbound and inbound worker: the worker takes jobs and its promise chain goes
  on (`WF` of `Claim`, `Process`, `Complete \/ Reject`); delayed jobs become due
  and the stalled sweep runs on a timer (`WF` of `BackoffExpires`,
  `StalledSweep`). A crashed process is restarted by its supervisor, which is
  what fairness of `Claim` says after `Crash`. `Process` leaves out
  `MxFallsSilent`: a run that has become silent is `stuck`, no step of the code
  leaves that point, and `EveryMessageSettles` excepts it.
- `Compose`: the server and the service worker go on with a request they hold;
  the page hears of it or its timeout fires; a mutation that was held back goes on
  when the browser is online (`Resume`: the tab is looked at). The connection and the
  syncs are not fair: `PressIsSettled` begins with "once the browser stays online",
  and nothing is claimed of when a queued mail goes out.
- `ImapSession`: the chain of a connection and its IDLE timer go on.
- `Access`: requests are worked off and the clock ticks.
- `MailClient`: queries are asked again (interval, focus), served and heard,
  handlers end, the service worker's background fetch ends. That they are asked again
  assumes a tab someone looks at: in the background polling pauses.
- `Onboarding`: requests are served and heard; certbot is killed at its limit
  (`WF` of `CertbotStep`) and need not end by itself.
- `Keys`, `Ratchet` and `SendLimit` state safety only.

**What is excepted, and why.** A property that names an exception holds because
the code has that gap; the exception is as narrow as TLC allows, and a mutation
shows the rest still says something.

- `EveryMessageSettles`: a run whose MX fell silent holds the worker.
- `DeliveredMeansAccepted` is about when the mark is put on; that a stale write of
  `flags` may take it off again is in the model, and nothing forbids it.
- `CountExact` and `KeepsUidOrder` are claimed for calls that do not overlap.
  With another call, an EXPUNGE writes the count of an older listing over it, and
  a delivery that read `uid_next`, was overtaken by another delivery and by the
  expunge of its row, takes the same UID again. `UidsBelowNext` holds for
  overlapping deliveries and expunges, not for operations that write back
  `uid_next` (`AbsoluteUids`). `unread_count` is not claimed to equal the unseen
  rows: neither STORE nor a move adjusts it.
- `OneCopyPerMail` speaks of the copies that delivery makes: when the worker is about to
  insert, the inbox has none. A COPY of the inbox onto itself, and moving a mail back
  after it was delivered again, make others.
- `OnceUnlessLost`: a mail whose answer was lost may be replayed although its
  job exists; nothing identifies the two requests.
- `DepthNearLimit`: counting and adding are two calls, so each further request
  at work may exceed the limit by one.
- `SlidingWindow` speaks of requests that began and were counted within a window.
- `SavedTextIsStored`: a save the page gave up, one held back while offline, and
  one made for an upload may put older content over newer (`older`).
- `PressIsSettled`: a browser that stays offline holds a press back.
- `NumbersAreTrue`, `OnlyMeantIsGone`: other sessions' expunges are never
  announced, so after one of them a number may mean another message; the same after
  a query of the client's own EXPUNGE or CLOSE that is rejected once the rows have
  gone (`server/imap/commands/message.ts:1225`, `mailbox.ts:518-525`).
- `AllMeansAll`: three races let a session escape "log out everywhere"; the
  property's comment names them.
- `AdminRemains`: an administrator disabled between the checks of a request and
  its statement still acts.
- `LonelyLoginWorks`: the SRP challenge is kept per address, so two logins at
  once make one of them fail.
- `WindowEnds`: INCR without its EXPIRE leaves a counter that never expires.
- `FreshMailOpens`: of two uploads committed across each other both keys may stay
  active (`raced`), until the next upload. And a tab unlocked from the service worker's
  copy counts as of when the copy was made: after a rotation such a tab holds the
  key before it and cannot open the mail that comes from then on.
- `KeyKept`: keys of a second generation that ends after the first one's file
  was downloaded are uploaded without a file.
- `NeighboursKept`: two saves at once lose a setting, and one page can start
  both. `ShownIsStored` speaks of pages that heard the last write: one that heard
  the answers out of order shows an older choice.
- `ClaimsAreTrue`: the domain may have been configured anew by another visit, also by
  a request of the tab's own visit before a reload; the switch is claimed for an
  administrator who lost no answer and is the only one.
- `KeyGate`: who made the account in a visit with a mishap may arrive at an inbox that
  refuses.
- `PressSettles`: if the session key cannot be derived once the account is there, the
  button of the ninth step spins disabled for ever
  (`web/components/onboarding/ConfirmStep.tsx:154`, `OnboardingWizard.tsx:285-287`).
  `Spinning` counts requests, the making of the keys and the statuses "creating" and
  "unlocking"; this one is its status `"locked"`.

**Mutations.** Each property of a passing run has an operator, marked
`Mutation` in the module, that changes one definition as a plausible bug would;
with it the run's property fails.

## 4. Proofs

`OutboundProofs` proves, under `OutboundAssumption` (at
least one domain, MX and attempt; `NoJob` is no job) and for any set of jobs:

| Theorem | States |
|---|---|
| `TypeCorrect` | `Spec => []TypeOK` |
| `DeliveredSound` | `Spec => []DeliveredMeansAccepted` |
| `ServedInOrderHolds` | `Spec => []ServedInOrder` |
| `DeadSound` | `Spec => []DeadOnlyWhenExhausted` |
| `CompletedStays` | `Spec => CompletedIsFinal` |
| `DeliveryKeepsPromise` | `Spec => KeepsPromise` |
| `DuplicatesBounded` | `Spec => []CopiesBounded` |

None of the safety properties is inductive: each speaks of finished facts (a
flag, a number of copies), and whether the next step keeps it depends on where
the run is. Four strengthenings supply that:

- `RunInv`: a job with a run is active, or was given back or failed under it,
  and the run holds the lock only of an active job. So `Complete` with a lock
  completes the job it ran, and a completed job has no run (`CompletedIsFinal`).
- `ServeInv`: all domains before `dom` have a copy, at `quit` also `dom`, and
  after the loop all of them.
- `DeadInv`: the run is past `markFailed` only on a last attempt, and at
  `bounce` its dead letter is there.
- `CopyInv`: a domain has at most `NumMx` copies from each earlier run, plus
  `Added(d)`, what the current run can have added at its point of the loop;
  `MxProduct` isolates the arithmetic.

Each is proved from the ones before it, with one step per action. The
refinement maps every action to a step of `DeliveryPromise` or a stutter, one
lemma per abstract step.

`InboundProofs` proves, under `InboundAssumption` (`To` is a sequence of accounts
for each mail; at least one attempt; `NoMail` and `NoJob` are no mail and no job)
and for any sets of mails, accounts and jobs:

| Theorem | States |
|---|---|
| `TypeCorrect` | `Spec => []TypeOK` |
| `OneCopyHolds` | `Spec => []OneCopyPerInbox` |
| `NothingIsForgotten` | `Spec => []NothingForgotten` |
| `InboundKeepsPromise` | `Spec => KeepsInboundPromise` |

`RunsLeft` strengthens the types: a job that can still run has attempts and
stalls left, and a lock belongs to a run of an active job. `RunDecides` says that
a run has dealt with every address before `idx`, so that a resolved run has dealt
with all; it holds because a crash, a lost lock or a repeated job starts again
with the first address, and outcomes and a job's mail never change
(`OutcomesKept`, `MailsKept`). `OneCopyPerInbox` needs no more than the types: the
lookup of the Message-ID and the insert are one step of one worker, which is
exactly the assumption of the model it rests on (no index of the database
enforces it). The refinement uses `AcceptedIsQueued` for the step that accepts; a
`StoreDelivery` that found the mail is a stutter, one that did not is `Deliver`,
whose guard is that the inbox has no copy.

`MailboxProofs` proves, under `StoreAssumption` and for any sets of calls, rows,
mails and mailboxes, whether calls fail or not:

| Theorem | States |
|---|---|
| `TypeCorrect` | `Spec => []TypeOK`, for every set of operations |
| `UidsStayBelow` | `RelativeOnly` implies `Spec => []UidsBelowNext` |
| `UidNextGrows` | `RelativeOnly` implies `Spec => NextOnlyGrows` |
| `StoredOnce` | `RelativeOnly` implies `Spec => [](OneCopyPerMail /\ OneRowPerMail)`: with those operations the inbox has one row of a mail |
| `CountsAlone` | `MCSpec => []CountExactAlone` |
| `StoreKeepsUidOrder` | `MCSpec => KeepsUidOrder`: the refinement of `MailboxUids` |

`RelativeOnly` says that no operation that writes back `uid_next` is among `Ops`;
with one that overlaps, the last three fail. `Ready` says what a call has read by the time it
is at each statement, which the types of what it writes depend on (`TypeInv`).
`UidInv`: the UID a delivery holds is at most `uidNext` of its target, so the
insert is below it after the `+ 1`. `MailInv`: the worker has one delivery at a
time, and past the duplicate check its mail is not in the inbox until the commit.
`StepKinds` sorts the steps: all but `ReadUidNext`, `CheckDuplicate` and
`CommitDelivery` are `Harmless` for both invariants, which is proved once.

The last two are about `MCSpec`, the store as the run has it: all operations, the
calls one at a time or those of `SharedOps` together. With one call there is a
`Current` record, and `AloneInv` says how it and the store belong together:
`Informed`, what it has read is still so (`uidNext` at an insert, the flagged rows
at an EXPUNGE, the rows at the counts it is about to write); `Owed`, the mailboxes
whose count it still has to write, which all others have right; `Given`, the
mailbox where a move has used `uidNext` and not yet advanced it. `CountExact` alone
is not inductive: between a move's statements two counts are wrong, by one each.
`UidsName` (UIDs differ, and `lastUid` bounds them) is what the refinement needs:
a move removes one UID from what the client sees because no other row had it.
TLC checks `AloneInv` on the instance of `mailbox_store` too. `RowInserted`,
`RowsDeleted`, `RowMoved` and `RowsSame` say for each way to change rows what becomes
of the counts, and which step of `MailboxUids` it is.

`AccessProofs` proves, under `AccessAssumption` (a scenario gives each flow an
operation, a user and at most one other flow; at least one request per window and
one tick of life) and for any sets of flows, users and scenarios:

| Theorem | States |
|---|---|
| `TypeCorrect` | `Spec => []TypeOK` |
| `AdminAlwaysRemains` | `Spec => AdminRemains` |
| `LonelyLoginAlwaysWorks` | `Spec => []LonelyLoginWorks` |
| `AllAlwaysMeansAll` | `Spec => []AllMeansAll` |

`PlaceInv` says where a flow of each operation may stand and what it remembers
there. `AdminStep` is about one step: only `Administer` takes rights, never the
caller's own, and its caller is still an administrator unless `seen.stale` notes
that the check is out of date. `LonelyInv`: two logins of one address that both have
a challenge out have met, and one that has met none finds its own challenge in
`srp`. `ListInv` follows a session from its key to the list: whoever is listed has
stored it for good, a session that lives is listed or lost, its list lives as long
as it does, and a log-out has read, or no longer owes, each session it is due to
end.

`EncryptionProofs` proves of `Keys`, under `KeysAssumption` (a scenario gives each flow its
operation and passphrase; the first key is none of the fresh ones) and for any sets
of flows, fresh keys and prekeys:

| Theorem | States |
|---|---|
| `TypeCorrect` | `Spec => []TypeOK` |
| `OneTimeAlways` | `Spec => []OneTimeOnce` |
| `KeyAlwaysKept` | `Spec => []KeyKept` |
| `FreshMailAlwaysOpens` | `Spec => []FreshMailOpens` |

`OnceInv`: a candidate was unused when it was read, what a reader was given is no
longer in the table unused, and a row inserted later has a later stamp, so it cannot
be the same one. `KeptInv`: every key in a row, an upload, a copy or a page that may
upload it is in a downloaded file or in `crossed`. `FreshInv`: after an upload that
no other one crossed a single key is active (`OneActive`), since an upload finds
every row that is active when it commits (`UploadsFindAll`); what was looked up
since is that key (`CopiesCurrent`), so two that were looked up between the same
uploads agree (`CopiesAgree`); the worker's copy carries the time it was made.

`ComposeProofs` proves, under `ComposeAssumption` (finitely many calls at one time,
at least one; any budget, limit of the queue and number of lost answers):

| Theorem | States |
|---|---|
| `ComposeTypes` | `Spec => [](DraftTypes /\ NetTypes /\ RowsExist /\ MailTypes)`: the types, and every row the page holds was inserted |
| `ToldAlwaysTrue` | `Spec => []ToldIsTrue` |
| `NoCopyForFree` | `Spec => []OnceUnlessLost` |
| `DepthStaysNear` | `Spec => []DepthNearLimit` |
| `SavedIsStored` | `Spec => []SavedTextIsStored` |

Drafts and mails share only the page, so `IInv` has two halves, and a step of one
half leaves the other's invariant alone.

- `Calls` says who waits for what: the page for one call, the worker for one, both
  for a mail they still have; an answer "ok" on its way means that the job is there.
  `ToldIsTrue` needs the last, and that what the worker has yet to treat is in the
  queue.
- `OnceInv` is an account. `Charge[m]` is the jobs of a mail and the calls at work on
  it; every one beyond the first is paid for by a lost answer. A mail that is `Spare`
  (not sent, refused, or its client about to call) is charged one less, which is what
  lets the next call open. `OnceUnlessLost` alone is not inductive: it says nothing of
  a call that has yet to add its job.
- `DepthInv` counts the calls that have passed the check of the depth and not added
  their job: each of them will, so the depth and they together stay below the limit
  plus the calls there can be.
- `StoredInv` starts where `SavedTextIsStored` does not look yet, when the answer to
  a save is on its way and the page still says "saving"; `BodiesInv` says that a
  pending auto-save that was not held back carries the page's last text. A PUT that
  is not stray, or brings no body, leaves a kept row kept (`KeptByPut`, also for its
  first half, `DraftStoreHalf`); any other sets `older`.

and, under `SendLimitAssumption` (finitely many requests; the limit a number, the
window at least a tick):

| Theorem | States |
|---|---|
| `LimiterTypeCorrect` | `LimiterSpec => []LimiterTypes` |
| `WindowAlwaysSlides` | `LimiterSpec => []SlidingWindow` |

`SetInv`: a counted request is in the sorted set until a window has passed since it
began, and the key lives as long as its members. So the count of a request is no
smaller than what passed in its window (`Through` is a subset of the set), and no
larger than what stands against it (`Against` contains the set); `Fewer` compares
the cardinalities.

`EncryptionProofs` proves of `Ratchet`, under `RatchetAssumption` (the cache holds at least one key;
any number of messages):

| Theorem | States |
|---|---|
| `RatchetInvariance` | `RatchetSpec => []RatchetInv` |
| `ForgottenOnceOpened` | `RatchetSpec => []OpenedIsForgotten` |
| `LateAlwaysOpens` | `RatchetSpec => []LateMessageOpens` |

Neither property is inductive: both speak of keys, and which key a chain or an entry
of the cache has depends on everything that went into the root before. `RatchetInv`
numbers the key pairs in the order in which the two sides take them up. `Root(h, n)`
is then the root after n of them, a session is determined by its turn and four
counters (`SideOk`), and a message by the turn it was sent in (`Age`) and its number.
`MessagesOk` and `SenderOk` say that a side numbers its messages without a gap on
each chain and that `previous` is the length of the chain before; `InStep`, that
a receiver is at most one turn ahead of what the other side sends. `CacheOk` accounts
for every message that the receiver's chain has gone over (`Past`): it was read, or its
entry is in the cache, or more than `MaxSkippedKeys` later ones were sent. The last case
is where the order counts: the cache drops its first entry, and `Spread` says that
entries lie at least as far apart in the sender's order as in the cache, also across
a turn. A message that the chain has not gone over opens because `CaughtUp` brings
the chain to exactly its key (`CatchUp`); one that it has gone over and that is not
in the cache does not open (`OldFails`), which is why a repeated one is refused.

`ImapProofs` proves, under `ImapAssumption` (finitely many connections, whatever their
clients send, except that STORE and COPY name messages; any bound of the UIDs):

| Theorem | States |
|---|---|
| `ImapInvariance` | `Spec => []ImapInv` |
| `ImapNumbers` | `Spec => []NumbersAreTrue` |
| `ImapMeant` | `Spec => []OnlyMeantIsGone` |
| `ImapIdle` | `Spec => []SubscribedWhileIdle` |

Only the connection that takes a step changes what is its own (`OthersKept`); what the
others see of it is that no mailbox goes back in its UIDs and that they are stale once
a row of theirs is gone (`Unharmed`). What is left is the connection at work:

- `NumbersOK` looks into the handler. What it has listed is a beginning of the rows
  (`BeginsWith`), because a new row takes a UID above all others; so numbers told from
  an old listing are still right when the answer arrives. Within an EXPUNGE the
  numbers are those of the rows and of the messages the client has yet to be told of,
  and since the last of these is told first, the number in each answer is the one
  that message has at the client then (`ForgetRight`). While the counters are written
  the rows are gone and nobody was told: `ImapInv` carries the listing over that await,
  to the answers or to a rejection, which makes the client stale.
- `MeantOK` follows a STORE from the client to the row. When it is sent it names
  messages to its client; when the mailbox is listed these are the ones the server
  will find, since right numbers name one message each (`NumberNames`); the flags that
  a STORE, an EXPUNGE or a COPY works with are from its own listing, hence `flagged`.
- `IdleOK` needs the lines that wait: as long as a client keeps to DONE, each IDLE in
  the queue is followed by it, so no line is worked off while the connection idles.

The proof of `ImapNumbers` first failed, at a FETCH or SEARCH after a removal on the
web: a client that used what it knew from before that answer would be wrong. The
model now says that it does not, and a scenario of `MCImap` sends that FETCH.

`ClientProofs` proves, under `MailClientAssumption` (no mail is destroyed before a
scenario begins, and its tabs show pages of system folders) and, of the settings,
for any tabs and courses:

| Theorem | States |
|---|---|
| `OnePressSpares` | `Spec => []OnePressNeverDestroys` |
| `NothingLeftOver` | `Spec => []NoLeftovers` |
| `ShownAlwaysStored` | `Settings!Spec => []ShownIsStored` |
| `NeighboursAlwaysKept` | `Settings!Spec => NeighboursKept` |
| `ClientSafety` | all four, of `MCSpec`, which the run checks |

The three parts have an invariant each, checked by TLC before the proof.

- `PressInv` counts the calls that may still bring a mail nearer to its end
  (`Blows`): a DELETE, or a move to the trash, until it is written. There are
  never more of them than presses meant it, and fewer by one while the mail lies in
  the trash, since what brought it there was meant too. A handler's DELETE that found
  the mail in the trash (`Lethal`) will destroy it wherever it is by then, so
  two presses must have meant it when it looked, not when it writes. Answers, losses
  and reloads only drop calls or take their tab from them (`CallsGoOn`), and a call
  that is dropped brings nothing nearer (`MadeOf`).
- `FoldersInv` says why a made-up folder goes: where one is shown, the folders are
  being asked for or a call of that tab on folders is under way, whose answer asks.
  No answer names one (`TrueList`), neither the server's nor the worker's copy;
  but a snapshot may, so a roll-back can bring back a folder of another call, and
  the invariant holds through it only because every roll-back asks as well.
- `SettingsInv` gives each answer, each save and the worker's copy the number of
  writes there were when it was read: it says what is stored, if the row was not
  written since (`Current`). A page that shows anything else although it heard of the
  last write still has a timer, a save or a notice (`ShowsOrOwes`).

`EncryptionProofs` proves of `Onboarding`, under `OnboardingAssumption` (the names for
nothing are no address, domain or bundle of keys) and for any number of visits to a
fresh server, by any number of users, addresses, domains and generations of keys:

| Theorem | States |
|---|---|
| `OnboardingSafety` | `WizardSpec => []OnboardingInv` |
| `KeyGateHolds` | `WizardSpec => []KeyGate` |
| `ClaimsHold` | `WizardSpec => []ClaimsAreTrue` |

Neither property is inductive, since a tab acts on what it once read: between the
reading and the press another tab may have made an account, configured a domain or
closed the registration. `OnboardingInv` has a part about the server and one about each
visit's page and requests (`WizardOK`).

- A bundle of keys belongs to the visit that made it (`Own`), and so do its file and
  the account made with it, which nobody makes twice or takes away (`Made`, `Grows`,
  `MadeGrows`); a domain counts only while this visit alone has configured it, the
  switch only for a sole administrator (`Sole`). So a step of one visit leaves the parts
  of all others (`OthersKeep`, `OtherPagesKeep`), and the rest of the proof has one visit.
- `InsertUser` is the step that needs care (`InsertUserKeeps`): what `CountUsers` read may
  be out of date, so the new account may be a second administrator, and then nothing
  is claimed of the switch of either.
- `RequestsOK` says of which step each request is. A visit that was reloaded stays at
  the page it had, with the requests of its step; certbot's and the switch's answers may
  also come to a later step.
- `KeyGate`: `KeysOK` takes a bundle from the step that makes it (no account has it
  yet) through the download to the account it becomes; `CreateOK` says that the
  confirmation is sent for that account and no other. `LuckyOK` is the second half: in
  a visit without faults an account with its keys exists only once the press at the ninth
  step made it, so no answer is ever "there is one already", and it is confirmed
  before the page moves on.
- `ClaimsAreTrue`: `DomainOK` says that what the certificate's step shows, its
  answers and a running certbot name the configured domain or none, and that a "yes"
  means a certificate. `SwitchOK` says that a sole administrator who lost no answer finds the
  registration open (`OpenKeeps`), and that the server has the value of a change exactly when its
  answer is good; otherwise page and server agree.

TLC checks `OnboardingInv` on the instance of `onboarding` too. The half of that run
that starts at the credentials with the domain configured is TLC's alone: the
theorems are about wizards that start at the beginning, which reach that step too.

`ServedInOrder`, `CompletedIsFinal`, `UidsBelowNext`, `NextOnlyGrows` and the type
invariants are proved and in no run. Only model-checked are `EveryMessageSettles`,
`AcceptedIsWorkedOff`, `PressIsSettled`, `LinesAreAnswered`, `ClosedLetsGo`,
`WindowEnds`, `ListCatchesUp` and `PressSettles` (liveness under fairness is out of
the prover's reach).

## 5. Findings

Two places where the code does not do what its text says, each with a run; the
lines are in `PROJECT.json`.

- `outbound_false_bounce`: a QUIT that is not answered with 221 throws after the
  MX has accepted the message, so a delivered message is sent again and in the
  end bounced.
- `keys_rotation_undone`: the passphrase change uploads again the key pair it has
  read; what it read may be from before a rotation, and then the replaced key is
  active again.

## 6. Plan

Done: the modules of section 2 and the proofs of section 4. Next:

1. The folders of `MailboxStore`: CREATE and DELETE beside overlapping calls.
2. An abstract mailbox that both `MailClient` and `ImapSession` implement.
3. Sequence sets and back-off delays against reference definitions.

## 7. Not modelled

Cryptographic primitives, key derivation and key files; the SMTP submission
server and the Haraka plugins other than the queue, which check, sign and enqueue
without state of their own; web push, which nothing waits for; DNS and TLS
helpers beyond their outcomes; the CSP report; rendering, texts and styles; the seed script. They compute or
display and keep no state that two actors share. Time is a step that may happen
at any point, or must happen where fairness says so; only `Access` and `SendLimit` count ticks.

What the models do and no property forbids, because the code does it:

- **Outbound**: a job failed by the stalled limit has no dead letter; `flags` turns
  from an array to an object when a user edits it, and an edit that read them before
  takes "delivered" off again; a silent MX holds the worker.
- **Inbound**: an error for one recipient is logged and swallowed, the job
  completes; recipients only in Cc or Bcc get nothing
  (`apps/server/haraka/plugins/queue/enclave_queue.js:52`).
- **Store**: moves that overlap write `uid_next` back and give a UID twice, or collide
  on the unique index; EXPUNGE writes a count from an older listing.
- **Compose**: a refused or failed send leaves its copy in Sent; Ctrl+Enter sends
  without the files not yet uploaded; a file whose save lost its callbacks to a later
  one waits for ever, and the Send button with it; half a PUT leaves new recipients over
  an old body; a timeout is not a network error and is not
  queued; kept items wait for the next sync; parallel auto-saves may make several
  drafts, a deleted draft answers 404 to each further save.
- **Limiter**: refused requests stay in the set, so a client that keeps trying stays
  refused; counted by when they were executed, more than `Max` may pass in a window,
  since a request may run after a later one has removed entries of its window;
  `Retry-After` is always a whole window.
- **IMAP**: a rejected query ends the chain, and the connection hangs; two CREATEs
  racing reject one; SELECT during IDLE keeps the pushes of the old mailbox;
  EXAMINE may write; STORE writes flags from its listing; the literal of APPEND is
  read as commands.
- **Access**: two devices logging in at once make one fail; disabling or deleting
  a user ends no session: the middleware refuses those of disabled users, and those
  of deleted ones only on the mail routes; `/auth/register` makes
  no administrator, mailboxes or keys.
- **Rate limit of the login**: an INCR whose EXPIRE never runs leaves a counter that
  refuses for ever.
- **Keys**: two uploads at once leave two active pairs; a tab unlocked from the worker's
  copy keeps the replaced key; old pairs are kept in the database and no route exports them; a
  rotation leaves the signed prekeys; a failed insert leaves part of the prekeys.
- **Ratchet**: a responder initialised with the peer's ratchet key could not read
  the first message; no caller does. The package is used by neither server nor client.
- **Mail pages**: PATCH of the flags would also set `deleted`
  (`server/api/routes/messages.ts:25-32`), which the web client never asks for; moves,
  deletes and flags do not ask for the folder counts again; the query cache is not keyed
  by user; deleting a folder deletes its mails.
- **Settings**: the shared timer drops all but the last choice, leaving within
  500 ms drops that too; saves that overlap lose a setting, and answers out of order
  leave an older choice on the screen; a failed save stays on the screen beside the error.
- **Onboarding**: two first accounts made at once are both administrators; a
  failed unlock leaves a button that spins; a `POST /setup/domain` from before a
  reload may land after the next one; an account whose confirmation failed stays unconfirmed: the mail
  routes refuse it, and no page sends it back to the confirmation.
