----------------------------- MODULE Onboarding -----------------------------
(***************************************************************************)
(* The onboarding wizard and the routes it calls: the server's domain, its *)
(* DNS records and certificate, then an account with freshly made keys,    *)
(* their backup file, the first login, the confirmation that opens the     *)
(* mail routes, and the registration switch.                               *)
(*                                                                         *)
(* Each wizard is one visit of a browser tab; several may be open before   *)
(* the first account exists.  A request is a call of a wizard: sent, let   *)
(* pass by the route's guard where the route reads again after it,         *)
(* answered.  It may fail before it is served, its answer may be lost, and *)
(* a reload ends the visit: the page is gone, the server works on what it  *)
(* was asked, and the user comes back with the files downloaded so far.    *)
(***************************************************************************)
EXTENDS Naturals, FiniteSets

CONSTANTS
    Wizards, Emails, Domains,
    Before,      \* pairs of visits of the same user, the earlier one first
    NoEmail, NoDomain, NoBundle,
    Unlucky,     \* bound: wizards with faults, each kind of fault once
    MaxGens      \* bound: key generations per wizard

ASSUME OnboardingAssumption ==
    /\ NoEmail \notin Emails
    /\ NoDomain \notin Domains
    /\ NoBundle \notin Wizards \X Nat
    /\ MaxGens \in Nat
    /\ Unlucky \subseteq Wizards
    /\ Before \subseteq Wizards \X Wizards

VARIABLES
    account,    \* users and user_keys: keys, key_export_confirmed, is_admin
    domain,     \* system_config 'domain'
    open,       \* system_config 'registration_enabled'
    certs,      \* domains with a certificate under /etc/letsencrypt/live
    page,       \* what each wizard keeps in its components, the last of a past visit
    call,       \* requests of each wizard, by route
    files,      \* backups each user has downloaded
    gens,       \* key generations of each wizard so far
    setter,     \* wizard that configured the domain last (history)
    mishaps     \* what went wrong in each visit (history), a reload ending it

install == <<account, domain, open, certs, setter>>
user == <<files, gens>>
wizardVars == <<install, page, call, user, mishaps>>

Ops == {"status", "domain", "records", "dns", "tlsStatus", "getDomain", "certbot",
        "create", "login", "confirm", "regRead", "regWrite", "mail"}

Inbox == 11   \* the page behind the wizard's ten steps

Configured == domain # NoDomain
HasCertificate(d) == d \in certs
Own(w) == {w} \X (1..gens[w])     \* the bundles made in visit w
NewKeys(w) == <<w, gens[w] + 1>>   \* random: never made before
HasUsers == \E e \in Emails : account[e].keys # NoBundle

NoCall == [at |-> "idle", got |-> "none", dom |-> NoDomain, yes |-> FALSE]
Sent == [NoCall EXCEPT !.at = "sent"]

BlankPage == [mode |-> "loading", step |-> 1, email |-> NoEmail, keys |-> NoBundle,
          started |-> FALSE, ready |-> {}, keyError |-> FALSE,
          downloaded |-> FALSE, ticked |-> FALSE, status |-> "idle",
          token |-> NoEmail, verified |-> FALSE, shown |-> NoDomain,
          tls |-> "loading", trigger |-> "idle", enabled |-> TRUE,
          mail |-> "loading"]

Over(w) == "reload" \in mishaps[w]

WizardInit ==
    /\ account = [e \in Emails |->
                    [keys |-> NoBundle, confirmed |-> FALSE, admin |-> FALSE]]
    /\ domain = NoDomain
    /\ open = TRUE
    /\ certs = {}
    /\ page = [w \in Wizards |-> BlankPage]
    /\ call = [w \in Wizards |-> [op \in Ops |-> NoCall]]
    /\ files = [w \in Wizards |-> {}]
    /\ gens = [w \in Wizards |-> 0]
    /\ setter = {}
    /\ mishaps = [w \in Wizards |-> {}]

-----------------------------------------------------------------------------
(* Requests that the page of a step makes when it is mounted.              *)
Mounts(s) ==
    CASE s = 2     -> {"records"}
      [] s = 3     -> {"dns"}
      [] s = 5     -> {"tlsStatus", "getDomain"}
      [] s = 10    -> {"regRead"}
      [] s = Inbox -> {"mail"}
      [] OTHER     -> {}

(* What the wizard itself keeps; the rest goes with the page of a step, and *)
(* all but the stored session when the browser leaves for the inbox.       *)
Kept(p, s) ==
    IF s = Inbox
    THEN [BlankPage EXCEPT !.mode = p.mode, !.token = p.token]
    ELSE [BlankPage EXCEPT !.mode = p.mode, !.email = p.email, !.keys = p.keys,
                       !.ready = p.ready, !.token = p.token]

(* Wizard w, with page p, goes to step s; the answers to done are used up. *)
GoTo(w, s, p, done) ==
    /\ page' = [page EXCEPT ![w] = [Kept(p, s) EXCEPT !.step = s]]
    /\ call' = [call EXCEPT ![w] =
                  [op \in Ops |-> IF op \in Mounts(s) THEN Sent
                                  ELSE IF op \in done THEN NoCall ELSE @[op]]]

Stay(w, p, done) ==
    /\ page' = [page EXCEPT ![w] = p]
    /\ call' = [call EXCEPT ![w] = [op \in Ops |-> IF op \in done THEN NoCall
                                                   ELSE @[op]]]

Ask(w, p, op, r) ==
    /\ page' = [page EXCEPT ![w] = p]
    /\ call' = [call EXCEPT ![w][op] = r]

Quiet(w, op) == call[w][op].at = "idle"
Answered(w, op) == call[w][op].at = "answered"
Good(w, op) == call[w][op].got = "ok"

OnStep(w, s) == page[w].step = s /\ page[w].mode # "loading" /\ ~Over(w)

(* The server answers route op of w.                                       *)
Reply(w, op, got, dom, yes) ==
    call' = [call EXCEPT ![w][op] =
                [at |-> "answered", got |-> got, dom |-> dom, yes |-> yes]]

Pass(w, op, dom) == call' = [call EXCEPT ![w][op].at = "passed", ![w][op].dom = dom]

-----------------------------------------------------------------------------
(***************************************************************************)
(* Opening the wizard: the server has users, or this is a fresh install.   *)
(***************************************************************************)

(* A user comes back when the last visit is over.                          *)
Open(w) ==
    /\ page[w].mode = "loading"
    /\ ~Over(w)
    /\ \A v \in Wizards : <<v, w>> \in Before => Over(v)
    /\ Quiet(w, "status")
    /\ Ask(w, page[w], "status", Sent)
    /\ UNCHANGED <<install, user, mishaps>>

ServeStatus(w) ==
    /\ call[w]["status"].at = "sent"
    /\ Reply(w, "status", "ok", NoDomain, HasUsers)
    /\ UNCHANGED <<install, page, user, mishaps>>

(* A check that fails counts as a fresh install.                           *)
Detected(w) ==
    LET existing == Good(w, "status") /\ call[w]["status"].yes IN
    /\ page[w].mode = "loading"
    /\ ~Over(w)
    /\ Answered(w, "status")
    /\ GoTo(w, IF existing THEN 6 ELSE 1,
            [page[w] EXCEPT !.mode = IF existing THEN "existing" ELSE "fresh"],
            {"status"})
    /\ UNCHANGED <<install, user, mishaps>>

-----------------------------------------------------------------------------
(***************************************************************************)
(* Steps 1 to 3: the domain, its records, their verification.              *)
(***************************************************************************)

SubmitDomain(w, d) ==
    /\ OnStep(w, 1)
    /\ Quiet(w, "domain")
    /\ Ask(w, page[w], "domain", [Sent EXCEPT !.dom = d])
    /\ UNCHANGED <<install, user, mishaps>>

(* Once there are users a session is asked for, and the wizard sends none. *)
GuardSetup(w, op) ==
    /\ op \in {"domain", "certbot"}
    /\ call[w][op].at = "sent"
    /\ IF HasUsers THEN Reply(w, op, "refused", NoDomain, FALSE)
                   ELSE Pass(w, op, call[w][op].dom)
    /\ UNCHANGED <<install, page, user, mishaps>>

StoreDomain(w) ==
    /\ call[w]["domain"].at = "passed"
    /\ domain' = call[w]["domain"].dom
    /\ setter' = {w}
    /\ Reply(w, "domain", "ok", domain', TRUE)
    /\ UNCHANGED <<account, open, certs, page, user, mishaps>>

DomainAnswered(w) ==
    /\ OnStep(w, 1)
    /\ Answered(w, "domain")
    /\ IF Good(w, "domain") THEN GoTo(w, 2, page[w], {"domain"})
                            ELSE Stay(w, page[w], {"domain"})
    /\ UNCHANGED <<install, user, mishaps>>

ServeRecords(w) ==
    /\ call[w]["records"].at = "sent"
    /\ Reply(w, "records", IF Configured THEN "ok" ELSE "refused", domain, TRUE)
    /\ UNCHANGED <<install, page, user, mishaps>>

RecordsAnswered(w) ==
    /\ OnStep(w, 2)
    /\ Answered(w, "records")
    /\ Stay(w, page[w], {"records"})
    /\ UNCHANGED <<install, user, mishaps>>

(* Loaded or not, the user may go on.                                      *)
LeaveRecords(w) ==
    /\ OnStep(w, 2)
    /\ Quiet(w, "records")
    /\ GoTo(w, 3, page[w], {})
    /\ UNCHANGED <<install, user, mishaps>>

ReadDnsDomain(w) ==
    /\ call[w]["dns"].at = "sent"
    /\ IF Configured THEN Pass(w, "dns", domain)
                     ELSE Reply(w, "dns", "refused", NoDomain, FALSE)
    /\ UNCHANGED <<install, page, user, mishaps>>

(* A lookup that times out or errs does not fail the check: that record    *)
(* has not passed.                                                         *)
CheckDns(w) ==
    LET d == call[w]["dns"].dom IN
    /\ call[w]["dns"].at = "passed"
    /\ \E all \in BOOLEAN : Reply(w, "dns", "ok", d, all)
    /\ UNCHANGED <<install, page, user, mishaps>>

DnsAnswered(w) ==
    /\ OnStep(w, 3)
    /\ Answered(w, "dns")
    /\ Stay(w, [page[w] EXCEPT !.verified = Good(w, "dns") /\ call[w]["dns"].yes],
            {"dns"})
    /\ UNCHANGED <<install, user, mishaps>>

CheckAgain(w) ==
    /\ OnStep(w, 3)
    /\ Quiet(w, "dns")
    /\ ~page[w].verified
    /\ Ask(w, page[w], "dns", Sent)
    /\ UNCHANGED <<install, user, mishaps>>

(* Continue when all passed, "Skip and continue" otherwise.                *)
LeaveDns(w) ==
    /\ OnStep(w, 3)
    /\ Quiet(w, "dns")
    /\ GoTo(w, 4, page[w], {})
    /\ UNCHANGED <<install, user, mishaps>>

LeaveFirewall(w) ==
    /\ OnStep(w, 4)
    /\ GoTo(w, 5, page[w], {})
    /\ UNCHANGED <<install, user, mishaps>>

-----------------------------------------------------------------------------
(***************************************************************************)
(* Step 5: the certificate of whatever domain is configured when asked.    *)
(***************************************************************************)

ServeTlsStatus(w) ==
    /\ call[w]["tlsStatus"].at = "sent"
    /\ Reply(w, "tlsStatus", "ok", domain, HasCertificate(domain))
    /\ UNCHANGED <<install, page, user, mishaps>>

ServeDomain(w) ==
    /\ call[w]["getDomain"].at = "sent"
    /\ Reply(w, "getDomain", "ok", domain, TRUE)
    /\ UNCHANGED <<install, page, user, mishaps>>

(* Both requests are awaited together, and one that throws fails both.     *)
TlsAnswered(w) ==
    LET tls == call[w]["tlsStatus"]
        dom == call[w]["getDomain"]
        lost == tls.got = "lost" \/ dom.got = "lost" IN
    /\ OnStep(w, 5)
    /\ Answered(w, "tlsStatus") /\ Answered(w, "getDomain")
    /\ Stay(w, [page[w] EXCEPT
                !.shown = IF lost THEN @
                          ELSE IF dom.got = "ok" /\ dom.dom # NoDomain THEN dom.dom
                          ELSE tls.dom,
                !.tls = IF ~lost /\ tls.got = "ok" /\ tls.yes THEN "cert" ELSE "none"],
            {"tlsStatus", "getDomain"})
    /\ UNCHANGED <<install, user, mishaps>>

TriggerCertbot(w) ==
    /\ OnStep(w, 5)
    /\ page[w].tls = "none"
    /\ page[w].trigger \in {"idle", "error"}
    /\ Quiet(w, "certbot")
    /\ Ask(w, [page[w] EXCEPT !.trigger = "running"], "certbot", Sent)
    /\ UNCHANGED <<install, user, mishaps>>

RunCertbot(w) ==
    /\ call[w]["certbot"].at = "passed"
    /\ IF Configured
       THEN call' = [call EXCEPT ![w]["certbot"].at = "running",
                                 ![w]["certbot"].dom = domain]
       ELSE Reply(w, "certbot", "refused", NoDomain, FALSE)
    /\ UNCHANGED <<install, page, user, mishaps>>

(* Mutation: the exit code is not looked at.                               *)
CertbotEndsWell(w) ==
    LET d == call[w]["certbot"].dom IN
    /\ call[w]["certbot"].at = "running"
    /\ \E issued \in BOOLEAN :
          certs' = IF issued THEN certs \cup {d} ELSE certs
    /\ Reply(w, "certbot", "ok", d, TRUE)
    /\ UNCHANGED <<account, domain, open, setter, page, user, mishaps>>

(* certbot exits: with the certificate, or with an error.                  *)
CertbotEnds(w) ==
    LET d == call[w]["certbot"].dom IN
    /\ call[w]["certbot"].at = "running"
    /\ \E issued \in BOOLEAN :
          /\ certs' = IF issued THEN certs \cup {d} ELSE certs
          /\ Reply(w, "certbot", "ok", d, issued)
    /\ UNCHANGED <<account, domain, open, setter, page, user, mishaps>>

(* Mutation: certbot is awaited for as long as it runs.                    *)
NoTimeLimit(w) == FALSE /\ UNCHANGED wizardVars

(* After 60 seconds certbot is killed, whether or not it had the           *)
(* certificate by then.                                                    *)
KillCertbot(w) ==
    LET d == call[w]["certbot"].dom IN
    /\ call[w]["certbot"].at = "running"
    /\ certs' \in {certs, certs \cup {d}}
    /\ Reply(w, "certbot", "ok", d, FALSE)
    /\ UNCHANGED <<account, domain, open, setter, page, user, mishaps>>

CertbotAnswered(w) ==
    LET ok == Good(w, "certbot") /\ call[w]["certbot"].yes IN
    /\ OnStep(w, 5)
    /\ Answered(w, "certbot")
    /\ Stay(w, [page[w] EXCEPT !.trigger = IF ok THEN "success" ELSE "error"],
            {"certbot"})
    /\ UNCHANGED <<install, user, mishaps>>

(* Continue with a certificate, "Skip for now" without, even while certbot *)
(* runs.                                                                   *)
LeaveTls(w) ==
    /\ OnStep(w, 5)
    /\ page[w].tls # "loading"
    /\ GoTo(w, 6, page[w], {})
    /\ UNCHANGED <<install, user, mishaps>>

-----------------------------------------------------------------------------
(***************************************************************************)
(* Steps 6 to 8: passphrase, keys, backup.                                 *)
(***************************************************************************)

(* The form is submitted with a valid address and a strong passphrase that *)
(* was typed twice.                                                        *)
SubmitCredentials(w, e) ==
    /\ OnStep(w, 6)
    /\ GoTo(w, 7, [page[w] EXCEPT !.email = e], {})
    /\ UNCHANGED <<install, user, mishaps>>

(* Mutation: the effect generates again when it runs again.                *)
GenerateAgain(w) ==
    /\ OnStep(w, 7)
    /\ ~page[w].keyError
    /\ gens[w] < MaxGens
    /\ gens' = [gens EXCEPT ![w] = @ + 1]
    /\ Stay(w, [page[w] EXCEPT !.started = TRUE, !.ready = @ \cup {NewKeys(w)}], {})
    /\ UNCHANGED <<install, files, mishaps>>

(* The mounted page generates new random keys, once; a timer then hands    *)
(* them to the wizard.                                                     *)
Generate(w) ==
    /\ OnStep(w, 7)
    /\ ~page[w].keyError
    /\ ~page[w].started
    /\ gens[w] < MaxGens
    /\ gens' = [gens EXCEPT ![w] = @ + 1]
    /\ Stay(w, [page[w] EXCEPT !.started = TRUE, !.ready = @ \cup {NewKeys(w)}], {})
    /\ UNCHANGED <<install, files, mishaps>>

KeysFail(w) ==
    /\ OnStep(w, 7)
    /\ ~page[w].started
    /\ Stay(w, [page[w] EXCEPT !.started = TRUE, !.keyError = TRUE], {})
    /\ UNCHANGED <<install, user, mishaps>>

RetryKeys(w) ==
    /\ OnStep(w, 7)
    /\ page[w].keyError
    /\ GoTo(w, 6, page[w], {})
    /\ UNCHANGED <<install, user, mishaps>>

(* The backup page is mounted anew unless it is the one on show.           *)
KeysReady(w, b) ==
    LET p == [page[w] EXCEPT !.ready = @ \ {b}, !.keys = b] IN
    /\ ~Over(w)
    /\ b \in page[w].ready
    /\ page' = [page EXCEPT ![w] =
                  IF p.step = 8 THEN p ELSE [Kept(p, 8) EXCEPT !.step = 8]]
    /\ UNCHANGED <<install, call, user, mishaps>>

Download(w) ==
    /\ OnStep(w, 8)
    /\ files' = [files EXCEPT ![w] = @ \cup {page[w].keys}]
    /\ Stay(w, [page[w] EXCEPT !.downloaded = TRUE], {})
    /\ UNCHANGED <<install, gens, mishaps>>

Tick(w) ==
    /\ OnStep(w, 8)
    /\ page[w].downloaded
    /\ Stay(w, [page[w] EXCEPT !.ticked = ~@], {})
    /\ UNCHANGED <<install, user, mishaps>>

LeaveBackup(w) ==
    /\ OnStep(w, 8)
    /\ page[w].downloaded /\ page[w].ticked
    /\ GoTo(w, 9, page[w], {})
    /\ UNCHANGED <<install, user, mishaps>>

-----------------------------------------------------------------------------
(***************************************************************************)
(* Step 9: the account, the first login, and the confirmation of the       *)
(* backup, three requests of one press.                                    *)
(***************************************************************************)

PressCreate(w) ==
    /\ OnStep(w, 9)
    /\ page[w].status \in {"idle", "error", "taken"}
    /\ Ask(w, [page[w] EXCEPT !.status = "creating"], "create", Sent)
    /\ UNCHANGED <<install, user, mishaps>>

CheckOpen(w) ==
    /\ call[w]["create"].at = "sent"
    /\ IF open THEN Pass(w, "create", NoDomain)
               ELSE Reply(w, "create", "refused", NoDomain, FALSE)
    /\ UNCHANGED <<install, page, user, mishaps>>

(* createAccount(): the address is looked up, the users are counted, and   *)
(* the row is inserted.  Between these awaits others do the same.          *)
FindEmail(w) ==
    /\ call[w]["create"].at = "passed"
    /\ IF account[page[w].email].keys = NoBundle
       THEN call' = [call EXCEPT ![w]["create"].at = "free"]
       ELSE Reply(w, "create", "taken", NoDomain, FALSE)
    /\ UNCHANGED <<install, page, user, mishaps>>

CountUsers(w) ==
    /\ call[w]["create"].at = "free"
    /\ call' = [call EXCEPT ![w]["create"].at = IF HasUsers THEN "later" ELSE "first"]
    /\ UNCHANGED <<install, page, user, mishaps>>

(* The address may have been taken meanwhile: then the insert fails.       *)
InsertUser(w) ==
    LET p == page[w] IN
    /\ call[w]["create"].at \in {"first", "later"}
    /\ IF account[p.email].keys = NoBundle
       THEN /\ account' = [account EXCEPT ![p.email] =
                              [keys |-> p.keys, confirmed |-> FALSE,
                               admin |-> call[w]["create"].at = "first"]]
            /\ Reply(w, "create", "ok", NoDomain, TRUE)
       ELSE /\ Reply(w, "create", "refused", NoDomain, FALSE)
            /\ UNCHANGED account
    /\ UNCHANGED <<domain, open, certs, setter, page, user, mishaps>>

CreateAnswered(w) ==
    /\ OnStep(w, 9)
    /\ Answered(w, "create")
    /\ IF Good(w, "create")
       THEN /\ call' = [call EXCEPT ![w]["create"] = NoCall, ![w]["login"] = Sent]
            /\ UNCHANGED page
       ELSE Stay(w, [page[w] EXCEPT !.status =
                        IF call[w]["create"].got = "taken" THEN "taken" ELSE "error"],
                {"create"})
    /\ UNCHANGED <<install, user, mishaps>>

(* The verifier was made with the keys, from the same passphrase.          *)
ServeLogin(w) ==
    /\ call[w]["login"].at = "sent"
    /\ Reply(w, "login",
             IF account[page[w].email].keys = page[w].keys THEN "ok" ELSE "refused",
             NoDomain, TRUE)
    /\ UNCHANGED <<install, page, user, mishaps>>

LoginAnswered(w) ==
    /\ OnStep(w, 9)
    /\ Answered(w, "login")
    /\ IF Good(w, "login")
       THEN /\ call' = [call EXCEPT ![w]["login"] = NoCall, ![w]["confirm"] = Sent]
            /\ page' = [page EXCEPT ![w].token = page[w].email]
       ELSE Stay(w, [page[w] EXCEPT !.status = "error"], {"login"})
    /\ UNCHANGED <<install, user, mishaps>>

ConfirmKeyExport(w) ==
    /\ call[w]["confirm"].at = "sent"
    /\ account' = [account EXCEPT ![page[w].token].confirmed = TRUE]
    /\ Reply(w, "confirm", "ok", NoDomain, TRUE)
    /\ UNCHANGED <<domain, open, certs, setter, page, user, mishaps>>

(* Only a request that throws stops here: the answer is not looked at.     *)
ConfirmAnswered(w) ==
    /\ OnStep(w, 9)
    /\ Answered(w, "confirm")
    /\ Stay(w, [page[w] EXCEPT
                !.status = IF call[w]["confirm"].got = "lost" THEN "error" ELSE "unlocking"],
            {"confirm"})
    /\ UNCHANGED <<install, user, mishaps>>

(* The session key is derived; a fresh install ends with the switch, any   *)
(* other at the inbox.                                                     *)
ConfirmComplete(w) ==
    /\ OnStep(w, 9)
    /\ page[w].status = "unlocking"
    /\ GoTo(w, IF page[w].mode = "fresh" THEN 10 ELSE Inbox, page[w], {})
    /\ UNCHANGED <<install, user, mishaps>>

(* "Account created, but key unlock failed": the button stays disabled.    *)
UnlockFails(w) ==
    /\ OnStep(w, 9)
    /\ page[w].status = "unlocking"
    /\ Stay(w, [page[w] EXCEPT !.status = "locked"], {})
    /\ UNCHANGED <<install, user, mishaps>>

(* The visits of w's user so far.                                          *)
Visits(w) == {w} \cup {v \in Wizards : <<v, w>> \in Before /\ Over(v)}

(* The login page, for an account this user made before.                   *)
SignIn(w) ==
    /\ \/ OnStep(w, 6)
       \/ OnStep(w, 9) /\ page[w].status \in {"taken", "locked"}
    /\ \E e \in Emails :
          /\ \E v \in Visits(w) : account[e].keys \in Own(v)
          /\ GoTo(w, Inbox, [page[w] EXCEPT !.token = e], {})
    /\ UNCHANGED <<install, user, mishaps>>

-----------------------------------------------------------------------------
(***************************************************************************)
(* Step 10: may others register?                                           *)
(***************************************************************************)

ServeRegistration(w) ==
    /\ call[w]["regRead"].at = "sent"
    /\ Reply(w, "regRead", "ok", NoDomain, open)
    /\ UNCHANGED <<install, page, user, mishaps>>

RegistrationAnswered(w) ==
    /\ OnStep(w, 10)
    /\ Answered(w, "regRead")
    /\ Stay(w, [page[w] EXCEPT !.enabled = IF Good(w, "regRead")
                                           THEN call[w]["regRead"].yes ELSE @],
            {"regRead"})
    /\ UNCHANGED <<install, user, mishaps>>

(* The switch shows the new value at once.                                 *)
Toggle(w) ==
    /\ OnStep(w, 10)
    /\ Quiet(w, "regRead") /\ Quiet(w, "regWrite")
    /\ Ask(w, [page[w] EXCEPT !.enabled = ~@], "regWrite",
           [Sent EXCEPT !.yes = ~page[w].enabled])
    /\ UNCHANGED <<install, user, mishaps>>

ServeToggle(w) ==
    LET new == call[w]["regWrite"].yes IN
    /\ call[w]["regWrite"].at = "sent"
    /\ IF account[page[w].token].admin
       THEN open' = new /\ Reply(w, "regWrite", "ok", NoDomain, new)
       ELSE Reply(w, "regWrite", "refused", NoDomain, new) /\ UNCHANGED open
    /\ UNCHANGED <<account, domain, certs, setter, page, user, mishaps>>

ToggleAnswered(w) ==
    LET new == call[w]["regWrite"].yes IN
    /\ OnStep(w, 10)
    /\ Answered(w, "regWrite")
    /\ Stay(w, [page[w] EXCEPT !.enabled = IF Good(w, "regWrite") THEN new ELSE ~new],
            {"regWrite"})
    /\ UNCHANGED <<install, user, mishaps>>

FinishSetup(w) ==
    /\ OnStep(w, 10)
    /\ Quiet(w, "regRead")
    /\ GoTo(w, Inbox, page[w], {})
    /\ UNCHANGED <<install, user, mishaps>>

(* The mail routes ask for a confirmed backup.                             *)
RequireKeyExport(w) ==
    /\ call[w]["mail"].at = "sent"
    /\ Reply(w, "mail", IF account[page[w].token].confirmed THEN "ok" ELSE "refused",
             NoDomain, TRUE)
    /\ UNCHANGED <<install, page, user, mishaps>>

MailAnswered(w) ==
    /\ OnStep(w, Inbox)
    /\ Answered(w, "mail")
    /\ Stay(w, [page[w] EXCEPT !.mail = call[w]["mail"].got], {"mail"})
    /\ UNCHANGED <<install, user, mishaps>>

-----------------------------------------------------------------------------
(***************************************************************************)
(* Faults.                                                                 *)
(***************************************************************************)

Suffers(w, kind) ==
    /\ w \in Unlucky
    /\ kind \notin mishaps[w]
    /\ mishaps' = [mishaps EXCEPT ![w] = @ \cup {kind}]

(* Nothing is done: the connection is refused, or the route errs.          *)
CallFails(w, op) ==
    /\ call[w][op].at \notin {"idle", "running", "answered"}
    /\ \E got \in {"refused", "lost"} :
          Reply(w, op, got, NoDomain, call[w][op].yes)
    /\ Suffers(w, "failed")
    /\ UNCHANGED <<install, page, user>>

(* It is done, and the page does not hear of it.                           *)
AnswerLost(w, op) ==
    /\ ~Over(w)
    /\ Answered(w, op) /\ Good(w, op)
    /\ call' = [call EXCEPT ![w][op].got = "lost"]
    /\ Suffers(w, "lost")
    /\ UNCHANGED <<install, page, user>>

(* The page and what it waits for are gone, what the server was asked is   *)
(* not; the next visit is another wizard.                                  *)
Reload(w) ==
    /\ page[w].step # Inbox
    /\ Suffers(w, "reload")
    /\ UNCHANGED <<install, page, call, user>>

(* The page that asked is no longer shown.                                 *)
StepOf(op) ==
    CASE op = "certbot" -> 5 [] op = "regWrite" -> 10 [] OTHER -> 0

DropAnswer(w, op) ==
    /\ op \in {"certbot", "regWrite"}
    /\ ~Over(w)
    /\ Answered(w, op)
    /\ page[w].step # StepOf(op)
    /\ Stay(w, page[w], {op})
    /\ UNCHANGED <<install, user, mishaps>>

-----------------------------------------------------------------------------
Press(w) ==
    \/ Open(w) \/ \E d \in Domains : SubmitDomain(w, d)
    \/ LeaveRecords(w) \/ CheckAgain(w) \/ LeaveDns(w) \/ LeaveFirewall(w)
    \/ TriggerCertbot(w) \/ LeaveTls(w)
    \/ \E e \in Emails : SubmitCredentials(w, e)
    \/ RetryKeys(w) \/ Download(w) \/ Tick(w) \/ LeaveBackup(w)
    \/ PressCreate(w) \/ SignIn(w) \/ Toggle(w) \/ FinishSetup(w)

CertbotStep(w) ==
    GuardSetup(w, "certbot") \/ RunCertbot(w) \/ KillCertbot(w) \/ CertbotAnswered(w)
    \/ DropAnswer(w, "certbot")

Serve(w) ==
    \/ ServeStatus(w) \/ GuardSetup(w, "domain") \/ StoreDomain(w)
    \/ ServeRecords(w) \/ ReadDnsDomain(w) \/ CheckDns(w)
    \/ ServeTlsStatus(w) \/ ServeDomain(w)
    \/ CheckOpen(w) \/ FindEmail(w) \/ CountUsers(w) \/ InsertUser(w)
    \/ ServeLogin(w) \/ ConfirmKeyExport(w)
    \/ ServeRegistration(w) \/ ServeToggle(w) \/ RequireKeyExport(w)

Continue(w) ==
    \/ Detected(w) \/ DomainAnswered(w) \/ RecordsAnswered(w)
    \/ DnsAnswered(w) \/ TlsAnswered(w)
    \/ CreateAnswered(w) \/ LoginAnswered(w) \/ ConfirmAnswered(w)
    \/ RegistrationAnswered(w) \/ ToggleAnswered(w) \/ MailAnswered(w)
    \/ DropAnswer(w, "regWrite")

MakeKeys(w) ==
    Generate(w) \/ KeysFail(w) \/ (\E b \in page[w].ready : KeysReady(w, b))
    \/ ConfirmComplete(w) \/ UnlockFails(w)

Mishap(w) ==
    CertbotEnds(w) \/ Reload(w) \/ \E op \in Ops : CallFails(w, op) \/ AnswerLost(w, op)

WizardNext ==
    \E w \in Wizards :
        Press(w) \/ CertbotStep(w) \/ Serve(w) \/ Continue(w) \/ MakeKeys(w) \/ Mishap(w)

(* Requests are served, answers worked on and keys made; certbot need not  *)
(* end by itself, and no user need press anything.                         *)
Fairness ==
    \A w \in Wizards :
        /\ WF_wizardVars(CertbotStep(w))
        /\ WF_wizardVars(Serve(w) \/ Continue(w) \/ MakeKeys(w))

WizardSpec == WizardInit /\ [][WizardNext]_wizardVars
FairWizardSpec == WizardSpec /\ Fairness

-----------------------------------------------------------------------------
(***************************************************************************)
(* Properties.                                                             *)
(***************************************************************************)

(* The flag key_export_confirmed, which opens the mail routes, stands for  *)
(* a backup: the very keys of the account are in a file its user has       *)
(* downloaded.  And who arrives at the inbox is let in, unless something   *)
(* went wrong in the visit that made the account.                          *)
KeyGate ==
    /\ \A e \in Emails :
          account[e].confirmed => \E w \in Wizards : account[e].keys \in files[w]
    /\ \A w \in Wizards : page[w].mail = "refused" =>
          \E v \in Wizards : account[page[w].token].keys \in Own(v) /\ mishaps[v] # {}

Sole(e) == \A f \in Emails : account[f].admin => f = e

(* What a page claims is so: a certificate for the domain it names, while  *)
(* no other visit configured one since (a request of an earlier visit of   *)
(* the tab may land that late); the administrator's switch shows whether   *)
(* registration is open, unless an answer was lost or there is a second    *)
(* administrator, which two first accounts made at once may both become.   *)
ClaimsAreTrue ==
    /\ \A w \in Wizards :
          /\ OnStep(w, 5)
          /\ page[w].tls = "cert" \/ page[w].trigger = "success"
          /\ setter = {w}
          => page[w].shown \in certs \cup {NoDomain}
    /\ \A w \in Wizards :
          /\ OnStep(w, 10)
          /\ Quiet(w, "regRead") /\ Quiet(w, "regWrite")
          /\ account[page[w].token].admin /\ Sole(page[w].token)
          /\ "lost" \notin mishaps[w]
          => page[w].enabled = open

(* The page is busy: a request, the keys, or the button of step 9.         *)
Spinning(w) ==
    /\ ~Over(w)
    /\ \/ \E op \in Ops : ~Quiet(w, op)
       \/ page[w].status \in {"creating", "unlocking"}
       \/ page[w].step = 7 /\ ~page[w].keyError

(* What spins comes to its end: whatever fails, although certbot may hang, *)
(* a press and the making of the keys end in a page that can be used.  But *)
(* for one: when the session key of the new account cannot be derived      *)
(* ("locked"), the wizard says so, and its button spins for ever.          *)
PressSettles == \A w \in Wizards : Spinning(w) ~> ~Spinning(w)
=============================================================================
