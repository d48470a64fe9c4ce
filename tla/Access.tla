------------------------------- MODULE Access -------------------------------
(* Accounts, logins, sessions and the administration of users.  A flow is   *)
(* one thing a person does: it opens an account, logs in, logs out, ends    *)
(* all sessions of a user, follows or asks for a verification link, or      *)
(* administers another user.  Between two awaits of a flow any other flow   *)
(* may run, a key of the Redis server may expire, a call may fail or the    *)
(* server may die.                                                          *)
(*                                                                          *)
(* A flow that succeeds in creating a session owns the session token of the *)
(* flow's own name.                                                         *)
EXTENDS Naturals, FiniteSets

CONSTANTS Flows, Users, None,
          Max,         \* requests let through per window and address
          SessionTtl,  \* life of a session and of the index of sessions, in ticks
          Scenarios    \* what the flows do: [flows, users, before, faults, ticks]

\* A row of users; in: there is one, link: the verification link it waits for
Rows == [in : BOOLEAN, admin : BOOLEAN, off : BOOLEAN, verified : BOOLEAN, link : Flows \cup {None}]
\* What a flow can be
Ops == {"create", "register", "login", "logout", "logoutAll", "admin", "resend", "verify", "none"}

ASSUME AccessAssumption ==
    /\ Max \in Nat \ {0} /\ SessionTtl \in Nat \ {0}
    /\ None \notin Flows
    /\ \A s \in Scenarios :
          /\ \A f \in Flows : /\ s.flows[f].op \in Ops /\ s.flows[f].user \in Users
                             /\ s.flows[f].as \in Flows \cup {None}
          /\ s.users \in [Users -> Rows] /\ s.before \subseteq Flows
          /\ s.faults \in Nat /\ s.ticks \in BOOLEAN

Forever == SessionTtl + 1  \* a key of Redis that has no expiry yet

VARIABLES
    kind,      \* what each flow does: [op, user, as, arg, right]
    faults,    \* failures still to come
    ticks,     \* the clock ticks in this scenario
    at,        \* the next step of a flow, or how it ended
    mem,       \* what it remembers between its steps
    open,      \* system_config.registration_enabled
    user,      \* the rows of users
    mailed,    \* verification links that were mailed
    session,   \* session:<hash>: ticks to live, 0 when there is none
    index,     \* user-sessions:<id>: the sessions it lists
    indexLeft, \* ticks the index has to live
    srp,       \* srp:<email>: the login that stored it, and its ticks
    hits,      \* rl:auth:<ip>: requests counted in this window
    hitsLeft,  \* ticks the counter has to live
    seen       \* what happened, for the properties: [met, missed, stale, lost]

work == <<kind, ticks, open, user, mailed>>
redis == <<session, index, indexLeft, srp>>
vars == <<kind, faults, ticks, at, mem, open, user, mailed, session, index, indexLeft,
          srp, hits, hitsLeft, seen>>

Ended == {"done", "refused", "limited", "failed", "gone"}
Absent == [in |-> FALSE, admin |-> FALSE, off |-> FALSE, verified |-> FALSE, link |-> None]
NoState == [by |-> None, left |-> 0]
Blank == [flag |-> FALSE, then |-> "", read |-> {}, due |-> {}]

Op(f) == kind[f].op
Own(f) == kind[f].user     \* the account the flow is about
As(f) == kind[f].as       \* the flow whose session it uses, or waits for
IsAdmin(u) == user[u].in /\ user[u].admin /\ ~user[u].off

(***************************************************************************)
(* Steps                                                                   *)
(***************************************************************************)
Step(f, p, q) == at[f] = p /\ at' = [at EXCEPT ![f] = q]
Keep(f, m) == mem' = [mem EXCEPT ![f] = m]

Entry == [create |-> "open", register |-> "email", login |-> "incr", logout |-> "get",
          logoutAll |-> "members", admin |-> "session", resend |-> "session",
          verify |-> "match", none |-> "gone"]

Init ==
    /\ \E s \in Scenarios :
          /\ kind = s.flows
          /\ faults = s.faults
          /\ user = s.users
          /\ ticks = s.ticks
          /\ at = [f \in Flows |-> IF f \in s.before THEN "done" ELSE "idle"]
          /\ session = [f \in Flows |-> IF f \in s.before THEN SessionTtl ELSE 0]
          /\ index = [u \in Users |-> {f \in s.before : s.flows[f].user = u}]
    /\ open = TRUE
    /\ mailed = [u \in Users |-> {user[u].link} \ {None}]
    /\ mem = [f \in Flows |-> Blank]
    /\ indexLeft = [u \in Users |-> IF index[u] = {} THEN 0 ELSE SessionTtl]
    /\ srp = [u \in Users |-> NoState]
    /\ hits = 0 /\ hitsLeft = 0
    /\ seen = [met |-> {}, missed |-> {}, stale |-> FALSE, lost |-> FALSE]

(* The person acts; a session is used once its token has been handed out.  *)
(* A log-out of all devices is owed every session handed out before it.    *)
HandedOut(u) == {g \in Flows : Op(g) \in {"create", "login"} /\ Own(g) = u /\ at[g] = "done"}
Press(f, ops) ==
    /\ Op(f) \in ops
    /\ As(f) # None => at[As(f)] \in {"done", "gone"}
    /\ Step(f, "idle", Entry[Op(f)])
    /\ Keep(f, [Blank EXCEPT !.then = "find", !.due = HandedOut(Own(f))])
    /\ UNCHANGED <<work, faults, redis, hits, hitsLeft, seen>>

CreateAccount(f) == Press(f, {"create"})
SignIn(f) == Press(f, {"login"})
ManageUsers(f) == Press(f, {"admin"})
Begin(f) == Press(f, {"register", "logout", "logoutAll", "resend", "verify", "none"})

(***************************************************************************)
(* Opening an account                                                      *)
(***************************************************************************)
CheckOpen(f) ==
    /\ Step(f, "open", IF open THEN "email" ELSE "refused")
    /\ UNCHANGED <<work, faults, redis, hits, hitsLeft, seen, mem>>

CheckEmail(f) ==
    /\ Step(f, "email", IF user[Own(f)].in THEN "refused"
                        ELSE IF Op(f) = "create" THEN "count" ELSE "insert")
    /\ UNCHANGED <<work, faults, redis, hits, hitsLeft, seen, mem>>

(* The first statement of the transaction counts the users.                *)
CountUsers(f) ==
    /\ Step(f, "count", "insert")
    /\ Keep(f, [mem[f] EXCEPT !.flag = \A u \in Users : ~user[u].in])
    /\ UNCHANGED <<work, faults, redis, hits, hitsLeft, seen>>

(* The row is inserted and the transaction commits, unless the address was *)
(* taken meanwhile.                                                        *)
Insert(f) ==
    /\ Step(f, "insert", IF user[Own(f)].in THEN "failed"
                         ELSE IF Op(f) = "create" THEN "set" ELSE "mail")
    /\ user' = IF user[Own(f)].in THEN user
               ELSE [user EXCEPT ![Own(f)] =
                       [Absent EXCEPT !.in = TRUE, !.admin = mem[f].flag,
                          !.link = IF Op(f) = "register" THEN f ELSE None]]
    /\ UNCHANGED <<kind, ticks, open, mailed, faults, redis, hits, hitsLeft, seen, mem>>

(* sendVerificationEmail(): the link of this flow goes out.                *)
Mail(f) ==
    /\ Step(f, "mail", "done")
    /\ mailed' = [mailed EXCEPT ![Own(f)] = @ \cup {f}]
    /\ UNCHANGED <<kind, ticks, open, user, faults, redis, hits, hitsLeft, seen, mem>>

(***************************************************************************)
(* Sessions                                                                *)
(***************************************************************************)
StoreSession(f) ==
    /\ Step(f, "set", "sadd")
    /\ session' = [session EXCEPT ![f] = SessionTtl]
    /\ UNCHANGED <<work, faults, index, indexLeft, srp, hits, hitsLeft, seen, mem>>

IndexSession(f) ==
    /\ Step(f, "sadd", "pexpire")
    /\ index' = [index EXCEPT ![Own(f)] = @ \cup {f}]
    /\ indexLeft' = [indexLeft EXCEPT ![Own(f)] = IF index[Own(f)] = {} THEN Forever ELSE @]
    /\ UNCHANGED <<work, faults, session, srp, hits, hitsLeft, seen, mem>>

(* Mutation: the index gets an expiry once only, EXPIRE ... NX.            *)
OnlyFirstLife(u) == IF indexLeft[u] = Forever THEN SessionTtl ELSE indexLeft[u]
NewIndexLife(u) == IF index[u] = {} THEN 0 ELSE SessionTtl
RefreshIndex(f) ==
    /\ Step(f, "pexpire", IF Op(f) = "login" THEN "verified?" ELSE "done")
    /\ indexLeft' = [indexLeft EXCEPT ![Own(f)] = NewIndexLife(Own(f))]
    /\ UNCHANGED <<work, faults, session, index, srp, hits, hitsLeft, seen, mem>>

(* invalidateSession()                                                     *)
GetSession(f) ==
    /\ Step(f, "get", IF session[As(f)] > 0 THEN "srem" ELSE "del")
    /\ UNCHANGED <<work, faults, redis, hits, hitsLeft, seen, mem>>

Without(u, gone) == [index EXCEPT ![u] = @ \ gone]
Unindex(f) ==
    /\ Step(f, "srem", "del")
    /\ index' = Without(Own(f), {As(f)})
    /\ indexLeft' = [indexLeft EXCEPT ![Own(f)] = IF index'[Own(f)] = {} THEN 0 ELSE @]
    /\ UNCHANGED <<work, faults, session, srp, hits, hitsLeft, seen, mem>>

DropSession(f) ==
    /\ Step(f, "del", "done")
    /\ session' = [session EXCEPT ![As(f)] = 0]
    /\ UNCHANGED <<work, faults, index, indexLeft, srp, hits, hitsLeft, seen, mem>>

(* invalidateAllSessions()                                                 *)
ReadIndex(f) ==
    /\ Step(f, "members", "delKeys")
    /\ Keep(f, [mem[f] EXCEPT !.read = index[Own(f)]])
    /\ UNCHANGED <<work, faults, redis, hits, hitsLeft, seen>>

DropAll(f) ==
    /\ Step(f, "delKeys", "delIndex")
    /\ session' = [g \in Flows |-> IF g \in mem[f].read THEN 0 ELSE session[g]]
    /\ UNCHANGED <<work, faults, index, indexLeft, srp, hits, hitsLeft, seen, mem>>

(* A session that was indexed in between is listed nowhere from here on.   *)
DropIndex(f) ==
    /\ Step(f, "delIndex", "done")
    /\ index' = Without(Own(f), Flows)
    /\ indexLeft' = [indexLeft EXCEPT ![Own(f)] = 0]
    /\ seen' = [seen EXCEPT !.missed = @ \cup (index[Own(f)] \ mem[f].read)]
    /\ UNCHANGED <<work, faults, session, srp, hits, hitsLeft, mem>>

(***************************************************************************)
(* The limit on log-in requests                                            *)
(***************************************************************************)
(* Mutation: the counter is compared before it is counted up.             *)
SetsExpiryLate(n) == n = 0
SetsExpiry(n) == n = 1
Count(f) ==
    /\ Step(f, "incr", IF SetsExpiry(hits + 1) THEN "expire"
                       ELSE IF hits + 1 > Max THEN "limited" ELSE mem[f].then)
    /\ hits' = hits + 1
    /\ hitsLeft' = IF hits = 0 THEN Forever ELSE hitsLeft
    /\ UNCHANGED <<work, faults, redis, seen, mem>>

StartWindow(f) ==
    /\ Step(f, "expire", mem[f].then)
    /\ hitsLeft' = IF hits = 0 THEN 0 ELSE 1
    /\ UNCHANGED <<work, faults, redis, hits, seen, mem>>

(***************************************************************************)
(* Logging in                                                              *)
(***************************************************************************)
FindUser(f) ==
    /\ Step(f, "find", IF user[Own(f)].in THEN "challenge" ELSE "failed")
    /\ UNCHANGED <<work, faults, redis, hits, hitsLeft, seen, mem>>

(* The logins of this address that have a challenge out                    *)
Trying(u) == {g \in Flows : /\ Op(g) = "login" /\ Own(g) = u
                            /\ mem[g].then = "match?" /\ at[g] \notin Ended}
(* Mutation: SET ... NX keeps the challenge that is there.                 *)
StoredOnce(f) == IF srp[Own(f)].left > 0 THEN srp[Own(f)] ELSE [by |-> f, left |-> 1]
Stored(f) == [by |-> f, left |-> 1]
Challenge(f) ==
    /\ Step(f, "challenge", "prove")
    /\ srp' = [srp EXCEPT ![Own(f)] = Stored(f)]
    /\ Keep(f, [mem[f] EXCEPT !.then = "match?"])
    /\ seen' = IF Trying(Own(f)) = {} THEN seen
               ELSE [seen EXCEPT !.met = @ \cup {f} \cup Trying(Own(f))]
    /\ UNCHANGED <<work, faults, session, index, indexLeft, hits, hitsLeft>>

(* The browser answers the challenge, or the page is closed.               *)
Prove(f) ==
    /\ Step(f, "prove", "incr")
    /\ UNCHANGED <<work, faults, redis, hits, hitsLeft, seen, mem>>
CloseTab(f) ==
    /\ Step(f, "prove", "gone")
    /\ UNCHANGED <<work, faults, redis, hits, hitsLeft, seen, mem>>

(* The proof fits the stored challenge when it answers that one and the    *)
(* passphrase is right.                                                    *)
MatchProof(f) ==
    /\ Step(f, "match?", IF srp[Own(f)].left = 0 THEN "refused"
                         ELSE IF srp[Own(f)].by = f /\ kind[f].right THEN "forget" ELSE "drop")
    /\ UNCHANGED <<work, faults, redis, hits, hitsLeft, seen, mem>>

Forget(f) ==
    /\ \/ Step(f, "forget", "set")
       \/ Step(f, "drop", "refused")
       \/ Step(f, "dropFailed", "failed")
    /\ srp' = [srp EXCEPT ![Own(f)] = NoState]
    /\ UNCHANGED <<work, faults, session, index, indexLeft, hits, hitsLeft, seen, mem>>

TellVerified(f) ==
    /\ Step(f, "verified?", "done")
    /\ UNCHANGED <<work, faults, redis, hits, hitsLeft, seen, mem>>

(***************************************************************************)
(* Requests that carry a session                                           *)
(***************************************************************************)
Valid(f) == session[f] > 0
Authenticate(f) ==
    /\ Step(f, "session", IF Valid(As(f)) THEN "enabled?" ELSE "refused")
    /\ UNCHANGED <<work, faults, redis, hits, hitsLeft, seen, mem>>

CheckEnabled(f) ==
    /\ Step(f, "enabled?", IF user[Own(f)].off THEN "refused"
                           ELSE IF Op(f) = "admin" THEN "admin?" ELSE "unverified?")
    /\ UNCHANGED <<work, faults, redis, hits, hitsLeft, seen, mem>>

CheckAdmin(f) ==
    /\ Step(f, "admin?", IF user[Own(f)].in /\ user[Own(f)].admin THEN "act" ELSE "refused")
    /\ UNCHANGED <<work, faults, redis, hits, hitsLeft, seen, mem>>

(* POST /admin/users/:id/disable, .../enable, .../verify, and DELETE       *)
Disabled(r) == [r EXCEPT !.off = TRUE]
Enabled(r) == [r EXCEPT !.off = FALSE]
Verified(r) == [r EXCEPT !.verified = TRUE, !.link = None]
Row(act, r) ==
    CASE act = "disable" -> Disabled(r)
      [] act = "enable"  -> Enabled(r)
      [] act = "verify"  -> Verified(r)
      [] OTHER           -> Absent
(* Mutation: nobody is kept from disabling the own account.                *)
AllowedAll(f) == TRUE
Allowed(f) == \/ kind[f].arg.act \in {"enable", "verify", "shut"}
              \/ kind[f].arg.on # Own(f)
(* One of these, or PUT /setup/registration                                *)
Administer(f) ==
    LET act == kind[f].arg.act
        t == kind[f].arg.on
        works == Allowed(f) /\ (act = "shut" \/ user[t].in)
    IN  /\ Step(f, "act", IF works THEN "done" ELSE "refused")
        /\ user' = IF works /\ act # "shut" THEN [user EXCEPT ![t] = Row(act, @)] ELSE user
        /\ open' = IF works /\ act = "shut" THEN FALSE ELSE open
        /\ seen' = [seen EXCEPT !.stale = @ \/ ~IsAdmin(Own(f))]
        /\ UNCHANGED <<kind, ticks, mailed, faults, redis, hits, hitsLeft, mem>>

(***************************************************************************)
(* Verifying the address                                                   *)
(***************************************************************************)
CheckUnverified(f) ==
    /\ Step(f, "unverified?", IF ~user[Own(f)].in THEN "refused"
                              ELSE IF user[Own(f)].verified THEN "done" ELSE "link")
    /\ UNCHANGED <<work, faults, redis, hits, hitsLeft, seen, mem>>

StoreLink(f) ==
    /\ Step(f, "link", "mail")
    /\ user' = [user EXCEPT ![Own(f)].link = IF user[Own(f)].in THEN f ELSE @]
    /\ UNCHANGED <<kind, ticks, open, mailed, faults, redis, hits, hitsLeft, seen, mem>>

(* A mailed link is followed: it counts when the row still holds it.       *)
Match(f) ==
    \E l \in mailed[Own(f)] :
        /\ Step(f, "match", IF user[Own(f)].link # l THEN "refused"
                            ELSE IF user[Own(f)].verified THEN "done" ELSE "confirm")
        /\ UNCHANGED <<work, faults, redis, hits, hitsLeft, seen, mem>>

Confirm(f) ==
    /\ Step(f, "confirm", "done")
    /\ user' = [user EXCEPT ![Own(f)] = IF @.in THEN Verified(@) ELSE @]
    /\ UNCHANGED <<kind, ticks, open, mailed, faults, redis, hits, hitsLeft, seen, mem>>

(***************************************************************************)
(* What goes wrong                                                         *)
(***************************************************************************)
(* A call to Redis or the database is refused.  The limiter lets the       *)
(* request through; the last part of a login drops the challenge.          *)
CallFails(f) ==
    /\ faults > 0 /\ faults' = faults - 1
    /\ at[f] \notin Ended \cup {"idle", "prove", "mail", "dropFailed"}
    /\ LET after == CASE at[f] \in {"incr", "expire"} -> mem[f].then
                      [] Op(f) = "login" /\ at[f] \in {"forget", "set", "sadd", "pexpire", "verified?"}
                                                      -> "dropFailed"
                      [] OTHER                        -> "failed"
       IN  at' = [at EXCEPT ![f] = after]
    /\ seen' = [seen EXCEPT !.lost = @ \/ at[f] = "expire"]
    /\ UNCHANGED <<work, redis, hits, hitsLeft, mem>>

(* The server dies with every request it was working on.                   *)
ServerDies ==
    /\ faults > 0 /\ faults' = faults - 1
    /\ at' = [f \in Flows |-> IF at[f] \in Ended \cup {"idle", "prove"} THEN at[f] ELSE "failed"]
    /\ seen' = [seen EXCEPT !.lost = @ \/ \E f \in Flows : at[f] = "expire"]
    /\ UNCHANGED <<work, redis, hits, hitsLeft, mem>>

(* A tick of the clock: keys of Redis that are due go.  A login whose      *)
(* challenge goes has no answer to hope for.                               *)
Age(n) == IF n \in {0, Forever} THEN n ELSE n - 1
Tick ==
    LET age(fn) == [x \in DOMAIN fn |-> Age(fn[x])]
    IN  /\ ticks
        /\ \/ \E f \in Flows : session[f] > 0
           \/ \E u \in Users : srp[u].left > 0
           \/ hitsLeft \in 1 .. SessionTtl
        /\ session' = age(session)
        /\ indexLeft' = age(indexLeft)
        /\ index' = [u \in Users |-> IF indexLeft'[u] = 0 THEN {} ELSE index[u]]
        /\ srp' = [u \in Users |-> IF srp[u].left > 1 THEN [srp[u] EXCEPT !.left = @ - 1] ELSE NoState]
        /\ hitsLeft' = Age(hitsLeft)
        /\ hits' = IF hitsLeft' = 0 THEN 0 ELSE hits
        /\ seen' = [seen EXCEPT !.met = (@ \cup {srp[u].by : u \in Users}) \ {None},
                                !.missed = @ \cup {f \in Flows : at[f] = "pexpire" /\ index'[Own(f)] = {}}]
        /\ UNCHANGED <<work, faults, at, mem>>

Account(f) == CheckOpen(f) \/ CheckEmail(f) \/ CountUsers(f) \/ Insert(f) \/ Mail(f)
Session(f) == \/ StoreSession(f) \/ IndexSession(f) \/ RefreshIndex(f) \/ GetSession(f)
              \/ Unindex(f) \/ DropSession(f) \/ ReadIndex(f) \/ DropAll(f) \/ DropIndex(f)
Login(f) == \/ Count(f) \/ StartWindow(f) \/ FindUser(f) \/ Challenge(f) \/ Prove(f)
            \/ CloseTab(f) \/ MatchProof(f) \/ Forget(f) \/ TellVerified(f)
Request(f) == \/ Authenticate(f) \/ CheckEnabled(f) \/ CheckAdmin(f) \/ Administer(f)
              \/ CheckUnverified(f) \/ StoreLink(f) \/ Match(f) \/ Confirm(f)

Next == \/ \E f \in Flows : \/ CreateAccount(f) \/ SignIn(f) \/ ManageUsers(f) \/ Begin(f)
                            \/ Account(f) \/ Session(f) \/ Login(f) \/ Request(f)
                            \/ CallFails(f)
        \/ ServerDies \/ Tick

Spec == Init /\ [][Next]_vars
(* Redis lets keys expire, and the server works a request off.             *)
FairSpec == /\ Spec /\ WF_vars(Tick)
            /\ \A f \in Flows : WF_vars(Account(f) \/ Session(f) \/ Login(f) \/ Request(f))

(***************************************************************************)
(* Properties                                                              *)
(***************************************************************************)
(* When a log-out of all devices has ended, no session that was handed out *)
(* before it began lives.  Three escape: a session that an earlier log-out *)
(* of all devices unlisted because it was created while that one ran, one  *)
(* that was listed in the instant the old list expired, and one whose own  *)
(* log-out stopped half way.                                               *)
AllMeansAll ==
    \A f \in Flows : Op(f) = "logoutAll" /\ at[f] = "done" =>
        \A s \in mem[f].due :
            \/ session[s] = 0
            \/ s \in seen.missed
            \/ \E g \in Flows : Op(g) = "logout" /\ As(g) = s /\ at[g] \in {"del", "failed"}

(* A server that has an administrator who can act keeps one, as long as no *)
(* request acts for an administrator who was disabled or deleted after the *)
(* request's checks.                                                       *)
AdminRemains ==
    [][(\E u \in Users : IsAdmin(u)) /\ ~seen'.stale => \E u \in Users : IsAdmin(u)']_vars

(* A login with the right passphrase is refused only when another login to *)
(* the same address was under way, or its challenge had expired.           *)
LonelyLoginWorks ==
    \A f \in Flows : Op(f) = "login" /\ at[f] = "refused" /\ kind[f].right => f \in seen.met

(* A window that is full comes to an end, unless the call that gives the   *)
(* counter its expiry was lost.                                            *)
WindowEnds == (hits > Max) ~> (hits <= Max \/ seen.lost)
=============================================================================
