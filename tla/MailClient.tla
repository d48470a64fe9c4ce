----------------------------- MODULE MailClient -----------------------------
(* The mail pages of the web client, in several tabs of one browser, over   *)
(* the routes that list, flag, delete and move mail and that create and     *)
(* delete folders.  A page keeps what it was last told in a query cache of  *)
(* its own, asks again by a timer, on focus and after its own changes, and  *)
(* is told through a service worker that may answer from a cache all tabs   *)
(* share.  A press starts a call; server and answer take their own time.    *)
EXTENDS Naturals, FiniteSets

CONSTANTS Tabs, Mails, Folders, None,
          Hits,        \* mails whose sender or recipients match the search,
          SubjectHits, \* and those whose subject does
          Scenarios    \* what may happen: see Init

System == {"inbox", "archive", "trash"}
Nowhere == {"destroyed", "cascaded"}     \* by DELETE, with its folder
Queries == {"boxes", "list", "found", "mail"}

(* A scenario begins with mails that were not destroyed, and its tabs show  *)
(* pages of the system folders.                                            *)
ASSUME MailClientAssumption ==
    /\ Folders \cap (System \cup Nowhere) = {}
    /\ None \notin Tabs \cup System
    /\ \A s \in Scenarios :
          /\ s.place \in [Mails -> System \cup Folders \cup {"cascaded"}]
          /\ s.start \in [box : System, mail : Mails \cup {None},
                         search : BOOLEAN, url : BOOLEAN]

VARIABLES
    place, seen, folders,  \* the server: where each mail is, which are read
    meant,     \* how often each mail was deleted or moved to the trash
    calls,     \* changes under way
    page,      \* what each tab shows: [box, mail, search], and the search of its URL
    data,      \* its query cache
    asks,      \* its queries in flight: [st, body]
    picked,    \* its selection
    cache,     \* the service worker's cache, by URL
    fresh,     \* URLs it fetches in the background
    sw, does, presses, faults    \* the scenario: worker active, presses allowed

server == <<place, seen, folders>>
tabs == <<page, data, asks, picked>>
worker == <<cache, fresh>>
vars == <<server, meant, calls, tabs, worker, sw, does, presses, faults>>

Url(q, p) == CASE q = "mail" -> <<q, p.mail>>
               [] q = "boxes" -> <<q, None>>
               [] OTHER -> <<q, p.box>>
Urls == {<<"boxes", None>>} \cup {<<"mail", m>> : m \in Mails}
        \cup {"list", "found"} \X System

NoData == [q \in Queries |-> None]
Idle == [st |-> "idle", body |-> None]
Inbox == [box |-> "inbox", mail |-> None, search |-> FALSE, url |-> FALSE]
Closed == [Inbox EXCEPT !.box = None]    \* no tab

Init ==
    /\ \E s \in Scenarios :
          /\ place = s.place
          /\ sw = s.sw /\ does = s.does
          /\ presses = s.presses /\ faults = s.faults
          /\ folders = s.folders
          /\ page = [t \in Tabs |-> IF t \in s.tabs THEN s.start ELSE Closed]
    /\ meant = [m \in Mails |-> IF place[m] = "trash" THEN 1 ELSE 0]
    /\ seen = {}
    /\ calls = {}
    /\ data = [t \in Tabs |-> NoData]
    /\ asks = [t \in Tabs |-> [q \in Queries |-> Idle]]
    /\ picked = [t \in Tabs |-> {}]
    /\ cache = [u \in Urls |-> None]
    /\ fresh = {}

Fault == faults > 0 /\ faults' = faults - 1
Press(op) == op \in does /\ presses > 0 /\ presses' = presses - 1
Known(t, q) == data[t][q] # None

(***************************************************************************)
(* The queries                                                             *)
(***************************************************************************)
In(b) == {m \in Mails : place[m] = b}
Exists(m) == place[m] \notin Nowhere

(* GET /mailboxes: the names, none of the page's own making, no failure.   *)
ListMailboxes == [names |-> folders, temps |-> {}, error |-> FALSE]

(* GET /mailboxes/:id/messages, as a page and as a search.                 *)
ListMessages(b) == [in |-> In(b), seen |-> seen \cap In(b)]
Search(b) == In(b) \cap Hits

(* GET /messages/:id *)
GetMessage(m) == IF ~Exists(m) THEN "gone" ELSE IF m \in seen THEN "seen" ELSE "unseen"

Answer(u) == CASE u[1] = "boxes" -> ListMailboxes
               [] u[1] = "list" -> ListMessages(u[2])
               [] u[1] = "found" -> Search(u[2])
               [] OTHER -> GetMessage(u[2])
Found(u) == u[1] = "mail" => Exists(u[2])

(* MailboxView looks for its mailbox in the list of all of them before it  *)
(* mounts InboxView, and takes that away when the list fails to load; the  *)
(* search is a second query of InboxView.                                  *)
ShowsBox(t) == page[t].mail = None /\ Known(t, "boxes") /\ ~data[t]["boxes"].error
SearchEnabled(t) == page[t].search /\ ShowsBox(t)
Enabled(t, q) ==
    /\ page[t] # Closed
    /\ CASE q = "boxes" -> TRUE
         [] q = "list"  -> ShowsBox(t)
         [] q = "found" -> SearchEnabled(t)
         [] OTHER -> page[t].mail # None

(* fetch() of tab t, through the service worker: its copy if it has one.   *)
Sent(u) == IF cache[u] = None THEN [st |-> "sent", body |-> None]
                              ELSE [st |-> "back", body |-> cache[u]]
Fetch(t, q) ==
    LET u == Url(q, page[t])
    IN /\ asks' = [asks EXCEPT ![t][q] = Sent(u)]
       /\ fresh' = IF cache[u] = None THEN fresh ELSE fresh \cup {u}

(* Mutation: nothing asks again by itself.                                 *)
AsksOnce(t, q) == ~Known(t, q)

(* useQuery asks when it mounts, and by its interval (folders and lists)   *)
(* or when the window gets the focus (the search); the mail is asked once. *)
AsksAgain(t, q) == q = "mail" => ~Known(t, q)

Ask(t, q) ==
    /\ asks[t][q] = Idle /\ Enabled(t, q) /\ AsksAgain(t, q)
    /\ Fetch(t, q)
    /\ UNCHANGED <<server, meant, calls, page, data, picked, cache, sw, does, presses, faults>>

(* Only what was found is kept by the worker (response.ok).                *)
Serve(t, q) ==
    LET u == Url(q, page[t])
    IN /\ asks[t][q].st = "sent"
       /\ asks' = [asks EXCEPT ![t][q] = [st |-> "back", body |-> Answer(u)]]
       /\ cache' = IF sw /\ Found(u) THEN [cache EXCEPT ![u] = Answer(u)] ELSE cache
       /\ UNCHANGED <<server, meant, calls, page, data, picked, fresh, sw, does, presses, faults>>

(* The retries are used up: the page keeps the data it has, but without    *)
(* its mailboxes it says so, in place of InboxView with its selection and  *)
(* its search; that one starts from the URL when it comes back.            *)
AskFails(t, q) ==
    /\ asks[t][q].st = "sent" /\ Fault
    /\ asks' = [asks EXCEPT ![t][q] = Idle]
    /\ IF q = "boxes" /\ Known(t, q)
       THEN /\ data' = [data EXCEPT ![t][q].error = TRUE]
            /\ picked' = [picked EXCEPT ![t] = {}]
            /\ page' = [page EXCEPT ![t].search = page[t].url]
       ELSE UNCHANGED <<data, picked, page>>
    /\ UNCHANGED <<server, meant, calls, worker, sw, does, presses>>

Arrive(t, q) ==
    /\ asks[t][q].st = "back"
    /\ data' = [data EXCEPT ![t][q] = asks[t][q].body]
    /\ asks' = [asks EXCEPT ![t][q] = Idle]
    /\ UNCHANGED <<server, meant, calls, page, picked, worker, sw, does, presses, faults>>

Revalidate(u) ==
    /\ u \in fresh /\ fresh' = fresh \ {u}
    /\ \/ cache' = (IF Found(u) THEN [cache EXCEPT ![u] = Answer(u)] ELSE cache)
          /\ UNCHANGED faults
       \/ Fault /\ UNCHANGED cache
    /\ UNCHANGED <<server, meant, calls, tabs, sw, does, presses>>

(* invalidateQueries: a query in use is asked again; an answer on its way  *)
(* is dropped, unless it is the first one.                                 *)
Invalidate(t, q) ==
    IF Enabled(t, q) /\ (asks[t][q] = Idle \/ Known(t, q))
    THEN Fetch(t, q) ELSE UNCHANGED <<asks, fresh>>

(***************************************************************************)
(* The pages: every link loads a new one, with an empty query cache; the   *)
(* calls of the old page go on, but nobody hears of them.                  *)
(***************************************************************************)
Open(t, p) ==
    /\ page' = [page EXCEPT ![t] = p]
    /\ data' = [data EXCEPT ![t] = NoData]
    /\ asks' = [asks EXCEPT ![t] = [q \in Queries |-> Idle]]
    /\ picked' = [picked EXCEPT ![t] = {}]

Orphaned(t, cs) == {IF c.tab = t THEN [c EXCEPT !.tab = None] ELSE c : c \in cs}

Goes(t, p) ==
    /\ Open(t, p)
    /\ calls' = Orphaned(t, calls)
    /\ UNCHANGED <<server, meant, worker, sw, does, faults>>

(* The links of the sidebar carry no search.                               *)
Visit(t, b) ==
    /\ page[t] # Closed /\ Press("visit")
    /\ Goes(t, [Inbox EXCEPT !.box = b])

ParseUrlSearchState(t) == page[t].url
Reload(t) ==
    /\ page[t] # Closed /\ page[t].mail = None /\ Press("reload")
    /\ Goes(t, [page[t] EXCEPT !.search = ParseUrlSearchState(t)])

(* The search field of the header is another island: what is typed there,  *)
(* or dropped when the field is closed, goes into the URL, and nothing     *)
(* tells an InboxView that is there already.                               *)
SyncUrlSearchState(t, s) ==
    page' = [page EXCEPT ![t].url = s, ![t].search = IF ShowsBox(t) THEN @ ELSE s]
HandleSearch(t) ==
    /\ page[t] # Closed /\ page[t].mail = None /\ Press("search")
    /\ SyncUrlSearchState(t, ~page[t].url)
    /\ UNCHANGED <<server, meant, calls, data, asks, picked, worker, sw, does, faults>>

(* The banner over the results clears both.                                *)
ClearSearch(t) ==
    /\ ShowsBox(t) /\ page[t].search /\ Press("search")
    /\ page' = [page EXCEPT ![t].search = FALSE, ![t].url = FALSE]
    /\ asks' = [asks EXCEPT ![t]["found"] = Idle]
    /\ data' = [data EXCEPT ![t]["found"] = None]
    /\ UNCHANGED <<server, meant, calls, picked, worker, sw, does, faults>>

(* What InboxView lists: the page, or the search's answer merged with what *)
(* matches on the pages that are loaded, where the subject counts too.     *)
Listed(t) == IF Known(t, "list") THEN data[t]["list"].in ELSE {}
ApplyClientSideFilters(ms) == ms \cap (Hits \cup SubjectHits)
SearchResults(t) ==
    (IF Known(t, "found") THEN data[t]["found"] ELSE {}) \cup ApplyClientSideFilters(Listed(t))
Shown(t) == IF ~ShowsBox(t) THEN {}
            ELSE IF page[t].search THEN SearchResults(t) ELSE Listed(t)

HandleMessageClick(t, m) ==
    /\ m \in Shown(t) /\ Press("click")
    /\ Goes(t, [Inbox EXCEPT !.box = page[t].box, !.mail = m])

(***************************************************************************)
(* The presses                                                             *)
(***************************************************************************)
Call(t, op, x, y) ==
    [n |-> presses, tab |-> t, op |-> op, of |-> x, to |-> y, st |-> "sent", was |-> None,
     previous |-> None, thread |-> page[t].mail # None, goes |-> page[t].mail # None]

(* Only the last mutate() of a hook runs the callback it was given.        *)
Sends(new) ==
    calls' = {[c EXCEPT !.goes = @ /\ ~\E d \in new : d.tab = c.tab /\ d.op = c.op] : c \in calls}
             \cup new
Means(ms) == meant' = [m \in Mails |-> IF m \in ms THEN meant[m] + 1 ELSE meant[m]]

(* The three hooks.                                                        *)
UpdateFlags(t, op, ms) == Sends({Call(t, op, m, None) : m \in ms})
DeleteMessage(t, ms) == Sends({Call(t, "delete", m, None) : m \in ms}) /\ Means(ms)
MoveMessage(t, m, b) ==
    /\ Sends({Call(t, "move", m, b)})
    /\ IF b = "trash" THEN Means({m}) ELSE UNCHANGED meant

Selects(t, ms) ==
    /\ "select" \in does /\ presses > 0 /\ ms # picked[t]
    /\ picked' = [picked EXCEPT ![t] = ms]
    /\ UNCHANGED <<server, meant, calls, page, data, asks, worker, sw, does, presses, faults>>

HandleSelect(t, m) ==
    /\ m \in Shown(t)
    /\ Selects(t, IF m \in picked[t] THEN picked[t] \ {m} ELSE picked[t] \cup {m})
HandleSelectAll(t) == Selects(t, Shown(t))
HandleDeselectAll(t) == Selects(t, {})

(* A selection lasts through what the list does in the meantime.           *)
Bulk(t, op) ==
    /\ Press(op) /\ picked[t] # {}
    /\ picked' = [picked EXCEPT ![t] = {}]
    /\ UNCHANGED <<server, page, data, asks, worker, sw, does, faults>>
HandleMark(t, op) == Bulk(t, op) /\ UpdateFlags(t, op, picked[t]) /\ UNCHANGED meant
HandleBulkDelete(t) == Bulk(t, "delete") /\ DeleteMessage(t, picked[t])

OnMail == <<server, tabs, worker, sw, does, faults>>
ArchiveKnown(t) == Known(t, "boxes")

(* A row that was swiped far enough; the 200 ms of the animation, at whose *)
(* end nothing is looked at again, are part of the step.                   *)
Swiped(t, m) == m \in Shown(t)
HandleSwipeDelete(t, m) ==
    Swiped(t, m) /\ Press("delete") /\ DeleteMessage(t, {m}) /\ UNCHANGED OnMail
HandleSwipeArchive(t, m) ==
    Swiped(t, m) /\ ArchiveKnown(t) /\ Press("move") /\ MoveMessage(t, m, "archive") /\ UNCHANGED OnMail

(* The page of one mail.                                                   *)
Thread(t) == page[t].mail # None /\ data[t]["mail"] \in {"seen", "unseen"}
HandleDelete(t) ==
    Thread(t) /\ Press("delete") /\ DeleteMessage(t, {page[t].mail}) /\ UNCHANGED OnMail
HandleArchive(t) ==
    Thread(t) /\ ArchiveKnown(t) /\ Press("move") /\ MoveMessage(t, page[t].mail, "archive") /\ UNCHANGED OnMail
Targets(t) == IF Known(t, "boxes") THEN System \cup data[t]["boxes"].names ELSE {}
HandleMove(t, b) ==
    Thread(t) /\ b \in Targets(t) /\ Press("move") /\ MoveMessage(t, page[t].mail, b) /\ UNCHANGED OnMail

(* A thread that opens an unread mail marks it, once.                      *)
MarkRead(t) ==
    /\ data[t]["mail"] = "unseen"
    /\ data' = [data EXCEPT ![t]["mail"] = "seen"]
    /\ UpdateFlags(t, "seen", {page[t].mail})
    /\ UNCHANGED <<server, meant, page, asks, picked, worker, sw, does, presses, faults>>

(* The folder dialog: the list is changed before the server is asked, and  *)
(* an answer on its way is dropped.                                        *)
Boxes(t) == IF Known(t, "boxes") THEN data[t]["boxes"] ELSE [names |-> {}, temps |-> {}, error |-> FALSE]
Optimistic(t, c, b) ==
    /\ Sends({[c EXCEPT !.previous = data[t]["boxes"]]})
    /\ data' = [data EXCEPT ![t]["boxes"] = [b EXCEPT !.error = FALSE]]
    /\ asks' = [asks EXCEPT ![t]["boxes"] = Idle]

(* A hook knows its last call only.  The form that creates folders forgets *)
(* that one too when it is closed and opened again.                        *)
Pending(t, op, f) ==
    \E c \in calls : /\ c.tab = t /\ c.op = op /\ c.of = f
                     /\ \A d \in calls : d.tab = t /\ d.op = op => c.n <= d.n
MayCreate(t, f) == f \notin Boxes(t).names \cup Boxes(t).temps
HandleCreateFolder(t, f) ==
    /\ page[t] # Closed /\ MayCreate(t, f) /\ Press("create")
    /\ Optimistic(t, Call(t, "create", f, None), [Boxes(t) EXCEPT !.temps = @ \cup {f}])
    /\ UNCHANGED <<server, meant, page, picked, worker, sw, does, faults>>

(* A folder the page made up can be deleted too; its identifier is unknown *)
(* to the server.                                                          *)
MayDelete(t, f) == f \in Boxes(t).names /\ ~Pending(t, "drop", f)
MayDeleteTemp(t, f) == f \in Boxes(t).temps /\ ~Pending(t, "drop", None)
HandleDeleteFolder(t, f) ==
    /\ Press("drop")
    /\ \/ /\ MayDelete(t, f)
          /\ Optimistic(t, Call(t, "drop", f, None), [Boxes(t) EXCEPT !.names = @ \ {f}])
       \/ /\ MayDeleteTemp(t, f)
          /\ Optimistic(t, Call(t, "drop", None, None), [Boxes(t) EXCEPT !.temps = @ \ {f}])
    /\ UNCHANGED <<server, meant, page, picked, worker, sw, does, faults>>

(***************************************************************************)
(* The routes: each reads, decides, and writes in a later statement        *)
(***************************************************************************)
Becomes(c, d) == calls' = (calls \ {c}) \cup {d}

RefusesCreate(f) == f \in folders                 \* 409
RefusesDrop(f) == f \notin folders                \* 404
RefusesMail(m) == ~Exists(m)                      \* 404
RefusesMove(m, b) == RefusesMail(m) \/ b \notin System \cup folders

Refused(c) ==
    CASE c.op = "create" -> RefusesCreate(c.of)
      [] c.op = "drop" -> RefusesDrop(c.of)
      [] c.op = "move" -> RefusesMove(c.of, c.to)
      [] OTHER -> RefusesMail(c.of)

Look(c) ==
    /\ c.st = "sent"
    /\ Becomes(c, IF Refused(c) THEN [c EXCEPT !.st = "refused"]
                  ELSE [c EXCEPT !.st = "looked", !.was = IF c.of \in Mails THEN place[c.of] ELSE None])
    /\ UNCHANGED <<server, meant, tabs, worker, sw, does, presses, faults>>

Put(c, b) == place' = [place EXCEPT ![c.of] = IF Exists(c.of) THEN b ELSE @]

(* A move into a folder that is gone by now, and the second folder of one  *)
(* name, fail on a constraint of the database.                             *)
Fails(c) == \/ c.op = "move" /\ c.was # c.to /\ Exists(c.of) /\ c.to \notin System \cup folders
            \/ c.op = "create" /\ c.of \in folders

(* Two calls that put a mail into the same mailbox may have read the same  *)
(* next UID: the second one fails on the unique index.                     *)
Into(c) == IF c.op = "delete" THEN "trash" ELSE c.to
Moves(c) == c.op \in {"delete", "move"} /\ Exists(c.of) /\ c.was # Into(c)
Collides(c) ==
    /\ Moves(c)
    /\ \E d \in calls : /\ Moves(d) /\ d.st = "done" /\ d.of # c.of
                        /\ Into(d) = Into(c) /\ place[d.of] = Into(c)

WritesFlags(c) ==
    /\ seen' = IF c.op = "seen" THEN seen \cup {c.of} ELSE seen \ {c.of}
    /\ UNCHANGED <<place, folders>>
WritesDelete(c) ==
    /\ Put(c, IF c.was = "trash" THEN "destroyed" ELSE "trash")
    /\ UNCHANGED <<seen, folders>>
WritesMove(c) ==
    /\ IF c.was = c.to THEN UNCHANGED place ELSE Put(c, c.to)
    /\ UNCHANGED <<seen, folders>>
WritesCreate(c) == folders' = folders \cup {c.of} /\ UNCHANGED <<place, seen>>
WritesDrop(c) ==       \* the mails go with their folder
    /\ folders' = folders \ {c.of}
    /\ place' = [m \in Mails |-> IF place[m] = c.of THEN "cascaded" ELSE place[m]]
    /\ UNCHANGED seen

Write(c) ==
    /\ c.st = "looked"
    /\ \E fails \in {Fails(c), Fails(c) \/ Collides(c)} :
          /\ Becomes(c, [c EXCEPT !.st = IF fails THEN "refused" ELSE "done"])
          /\ CASE fails -> UNCHANGED server
               [] c.op = "delete" -> WritesDelete(c)
               [] c.op = "move" -> WritesMove(c)
               [] c.op = "create" -> WritesCreate(c)
               [] c.op = "drop" -> WritesDrop(c)
               [] OTHER -> WritesFlags(c)
    /\ UNCHANGED <<meant, tabs, worker, sw, does, presses, faults>>

(***************************************************************************)
(* The answer of a call, and what the page does with it                    *)
(***************************************************************************)
(* Mutation: the folders are asked for again only after a success.         *)
SettledAfterSuccess(ok) == ok

Settled(ok) == TRUE     \* onSettled, not onSuccess

RollBack(c) ==
    data' = IF c.previous = None THEN data
            ELSE [data EXCEPT ![c.tab]["boxes"] = [c.previous EXCEPT !.error = FALSE]]

HearFolder(c, ok) ==
    /\ IF ok THEN UNCHANGED data ELSE RollBack(c)
    /\ IF Settled(ok) THEN Invalidate(c.tab, "boxes") ELSE UNCHANGED <<asks, fresh>>
    /\ UNCHANGED <<page, picked>>

(* A list asks again; a thread leaves for the inbox.                       *)
HearMail(c, ok) ==
    IF ok /\ c.goes /\ c.op # "seen"
    THEN Open(c.tab, Inbox) /\ UNCHANGED fresh
    ELSE /\ IF ok /\ ~c.thread THEN Invalidate(c.tab, "list") ELSE UNCHANGED <<asks, fresh>>
         /\ UNCHANGED <<page, data, picked>>

Hear(c, ok) == IF c.op \in {"create", "drop"} THEN HearFolder(c, ok) ELSE HearMail(c, ok)

Leaves(c, ok) == ok /\ c.goes /\ c.op \notin {"seen", "create", "drop"}
Without(c, ok) == IF Leaves(c, ok) THEN Orphaned(c.tab, calls \ {c}) ELSE calls \ {c}

Reply(c) ==
    /\ c.st \in {"done", "refused"}
    /\ calls' = Without(c, c.st = "done")
    /\ IF c.tab = None THEN UNCHANGED <<tabs, fresh>> ELSE Hear(c, c.st = "done")
    /\ UNCHANGED <<server, meant, cache, sw, does, presses, faults>>

(* Mutation: a mutation whose answer is lost is sent again.                *)
AfterLossRetried(c) == {[c EXCEPT !.st = "sent"]}

(* Mutations are not retried; a handler that has begun goes on.            *)
AfterLoss(c) == IF c.st = "looked" THEN {[c EXCEPT !.tab = None]} ELSE {}

Lose(c) ==
    /\ c.tab # None /\ Fault
    /\ calls' = (calls \ {c}) \cup AfterLoss(c)
    /\ Hear(c, FALSE)
    /\ UNCHANGED <<server, meant, cache, sw, does, presses>>

Query(t, q) == Ask(t, q) \/ Serve(t, q) \/ AskFails(t, q) \/ Arrive(t, q)
Browse(t) ==
    \/ \E b \in System : Visit(t, b)
    \/ Reload(t) \/ HandleSearch(t) \/ ClearSearch(t)
    \/ \E m \in Mails : HandleMessageClick(t, m)
OnList(t) ==
    \/ \E m \in Mails : HandleSelect(t, m) \/ HandleSwipeDelete(t, m) \/ HandleSwipeArchive(t, m)
    \/ HandleSelectAll(t) \/ HandleDeselectAll(t) \/ HandleBulkDelete(t)
    \/ \E op \in {"seen", "unseen"} : HandleMark(t, op)
OnThread(t) ==
    \/ MarkRead(t) \/ HandleDelete(t) \/ HandleArchive(t)
    \/ \E b \in System \cup Folders : HandleMove(t, b)
Folder(t, f) == HandleCreateFolder(t, f) \/ HandleDeleteFolder(t, f)
Handle(c) == Look(c) \/ Write(c) \/ Reply(c) \/ Lose(c)

Next ==
    \/ \E t \in Tabs :
          \/ \E q \in Queries : Query(t, q)
          \/ Browse(t) \/ OnList(t) \/ OnThread(t)
          \/ \E f \in Folders : Folder(t, f)
    \/ \E u \in Urls : Revalidate(u)
    \/ \E c \in calls : Handle(c)

Spec == Init /\ [][Next]_vars

(* The timers of the queries fire, the server and the network get on, and  *)
(* so does a handler that was called.  Nobody has to press anything.       *)
Works == \E c \in calls : Look(c) \/ Write(c) \/ Reply(c)
Fairness ==
    /\ \A t \in Tabs, q \in Queries : WF_vars(Ask(t, q)) /\ WF_vars(Serve(t, q)) /\ WF_vars(Arrive(t, q))
    /\ \A u \in Urls : WF_vars(Revalidate(u))
    /\ \A t \in Tabs : WF_vars(MarkRead(t))
    /\ WF_vars(Works)

FairSpec == Spec /\ Fairness

(***************************************************************************)
(* Properties                                                              *)
(***************************************************************************)
(* A mail is destroyed only when it was deleted, or moved to the trash, at *)
(* least twice, or lay in the trash from the start: whatever answers are   *)
(* lost, however stale the list it was picked from, and whatever another   *)
(* tab does with it between the handler's SELECT and its DELETE.           *)
OnePressNeverDestroys == \A m \in Mails : place[m] = "destroyed" => meant[m] >= 2

(* When no change of folders is under way and the folders are not asked    *)
(* for, the dialog shows no folder that only the page made up: neither an  *)
(* optimistic one nor one that a roll-back of another call brought back;   *)
(* or it says that it failed to load them.                                 *)
NoLeftovers ==
    \A t \in Tabs :
        /\ asks[t]["boxes"] = Idle /\ Known(t, "boxes")
        /\ \A c \in calls : c.tab = t => c.op \notin {"create", "drop"}
        => data[t]["boxes"].temps = {} \/ data[t]["boxes"].error

(* In every tab that shows a mailbox, the list and the folders end up as   *)
(* the server has them, through a stale answer of the service worker, lost *)
(* requests and changes made by other tabs.                                *)
UpToDate(t) ==
    page[t] # Closed /\ page[t].mail = None =>
        /\ data[t]["boxes"] = Answer(<<"boxes", None>>)
        /\ data[t]["list"] = Answer(<<"list", page[t].box>>)
ListCatchesUp == \A t \in Tabs : <>[]UpToDate(t)
=============================================================================
