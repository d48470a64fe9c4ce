------------------------------ MODULE Settings ------------------------------
(* The settings page in several tabs, over GET and PUT /settings: a page    *)
(* shows a choice at once, and saves it at once or 500 ms later, through    *)
(* one timer for all of its settings; the profile of the same page is saved *)
(* by a button of its own.  The route merges what it is sent into what it   *)
(* read.  Pages share the row and the service worker's copy, nothing else.  *)
EXTENDS Naturals, FiniteSets

CONSTANTS Tabs, None,
          TooLong,     \* a profile that the schema refuses
          Courses      \* what may happen: see Init

Debounced == {"messagesPerPage", "notificationsEnabled", "autoMarkRead"}
Fields == {"theme", "profile"} \cup Debounced
Values == {0, 1}
Defaults == [f \in Fields |-> 0]       \* an empty name and signature among them

VARIABLES
    stored,    \* users.preferences, None where nothing was ever set
    writes,    \* how often it was written
    saves,     \* PUTs under way
    page,      \* what each tab holds
    copy,      \* the service worker's copy of the last GET
    refresh,   \* it fetches another one
    course     \* what may still happen

vars == <<stored, writes, saves, page, copy, refresh, course>>

NoAsk == [st |-> "idle", body |-> None, of |-> 0]

(* heard: which write the page's data is from; unsaved: a save has failed  *)
(* since; typed: the fields of the profile; timer: the change it is for.   *)
Loading == [data |-> None, error |-> FALSE, heard |-> 0, unsaved |-> FALSE,
            typed |-> None, timer |-> None, ask |-> NoAsk]
Closed == [Loading EXCEPT !.ask.st = "closed"]

Init ==
    /\ course \in Courses
    /\ stored = [f \in Fields |-> IF f \in course.set THEN 1 ELSE None]
    /\ writes = 0 /\ saves = {}
    /\ page = [t \in Tabs |-> IF t \in course.tabs THEN Loading ELSE Closed]
    /\ copy = None /\ refresh = FALSE

Fault == course.faults > 0 /\ course' = [course EXCEPT !.faults = @ - 1]
Press(f) == f \in course.does /\ course.presses > 0 /\ course' = [course EXCEPT !.presses = @ - 1]

(***************************************************************************)
(* The route                                                               *)
(***************************************************************************)
MergeWithDefaults(p) == [f \in Fields |-> IF p[f] = None THEN Defaults[f] ELSE p[f]]

(* A request names some settings; the others stay as they are in p.        *)
Change(f, v) == [g \in {f} |-> v]
Over(incoming, p) == [f \in Fields |-> IF f \in DOMAIN incoming THEN incoming[f] ELSE p[f]]

(* Mutation: what the request leaves out is filled in with defaults.       *)
MergedWithDefaults(existing, incoming) == Over(incoming, Defaults)

Merged(existing, incoming) == Over(incoming, existing)

Becomes(r, q) == saves' = (saves \ {r}) \cup {q}

GetSettings == [st |-> "back", body |-> MergeWithDefaults(stored), of |-> writes]

(* PUT: the body is checked, the row is read,                              *)
RefusesUpdate(r) == TooLong \in {r.incoming[f] : f \in DOMAIN r.incoming}
ReadExisting(r) ==
    /\ r.step = "sent"
    /\ Becomes(r, IF RefusesUpdate(r) THEN [r EXCEPT !.step = "refused"]
                  ELSE [r EXCEPT !.step = "read", !.existing = stored, !.of = writes])
    /\ UNCHANGED <<stored, writes, page, copy, refresh, course>>

(* and written as a whole; the answer is what was written.                 *)
UpdatePreferences(r) ==
    /\ r.step = "read"
    /\ stored' = Merged(r.existing, r.incoming)
    /\ writes' = writes + 1
    /\ Becomes(r, [r EXCEPT !.step = "written", !.existing = stored', !.of = writes'])
    /\ UNCHANGED <<page, copy, refresh, course>>

(***************************************************************************)
(* The page's query, which both parts of the page share                    *)
(***************************************************************************)
Ready(t) == page[t].data # None /\ ~page[t].error

(* The worker answers with its copy and fetches another.                   *)
FetchSettings(t) ==
    /\ page[t].ask = NoAsk
    /\ page' = [page EXCEPT ![t].ask = IF copy = None THEN [NoAsk EXCEPT !.st = "sent"] ELSE copy]
    /\ refresh' = (refresh \/ copy # None)
    /\ UNCHANGED <<stored, writes, saves, copy>>

Mount(t) == page[t] = Loading /\ FetchSettings(t) /\ UNCHANGED course
RefetchOnFocus(t) == page[t] # Loading /\ Press("focus") /\ FetchSettings(t)

Serve(t) ==
    /\ page[t].ask.st = "sent"
    /\ page' = [page EXCEPT ![t].ask = GetSettings]
    /\ copy' = IF course.sw THEN GetSettings ELSE copy
    /\ UNCHANGED <<stored, writes, saves, refresh, course>>

Revalidate ==
    /\ refresh /\ refresh' = FALSE
    /\ \/ copy' = GetSettings /\ UNCHANGED course
       \/ Fault /\ UNCHANGED copy
    /\ UNCHANGED <<stored, writes, saves, page>>

(* The profile's fields start from the data whenever they appear, and      *)
(* again when the name or the signature in it changes.                     *)
Typed(p, data) ==
    IF p.data = None \/ p.error \/ p.data["profile"] # data["profile"]
    THEN data["profile"] ELSE p.typed

SetQueryData(p, data) == [p EXCEPT !.data = data, !.error = FALSE, !.typed = Typed(p, data)]
Hears(p, data, of) == [SetQueryData(p, data) EXCEPT !.heard = of, !.unsaved = FALSE]

Arrive(t) ==
    /\ page[t].ask.st = "back"
    /\ page' = [page EXCEPT ![t] = [Hears(@, @.ask.body, @.ask.of) EXCEPT !.ask = NoAsk]]
    /\ UNCHANGED <<stored, writes, saves, copy, refresh, course>>

(* The newest save of a part is not the one it follows any more.           *)
Unfollowed(t, part) ==
    {IF r.tab = t /\ r.part = part THEN [r EXCEPT !.last = FALSE] ELSE r : r \in saves}

(* After the retries both parts show an error in place of their controls;  *)
(* the profile's is unmounted, and forgets what was typed and is saved.    *)
FetchFails(t) ==
    /\ page[t].ask.st = "sent" /\ Fault
    /\ page' = [page EXCEPT ![t].ask = NoAsk, ![t].error = TRUE, ![t].typed = None]
    /\ saves' = Unfollowed(t, "profile")
    /\ UNCHANGED <<stored, writes, copy, refresh>>

(***************************************************************************)
(* The page's choices                                                      *)
(***************************************************************************)
(* mutate: the part follows the answer of its last save only, but every    *)
(* answer is taken.                                                        *)
Mutate(t, part, changes) ==
    saves' = Unfollowed(t, part) \cup
             {[n |-> course.presses, tab |-> t, part |-> part, last |-> TRUE, step |-> "sent",
               incoming |-> changes, existing |-> None, of |-> 0]}
IsPending(t, part) == \E r \in saves : r.tab = t /\ r.part = part /\ r.last

Optimistic(t, f, v) == SetQueryData(page[t], [page[t].data EXCEPT ![f] = v])
Chooses(t, f, v) ==
    /\ Ready(t) /\ ~IsPending(t, "appearance") /\ Press(f)
    /\ page[t].data[f] # v

HandleThemeChange(t, v) ==
    /\ Chooses(t, "theme", v)
    /\ page' = [page EXCEPT ![t] = Optimistic(t, "theme", v)]
    /\ Mutate(t, "appearance", Change("theme", v))
    /\ UNCHANGED <<stored, writes, copy, refresh>>

(* One timer for the three others: what it was to save is forgotten.       *)
DebouncedUpdate(t, f, v) == [Optimistic(t, f, v) EXCEPT !.timer = Change(f, v)]
HandleLater(t, f, v) ==
    /\ Chooses(t, f, v)
    /\ page' = [page EXCEPT ![t] = DebouncedUpdate(t, f, v)]
    /\ UNCHANGED <<stored, writes, saves, copy, refresh>>
HandlePageSizeChange(t, v) == HandleLater(t, "messagesPerPage", v)
HandleNotificationsChange(t, v) == HandleLater(t, "notificationsEnabled", v)
HandleAutoMarkReadChange(t, v) == HandleLater(t, "autoMarkRead", v)

(* The timer saves whether or not another save is under way.               *)
TimerFires(t) ==
    /\ page[t].timer # None
    /\ Mutate(t, "appearance", page[t].timer)
    /\ page' = [page EXCEPT ![t].timer = None]
    /\ UNCHANGED <<stored, writes, copy, refresh, course>>

TypeProfile(t, v) ==
    /\ Ready(t) /\ Press("type") /\ v # page[t].typed
    /\ page' = [page EXCEPT ![t].typed = v]
    /\ UNCHANGED <<stored, writes, saves, copy, refresh>>

IsDirty(t) == page[t].typed # page[t].data["profile"]
HandleSave(t) ==
    /\ Ready(t) /\ IsDirty(t) /\ ~IsPending(t, "profile")
    /\ Mutate(t, "profile", Change("profile", page[t].typed))
    /\ UNCHANGED <<stored, writes, page, copy, refresh, course>>

(***************************************************************************)
(* The answer of a save                                                    *)
(***************************************************************************)
(* Mutation: the page keeps what it shows and takes its own change only.   *)
OwnChange(shown, r) == Over(r.incoming, shown)

Answered(shown, r) == MergeWithDefaults(r.existing)

SaveSucceeds(r) ==
    /\ r.step = "written"
    /\ saves' = saves \ {r}
    /\ page' = IF r.tab = None THEN page
               ELSE [page EXCEPT ![r.tab] = Hears(@, Answered(@.data, r), r.of)]
    /\ UNCHANGED <<stored, writes, copy, refresh, course>>

(* A choice that was not saved stays on the page, beside the error.        *)
SaveFails(r) ==
    /\ \/ r.step = "refused" /\ saves' = saves \ {r} /\ UNCHANGED course
       \/ /\ r.step \in {"sent", "written"} /\ r.tab # None /\ Fault
          /\ saves' = saves \ {r}
       \/ /\ r.step = "read" /\ r.tab # None /\ Fault
          /\ Becomes(r, [r EXCEPT !.tab = None])       \* the handler goes on
    /\ page' = IF r.tab = None THEN page ELSE [page EXCEPT ![r.tab].unsaved = TRUE]
    /\ UNCHANGED <<stored, writes, copy, refresh>>

(* The user leaves and comes back: a new page, without the old one's timer *)
(* and the answers it waited for.                                          *)
Reopen(t) ==
    /\ page[t] # Closed /\ Press("reopen")
    /\ page' = [page EXCEPT ![t] = Loading]
    /\ saves' = {IF r.tab = t THEN [r EXCEPT !.tab = None] ELSE r : r \in saves}
    /\ UNCHANGED <<stored, writes, copy, refresh>>

Query(t) == Mount(t) \/ RefetchOnFocus(t) \/ Serve(t) \/ Arrive(t) \/ FetchFails(t)
Choice(t) ==
    \/ \E v \in Values : \/ HandleThemeChange(t, v)
                         \/ HandlePageSizeChange(t, v)
                         \/ HandleNotificationsChange(t, v)
                         \/ HandleAutoMarkReadChange(t, v)
    \/ \E v \in Values \cup {TooLong} : TypeProfile(t, v)
    \/ TimerFires(t) \/ HandleSave(t) \/ Reopen(t)
Save(r) == ReadExisting(r) \/ UpdatePreferences(r) \/ SaveSucceeds(r) \/ SaveFails(r)

Next ==
    \/ \E t \in Tabs : Query(t) \/ Choice(t)
    \/ \E r \in saves : Save(r)
    \/ Revalidate

Spec == Init /\ [][Next]_vars

(***************************************************************************)
(* Properties                                                              *)
(***************************************************************************)
(* A save changes no setting it does not name, unless it read the row      *)
(* before another save wrote it: two saves at once, which one page can     *)
(* start by itself, are the only way to lose a setting.                    *)
NeighboursKept ==
    [][\A f \in Fields : MergeWithDefaults(stored')[f] # MergeWithDefaults(stored)[f] =>
          \E r \in saves \ saves' : /\ r.step = "read"
                                    /\ f \in DOMAIN r.incoming \/ r.of # writes]_vars

(* A page with nothing to save, nothing under way and no failed save,      *)
(* whose last answer, to a load or to a save, is from after the last write *)
(* shows what is stored: a choice that the shared timer forgot is not left *)
(* on the screen.                                                          *)
Quiet(t) ==
    /\ Ready(t) /\ ~page[t].unsaved /\ page[t].timer = None /\ page[t].ask = NoAsk
    /\ \A r \in saves : r.tab # t
ShownIsStored ==
    \A t \in Tabs : Quiet(t) /\ page[t].heard = writes => page[t].data = MergeWithDefaults(stored)
=============================================================================
