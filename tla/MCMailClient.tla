---------------------------- MODULE MCMailClient ----------------------------
(* What may be pressed in one or two tabs, with and without the worker: on  *)
(* the mail pages, or on the settings page.  The two share no state, so a   *)
(* behaviour shows one or the other.                                        *)
EXTENDS MailClient

CONSTANTS t1, t2, m1, m2, TooLong, Courses

VARIABLES stored, writes, saves, settingsPage, copy, refresh, course

prefs == <<stored, writes, saves, settingsPage, copy, refresh, course>>

Settings == INSTANCE Settings WITH page <- settingsPage

(* No tab, and nothing to save, are told from what there is.               *)
ASSUME SettingsAssumption ==
    \A f \in Settings!Fields, v \in Settings!Values : Settings!Change(f, v) # None

(* A mail that is not there has gone with a folder before.                  *)
S(w, ts, p, p1, p2, d, n, k) ==
    [sw |-> w, tabs |-> ts, start |-> p, place |-> [m \in Mails |-> IF m = m1 THEN p1 ELSE p2],
     folders |-> {"a"}, does |-> d, presses |-> n, faults |-> k]

ThreadPage == [Inbox EXCEPT !.mail = m1]
SearchPage == [Inbox EXCEPT !.search = TRUE, !.url = TRUE]

SomeScenarios ==
    {S(FALSE, {t1, t2}, Inbox, "inbox", "cascaded", {"delete", "move"}, 2, 0),
     S(TRUE, {t1, t2}, Inbox, "inbox", "cascaded", {"delete"}, 2, 0),
     S(TRUE, {t1}, ThreadPage, "inbox", "cascaded", {"delete", "visit"}, 2, 1),
     S(FALSE, {t1}, ThreadPage, "inbox", "cascaded", {"move", "drop"}, 2, 0),
     S(FALSE, {t1}, Inbox, "inbox", "trash", {"select", "delete", "seen", "unseen"}, 3, 0),
     S(FALSE, {t1}, Inbox, "inbox", "inbox", {"select", "delete"}, 2, 0),
     S(FALSE, {t1}, Inbox, "inbox", "cascaded", {"create", "drop"}, 2, 1),
     S(TRUE, {t1}, SearchPage, "inbox", "archive", {"visit", "reload", "search", "click", "delete"}, 2, 0)}

NoMail == S(FALSE, {}, Inbox, "inbox", "cascaded", {}, 0, 0)

(* C: the tabs on the settings page, and what was set before.              *)
C(ts, x, w, d, n, k) == [tabs |-> ts, set |-> x, sw |-> w, does |-> d, presses |-> n, faults |-> k]

NoSettings == C({}, {}, FALSE, {}, 0, 0)
SomeCourses ==
    {C({t1}, {"theme"}, FALSE, {"theme", "messagesPerPage", "notificationsEnabled"}, 3, 1),
     C({t1}, {"profile"}, FALSE, {"messagesPerPage", "type", "focus"}, 2, 1),
     C({t1}, {"autoMarkRead"}, TRUE, {"autoMarkRead", "reopen", "focus"}, 3, 1),
     C({t1, t2}, {"messagesPerPage"}, FALSE, {"theme", "messagesPerPage", "type"}, 2, 0)}

AllScenarios == SomeScenarios \cup {NoMail}
AllCourses == SomeCourses \cup {NoSettings}

MCInit ==
    /\ Init /\ Settings!Init
    /\ (\A t \in Tabs : page[t] = Closed) <=> course # NoSettings

MCNext ==
    \/ Next /\ UNCHANGED prefs
    \/ Settings!Next /\ UNCHANGED vars

MCSpec == MCInit /\ [][MCNext]_<<vars, prefs>> /\ Fairness

NeighboursKept == Settings!NeighboursKept
ShownIsStored == Settings!ShownIsStored
=============================================================================
