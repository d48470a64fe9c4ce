------------------------------ MODULE MCAccess ------------------------------
(* Who opens accounts, logs in and administers whom.                        *)
EXTENDS Access

CONSTANTS f1, f2, f3, f4, f5, ann, bob

K(op, u, as) == [op |-> op, user |-> u, as |-> as, arg |-> None, right |-> TRUE]
Wrong(u) == [K("login", u, None) EXCEPT !.right = FALSE]
Admin(u, as, act, t) == [K("admin", u, as) EXCEPT !.arg = [act |-> act, on |-> t]]
Rest(u) == K("none", u, None)

Row0(admin, link) == [Absent EXCEPT !.in = TRUE, !.admin = admin, !.link = link]
Nobody == [u \in Users |-> Absent]
OnlyAnn == [u \in Users |-> IF u = ann THEN Row0(TRUE, None) ELSE Absent]
Both == [u \in Users |-> Row0(u = ann, None)]
TwoAdmins == [u \in Users |-> Row0(TRUE, None)]

Scenario(a, b, c, d, e, users, before, n, clock) ==
    [flows |-> [f \in Flows |-> CASE f = f1 -> a [] f = f2 -> b [] f = f3 -> c
                                  [] f = f4 -> d [] OTHER -> e],
     users |-> users, before |-> before, faults |-> n, ticks |-> clock]

SomeScenarios ==
    {\* two people open the first account and administer each other
     Scenario(K("create", ann, None), K("create", bob, None), Admin(ann, f1, "disable", bob),
              Admin(bob, f2, "delete", ann), Rest(ann), Nobody, {}, 0, FALSE),
     \* two administrators and themselves
     Scenario(K("login", ann, None), K("login", bob, None), Admin(ann, f1, "disable", bob),
              Admin(bob, f2, "disable", bob), Admin(ann, f1, "delete", ann), TwoAdmins, {f1, f2}, 0, FALSE),
     Scenario(K("login", ann, None), Admin(ann, f1, "disable", bob), K("login", bob, None),
              Admin(ann, f1, "enable", bob), K("resend", bob, f3), Both, {f1, f3}, 0, FALSE),
     \* one address, three logins
     Scenario(K("login", ann, None), K("login", ann, None), Rest(ann), Rest(ann), Rest(ann),
              OnlyAnn, {}, 1, TRUE),
     Scenario(K("login", ann, None), K("login", bob, None), Wrong(ann), Rest(ann), Rest(ann),
              OnlyAnn, {}, 0, TRUE),
     \* sessions and their index
     Scenario(K("login", ann, None), K("create", ann, None), K("logoutAll", ann, f1),
              K("logout", ann, f1), K("logoutAll", ann, f3), OnlyAnn, {f1}, 0, FALSE),
     Scenario(K("create", ann, None), K("login", ann, f1), K("logoutAll", ann, f1),
              K("logoutAll", ann, f2), Rest(ann), Nobody, {}, 0, TRUE),
     Scenario(K("login", ann, None), K("login", ann, None), K("logoutAll", ann, f1),
              K("logout", ann, f2), Rest(ann), OnlyAnn, {f1, f2}, 1, FALSE),
     \* registration, links
     Scenario(K("register", ann, None), K("login", ann, f1), K("resend", ann, f2),
              K("verify", ann, f1), K("create", ann, None), Nobody, {}, 1, FALSE),
     Scenario(K("login", ann, None), Admin(ann, f1, "shut", ann), K("create", bob, None),
              Admin(ann, f1, "verify", ann), K("resend", ann, f1), OnlyAnn, {f1}, 1, FALSE)}
=============================================================================
