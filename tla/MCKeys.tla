------------------------------- MODULE MCKeys -------------------------------
(* Which dialogs, tabs, mails and readers meet.                             *)
EXTENDS Keys

CONSTANTS f1, f2, f3, f4, f5

K(op, typed, pass) == [op |-> op, typed |-> typed, pass |-> pass]
Rotate == K("rotate", "old", "old")
Change == K("change", "old", "new")
Unlocks(p) == K("unlock", p, p)
Plain(op) == K(op, "old", "old")

Scenario(a, b, c, d, e, w, n) ==
    [flows |-> [f \in Flows |-> CASE f = f1 -> a [] f = f2 -> b [] f = f3 -> c
                                  [] f = f4 -> d [] OTHER -> e],
     sw |-> w, faults |-> n]

SomeScenarios ==
    {Scenario(Rotate, Plain("none"), Unlocks("old"), Plain("mail"), Plain("none"), FALSE, 1),
     Scenario(Rotate, Change, Unlocks("old"), Plain("mail"), Plain("none"), FALSE, 0),
     Scenario(Rotate, Plain("none"), Unlocks("old"), Plain("mail"), Unlocks("old"), TRUE, 1),
     Scenario(Change, Change, Unlocks("new"), Plain("mail"), Plain("export"), FALSE, 1),
     Scenario(Change, Change, Unlocks("new"), Plain("mail"), Plain("none"), TRUE, 1),
     Scenario(Plain("prekeys"), Plain("bundle"), Plain("bundle"), Plain("bundle"), Plain("prekeys"), FALSE, 1)}

(* A tab was unlocked, the keys are rotated, then the passphrase changes.  *)
OneBrowser == {Scenario(Rotate, Change, Unlocks("old"), Plain("none"), Plain("none"), TRUE, 0)}
=============================================================================
