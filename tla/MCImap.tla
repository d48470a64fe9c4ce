------------------------------- MODULE MCImap -------------------------------
(* What two mail clients of one user send.                                 *)
EXTENDS ImapSession

CONSTANTS c1, c2

L(cmd, arg, by) == [cmd |-> cmd, arg |-> arg, by |-> by]
P(cmd) == L(cmd, "none", "none")
Open  == <<P("LOGIN"), L("SELECT", "inbox", "none")>>
Learn == Open \o <<P("FETCH")>>
Flag(by) == <<L("STORE", "+", by), P("EXPUNGE")>>
Bye   == <<P("LOGOUT"), P("NOOP")>>

(* c1 reads and deletes, c2 does something else at the same time           *)
Scenario(s, t, fails, removals, hangups) ==
    [script |-> [c \in {c1, c2} |-> IF c = c1 THEN s ELSE t],
     fails |-> fails, removals |-> removals, hangups |-> hangups]

SomeScenarios ==
    {Scenario(Learn \o <<L("STORE", "+", "number")>> \o Flag("number")
                \o <<L("STORE", "+", "number"), P("CLOSE")>>, <<>>, 0, 0, 0),
     Scenario(Learn \o Flag("number"), <<>>, 1, 1, 1),
     Scenario(Learn \o <<P("FETCH")>> \o Flag("number"), <<>>, 1, 1, 0),
     Scenario(Open \o <<L("SEARCH", "all", "none"), L("STORE", "+", "number"),
                    L("SEARCH", "deleted", "none"), P("EXPUNGE"),
                    L("STORE", "+", "number"), P("CLOSE")>>, <<>>, 1, 1, 0),
     Scenario(Learn \o Flag("uid"), Learn \o Flag("number"), 0, 0, 0),
     Scenario(Learn \o <<L("STORE", "+", "uid"), L("STORE", "-", "uid")>>,
          Learn \o <<L("STORE", "seen", "number"), P("EXPUNGE")>>, 0, 0, 0),
     Scenario(Open \o <<P("IDLE"), P("DONE"), L("SELECT", "work", "none"),
                    P("IDLE"), P("IDLE")>> \o Bye, <<>>, 1, 0, 1),
     Scenario(Open \o <<P("CLOSE"), L("CREATE", "work", "none"), L("DELETE", "inbox", "none"),
                    P("FETCH")>>,
          <<P("LIST"), P("LOGIN"), P("LOGIN"), P("LIST"),
            L("STATUS", "inbox", "none"),
            L("APPEND", "work", "none")>>, 0, 0, 0),
     Scenario(Learn \o <<L("STORE", "+", "number"), L("COPY", "work", "number"),
                     L("SELECT", "work", "none"), P("EXPUNGE")>>,
          <<P("LOGIN"), L("DELETE", "work", "none"), L("CREATE", "work", "none")>>, 0, 0, 0),
     Scenario(<<P("LOGIN"), L("DELETE", "work", "none"), L("CREATE", "work", "none")>>,
          <<P("LOGIN"), L("CREATE", "work", "none")>>, 1, 0, 1)}
=============================================================================
