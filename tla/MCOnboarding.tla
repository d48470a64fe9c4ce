---------------------------- MODULE MCOnboarding ----------------------------
(***************************************************************************)
(* Ways for wizards to meet: the second configures another domain while    *)
(* the first goes all the way; the first is reloaded, and its user comes   *)
(* back in a third; or all three make accounts on a server that is set up, *)
(* the second in a wizard that is past the certificate or that is only now *)
(* opened.                                                                 *)
(***************************************************************************)
EXTENDS Onboarding

CONSTANTS
    Second,   \* the wizard that meets the other one
    Again,    \* the visit after a reload
    Email,    \* the address the other one enters
    Domain    \* the domain the other one configures

AfterReload == Unlucky \X {Again}

VARIABLE scenario

(* A wizard that has come to the credentials, the domain being configured. *)
AtCredentials == [BlankPage EXCEPT !.mode = "fresh", !.step = 6]

AccountsInit ==
    /\ account = [e \in Emails |->
                    [keys |-> NoBundle, confirmed |-> FALSE, admin |-> FALSE]]
    /\ domain = Domain
    /\ open = TRUE
    /\ certs = {}
    /\ files = [w \in Wizards |-> {}]
    /\ gens = [w \in Wizards |-> 0]
    /\ setter = Wizards \ {Second, Again}
    /\ mishaps = [w \in Wizards |-> {}]
    /\ call = [w \in Wizards |-> [op \in Ops |-> NoCall]]
    /\ \E started \in SUBSET {Second} :
          page = [w \in Wizards |-> IF w \in {Second, Again} \ started
                                   THEN BlankPage ELSE AtCredentials]

(* What is begun, and who takes part.                                      *)
Scenarios ==
    [begun : {"setup", "accounts"}, crew : {Unlucky \cup {w} : w \in {Second, Again}}]

MCInit ==
    /\ scenario \in Scenarios
    /\ scenario.begun = "setup" => WizardInit
    /\ scenario.begun = "accounts" => AccountsInit

MCNext ==
    /\ UNCHANGED scenario
    /\ WizardNext
    /\ \A w \in Wizards \ scenario.crew : page'[w] = page[w] /\ call'[w] = call[w]
    /\ gens'[Second] <= 1
    /\ \A w \in Unlucky : page'[w].email \in {NoEmail, Email}
    /\ \A w \in Wizards \ {Second} : call'[w]["domain"].dom \in {NoDomain, Domain}
    /\ scenario.begun = "setup" => \A w \in Wizards : page'[w].step <= 6
    /\ scenario.begun = "accounts" =>
          /\ page'[Second].step \notin 3..5
          /\ call'[Second]["domain"].dom \in {NoDomain, Domain}

MCSpec == MCInit /\ [][MCNext]_<<wizardVars, scenario>> /\ Fairness
=============================================================================
