\* Two wizards on a fresh server, the first with faults, and the visit after it.
SPECIFICATION MCSpec
CONSTANTS
    Wizards = {w1, w2, w3}
    Before <- AfterReload
    Second = w2
    Again = w3
    Emails = {e1, e2}
    Email = e1
    Domain = d1
    Domains = {d1, d2}
    NoEmail = NoEmail
    NoDomain = NoDomain
    NoBundle = NoBundle
    Unlucky = {w1}
    MaxGens = 2
INVARIANTS
    KeyGate
    ClaimsAreTrue
PROPERTIES
    PressSettles
CHECK_DEADLOCK FALSE
