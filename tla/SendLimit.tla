----------------------------- MODULE SendLimit -----------------------------
(* createUserRateLimiter of server/middleware/rate-limit.ts, which stands   *)
(* before the compose routes: the requests of one user on one route, and    *)
(* the sorted set that Redis keeps of them.  A request reads the clock and  *)
(* then sends one MULTI; requests overtake each other in between.           *)
EXTENDS Naturals, FiniteSets

CONSTANTS
    Requests,
    Max,        \* requests let through per window
    Window,     \* length of the window, in ticks
    EndOfTime   \* bound: the last tick

ASSUME SendLimitAssumption ==
    /\ IsFiniteSet(Requests)
    /\ Max \in Nat /\ Window \in Nat \ {0} /\ EndOfTime \in Nat

VARIABLES
    now,
    at,        \* where each request is, or how it ended
    began,     \* the clock as each request read it: its score in the set
    counted,   \* when its MULTI was executed
    members,   \* the members of the sorted set
    expires    \* when Redis deletes the set

limiter == <<now, at, began, counted, members, expires>>

LimiterInit ==
    /\ now = 0 /\ members = {} /\ expires = 0
    /\ at = [r \in Requests |-> "idle"]
    /\ began = [r \in Requests |-> 0]
    /\ counted = [r \in Requests |-> 0]

ReadClock(r) ==
    /\ at[r] = "idle"
    /\ at' = [at EXCEPT ![r] = "calling"]
    /\ began' = [began EXCEPT ![r] = now]
    /\ UNCHANGED <<now, counted, members, expires>>

(* ZREMRANGEBYSCORE removes what is not later than windowStart              *)
Kept(r) == {e \in members : began[e] + Window > began[r]}

(* Mutation: the request is added after the count.                          *)
AddedLate(r) == Kept(r)

Added(r) == Kept(r) \cup {r}

(* The four commands of the MULTI                                           *)
Execute(r) ==
    /\ members' = Kept(r) \cup {r}
    /\ expires' = now + Window
    /\ counted' = [counted EXCEPT ![r] = now]
    /\ UNCHANGED <<now, began>>

(* Refused beyond the limit; a refused request stays in the set             *)
Limit(r) ==
    /\ at[r] = "calling"
    /\ Execute(r)
    /\ at' = [at EXCEPT ![r] = IF Cardinality(Added(r)) > Max THEN "refused" ELSE "passed"]

(* Executed, but without an answer: the request is let through              *)
LoseAnswer(r) ==
    /\ at[r] = "calling"
    /\ Execute(r)
    /\ at' = [at EXCEPT ![r] = "unanswered"]

(* Let through without having been counted                                  *)
FailOpen(r) ==
    /\ at[r] = "calling"
    /\ at' = [at EXCEPT ![r] = "failed"]
    /\ UNCHANGED <<now, began, counted, members, expires>>

Tick ==
    /\ now < EndOfTime
    /\ now' = now + 1
    /\ members' = IF expires <= now + 1 THEN {} ELSE members
    /\ UNCHANGED <<at, began, counted, expires>>

LimiterNext ==
    \/ \E r \in Requests : ReadClock(r) \/ Limit(r) \/ LoseAnswer(r) \/ FailOpen(r)
    \/ Tick

LimiterSpec == LimiterInit /\ [][LimiterNext]_limiter

Counted(r) == at[r] \in {"passed", "refused", "unanswered"}

(* At any time t: of the requests that began within the last window and     *)
(* have been counted, at most Max were let through by the count.            *)
AtMostMax ==
    \A t \in 0 .. now :
        Cardinality({r \in Requests : /\ at[r] = "passed"
                                      /\ began[r] + Window > t /\ counted[r] <= t}) <= Max

(* A request is refused only when more than Max, itself among them, were    *)
(* counted before it and began less than a window before it, or later.      *)
RefusedWhenBusy ==
    \A r \in Requests : at[r] = "refused" =>
        Cardinality({e \in Requests : /\ Counted(e) /\ began[e] + Window > began[r]
                                      /\ counted[e] <= counted[r]}) > Max

(* The limiter is exact, whatever order the requests come in: neither more  *)
(* than Max per window nor a refusal without as many.                       *)
SlidingWindow == AtMostMax /\ RefusedWhenBusy
=============================================================================
