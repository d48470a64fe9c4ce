---------------------------- MODULE AccessProofs ----------------------------
(* Proofs about Access, for any number of flows, users, failures and       *)
(* ticks, and any scenario.  TypeCorrect: the types, which rest on where a *)
(* flow of each kind may stand (PlaceInv).  AdminAlwaysRemains: the steps  *)
(* of people, requests and failures leave an administrator (AdminStep).    *)
(* LonelyLoginAlwaysWorks: a login that met no other one is not refused    *)
(* (LonelyInv).  AllAlwaysMeansAll: after a log-out of all devices its     *)
(* sessions are gone (ListInv).                                            *)
EXTENDS Access, TLAPS

(***************************************************************************)
(* Types                                                                   *)
(***************************************************************************)
LoginOnly == {"incr", "expire", "find", "challenge", "prove", "match?", "forget", "drop",
              "dropFailed", "verified?"}
LoginPoints == LoginOnly \cup {"idle", "set", "sadd", "pexpire"} \cup Ended
CreatePoints == {"idle", "open", "email", "count", "insert", "set", "sadd", "pexpire"} \cup Ended
LogoutAllPoints == {"idle", "members", "delKeys", "delIndex"} \cup Ended
Points == LoginPoints \cup LogoutAllPoints \cup CreatePoints
          \cup {"mail", "get", "srem", "del", "session",
                "enabled?", "admin?", "act", "unverified?", "link", "match", "confirm"}
Memory == [flag : BOOLEAN, then : {"", "find", "match?"}, read : SUBSET Flows, due : SUBSET Flows]
Challenges == [by : Flows \cup {None}, left : {0, 1}]
History == [met : SUBSET Flows, missed : SUBSET Flows, stale : BOOLEAN, lost : BOOLEAN]

(* The rows, the keys of Redis and what the flows remember have the shape  *)
(* of the code's records, and no key outlives its expiry time.             *)
TypeOK ==
    /\ \E s \in Scenarios : kind = s.flows
    /\ faults \in Nat /\ ticks \in BOOLEAN /\ open \in BOOLEAN /\ hits \in Nat
    /\ at \in [Flows -> Points] /\ mem \in [Flows -> Memory]
    /\ user \in [Users -> Rows] /\ mailed \in [Users -> SUBSET Flows]
    /\ session \in [Flows -> 0 .. SessionTtl]
    /\ index \in [Users -> SUBSET Flows] /\ indexLeft \in [Users -> 0 .. Forever]
    /\ srp \in [Users -> Challenges] /\ hitsLeft \in 0 .. Forever
    /\ seen \in History

(* Where the flows of an operation may stand, and that a login which has   *)
(* asked for its challenge goes on with the proof.                         *)
Placed(f) ==
    /\ at[f] \notin Ended \cup {"idle"} => mem[f].then \in {"find", "match?"}
    /\ Op(f) = "login" => at[f] \in LoginPoints
    /\ Op(f) = "logoutAll" => at[f] \in LogoutAllPoints
    /\ Op(f) = "create" => at[f] \in CreatePoints
    /\ at[f] \in LoginOnly => Op(f) = "login"
    /\ at[f] \in {"get", "srem", "del"} => Op(f) = "logout"
    /\ at[f] \in {"prove", "match?", "forget", "drop", "dropFailed", "verified?"}
          => mem[f].then = "match?"
    /\ Op(f) = "login" /\ at[f] \in {"set", "sadd", "pexpire"} => mem[f].then = "match?"

PlaceInv == \A f \in Flows : Placed(f)

LEMMA KindTyped ==
    ASSUME TypeOK, NEW f \in Flows
    PROVE  Op(f) \in Ops /\ Own(f) \in Users /\ As(f) \in Flows \cup {None}
BY AccessAssumption DEF TypeOK, AccessAssumption, Op, Own, As

LEMMA BlankTyped == Blank \in Memory /\ NoState \in Challenges /\ Absent \in Rows
BY DEF Blank, Memory, NoState, Challenges, Absent, Rows

LEMMA Walked ==
    ASSUME at \in [Flows -> Points], NEW f \in Flows, NEW p, NEW q \in Points, Step(f, p, q)
    PROVE  /\ at[f] = p /\ at' \in [Flows -> Points] /\ at'[f] = q
           /\ \A g \in Flows \ {f} : at'[g] = at[g]
BY DEF Step

LEMMA Kept ==
    ASSUME mem \in [Flows -> Memory], NEW f \in Flows, NEW m \in Memory, Keep(f, m)
    PROVE  /\ mem' \in [Flows -> Memory] /\ mem'[f] = m
           /\ \A g \in Flows \ {f} : mem'[g] = mem[g]
BY DEF Keep

(* What a step of one flow may do to the others: nothing.                  *)
Alone(f) ==
    /\ kind' = kind /\ ticks' = ticks
    /\ at' \in [Flows -> Points] /\ mem' \in [Flows -> Memory]
    /\ \A g \in Flows \ {f} : at'[g] = at[g] /\ mem'[g] = mem[g]

LEMMA PlacedAlone ==
    ASSUME PlaceInv, NEW f \in Flows, Alone(f), Placed(f)'
    PROVE  PlaceInv'
BY DEF PlaceInv, Placed, Alone, Op

LEMMA AccountPlaced ==
    ASSUME TypeOK, PlaceInv, NEW f \in Flows, Account(f)
    PROVE  Alone(f) /\ Placed(f)'
<1>1. /\ at \in [Flows -> Points] /\ mem \in [Flows -> Memory] /\ mem[f] \in Memory /\ Placed(f)
      /\ Own(f) \in Users /\ Op(f) \in Ops /\ index[Own(f)] \subseteq Flows
  BY KindTyped DEF TypeOK, PlaceInv
<1>2. CASE CheckOpen(f)
  <2>1. PICK q \in {"email", "refused"} : Step(f, "open", q)
    BY <1>1, <1>2 DEF CheckOpen
  <2>2. q \in Points
    BY DEF Points, LoginPoints, CreatePoints, LogoutAllPoints, LoginOnly, Ended
  <2>3. /\ at[f] = "open" /\ at' \in [Flows -> Points] /\ at'[f] = q
        /\ \A g \in Flows \ {f} : at'[g] = at[g]
    BY <1>1, <2>1, <2>2, Walked
  <2>4. mem' = mem /\ kind' = kind /\ ticks' = ticks
    BY <1>2 DEF CheckOpen, work
  <2> QED BY <1>1, <2>1, <2>3, <2>4 DEF Alone, Placed, Op, Points, LoginPoints, CreatePoints, LogoutAllPoints, LoginOnly, Ended
<1>3. CASE CheckEmail(f)
  <2>1. PICK q \in {"refused", "count", "insert"} : Step(f, "email", q) /\ (Op(f) = "create" => q # "insert")
    BY <1>1, <1>3 DEF CheckEmail
  <2>2. q \in Points
    BY DEF Points, LoginPoints, CreatePoints, LogoutAllPoints, LoginOnly, Ended
  <2>3. /\ at[f] = "email" /\ at' \in [Flows -> Points] /\ at'[f] = q
        /\ \A g \in Flows \ {f} : at'[g] = at[g]
    BY <1>1, <2>1, <2>2, Walked
  <2>4. mem' = mem /\ kind' = kind /\ ticks' = ticks
    BY <1>3 DEF CheckEmail, work
  <2> QED BY <1>1, <2>1, <2>3, <2>4 DEF Alone, Placed, Op, Points, LoginPoints, CreatePoints, LogoutAllPoints, LoginOnly, Ended
<1>4. CASE CountUsers(f)
  <2>1. PICK q \in {"insert"} : Step(f, "count", q)
    BY <1>1, <1>4 DEF CountUsers
  <2>2. q \in Points
    BY DEF Points, LoginPoints, CreatePoints, LogoutAllPoints, LoginOnly, Ended
  <2>3. /\ at[f] = "count" /\ at' \in [Flows -> Points] /\ at'[f] = q
        /\ \A g \in Flows \ {f} : at'[g] = at[g]
    BY <1>1, <2>1, <2>2, Walked
  <2> DEFINE m == [mem[f] EXCEPT !.flag = \A u \in Users : ~user[u].in]
  <2>4. m \in Memory /\ m.then = mem[f].then
    BY <1>1 DEF Memory
  <2>5. Keep(f, m) /\ kind' = kind /\ ticks' = ticks
    BY <1>4 DEF CountUsers, work
  <2> HIDE DEF m
  <2>6. /\ mem' \in [Flows -> Memory] /\ mem'[f].then = m.then
        /\ \A g \in Flows \ {f} : mem'[g] = mem[g]
    BY <1>1, <2>4, <2>5, Kept
  <2> QED BY <1>1, <2>1, <2>3, <2>4, <2>5, <2>6 DEF Alone, Placed, Op, Points, LoginPoints, CreatePoints, LogoutAllPoints, LoginOnly, Ended
<1>5. CASE Insert(f)
  <2>1. PICK q \in {"failed", "set", "mail"} : Step(f, "insert", q) /\ (Op(f) = "create" => q # "mail")
    BY <1>1, <1>5 DEF Insert
  <2>2. q \in Points
    BY DEF Points, LoginPoints, CreatePoints, LogoutAllPoints, LoginOnly, Ended
  <2>3. /\ at[f] = "insert" /\ at' \in [Flows -> Points] /\ at'[f] = q
        /\ \A g \in Flows \ {f} : at'[g] = at[g]
    BY <1>1, <2>1, <2>2, Walked
  <2>4. mem' = mem /\ kind' = kind /\ ticks' = ticks
    BY <1>5 DEF Insert, work
  <2> QED BY <1>1, <2>1, <2>3, <2>4 DEF Alone, Placed, Op, Points, LoginPoints, CreatePoints, LogoutAllPoints, LoginOnly, Ended
<1>6. CASE Mail(f)
  <2>1. PICK q \in {"done"} : Step(f, "mail", q)
    BY <1>1, <1>6 DEF Mail
  <2>2. q \in Points
    BY DEF Points, LoginPoints, CreatePoints, LogoutAllPoints, LoginOnly, Ended
  <2>3. /\ at[f] = "mail" /\ at' \in [Flows -> Points] /\ at'[f] = q
        /\ \A g \in Flows \ {f} : at'[g] = at[g]
    BY <1>1, <2>1, <2>2, Walked
  <2>4. mem' = mem /\ kind' = kind /\ ticks' = ticks
    BY <1>6 DEF Mail, work
  <2> QED BY <1>1, <2>1, <2>3, <2>4 DEF Alone, Placed, Op, Points, LoginPoints, CreatePoints, LogoutAllPoints, LoginOnly, Ended
<1> QED BY <1>2, <1>3, <1>4, <1>5, <1>6 DEF Account

LEMMA SessionPlaced ==
    ASSUME TypeOK, PlaceInv, NEW f \in Flows, Session(f)
    PROVE  Alone(f) /\ Placed(f)'
<1>1. /\ at \in [Flows -> Points] /\ mem \in [Flows -> Memory] /\ mem[f] \in Memory /\ Placed(f)
      /\ Own(f) \in Users /\ Op(f) \in Ops /\ index[Own(f)] \subseteq Flows
  BY KindTyped DEF TypeOK, PlaceInv
<1>2. CASE StoreSession(f)
  <2>1. PICK q \in {"sadd"} : Step(f, "set", q)
    BY <1>1, <1>2 DEF StoreSession
  <2>2. q \in Points
    BY DEF Points, LoginPoints, CreatePoints, LogoutAllPoints, LoginOnly, Ended
  <2>3. /\ at[f] = "set" /\ at' \in [Flows -> Points] /\ at'[f] = q
        /\ \A g \in Flows \ {f} : at'[g] = at[g]
    BY <1>1, <2>1, <2>2, Walked
  <2>4. mem' = mem /\ kind' = kind /\ ticks' = ticks
    BY <1>2 DEF StoreSession, work
  <2> QED BY <1>1, <2>1, <2>3, <2>4 DEF Alone, Placed, Op, Points, LoginPoints, CreatePoints, LogoutAllPoints, LoginOnly, Ended
<1>3. CASE IndexSession(f)
  <2>1. PICK q \in {"pexpire"} : Step(f, "sadd", q)
    BY <1>1, <1>3 DEF IndexSession
  <2>2. q \in Points
    BY DEF Points, LoginPoints, CreatePoints, LogoutAllPoints, LoginOnly, Ended
  <2>3. /\ at[f] = "sadd" /\ at' \in [Flows -> Points] /\ at'[f] = q
        /\ \A g \in Flows \ {f} : at'[g] = at[g]
    BY <1>1, <2>1, <2>2, Walked
  <2>4. mem' = mem /\ kind' = kind /\ ticks' = ticks
    BY <1>3 DEF IndexSession, work
  <2> QED BY <1>1, <2>1, <2>3, <2>4 DEF Alone, Placed, Op, Points, LoginPoints, CreatePoints, LogoutAllPoints, LoginOnly, Ended
<1>4. CASE RefreshIndex(f)
  <2>1. PICK q \in {"verified?", "done"} : Step(f, "pexpire", q) /\ (q = "verified?" => Op(f) = "login")
    BY <1>1, <1>4 DEF RefreshIndex
  <2>2. q \in Points
    BY DEF Points, LoginPoints, CreatePoints, LogoutAllPoints, LoginOnly, Ended
  <2>3. /\ at[f] = "pexpire" /\ at' \in [Flows -> Points] /\ at'[f] = q
        /\ \A g \in Flows \ {f} : at'[g] = at[g]
    BY <1>1, <2>1, <2>2, Walked
  <2>4. mem' = mem /\ kind' = kind /\ ticks' = ticks
    BY <1>4 DEF RefreshIndex, work
  <2> QED BY <1>1, <2>1, <2>3, <2>4 DEF Alone, Placed, Op, Points, LoginPoints, CreatePoints, LogoutAllPoints, LoginOnly, Ended
<1>5. CASE GetSession(f)
  <2>1. PICK q \in {"srem", "del"} : Step(f, "get", q)
    BY <1>1, <1>5 DEF GetSession
  <2>2. q \in Points
    BY DEF Points, LoginPoints, CreatePoints, LogoutAllPoints, LoginOnly, Ended
  <2>3. /\ at[f] = "get" /\ at' \in [Flows -> Points] /\ at'[f] = q
        /\ \A g \in Flows \ {f} : at'[g] = at[g]
    BY <1>1, <2>1, <2>2, Walked
  <2>4. mem' = mem /\ kind' = kind /\ ticks' = ticks
    BY <1>5 DEF GetSession, work
  <2> QED BY <1>1, <2>1, <2>3, <2>4 DEF Alone, Placed, Op, Points, LoginPoints, CreatePoints, LogoutAllPoints, LoginOnly, Ended
<1>6. CASE Unindex(f)
  <2>1. PICK q \in {"del"} : Step(f, "srem", q)
    BY <1>1, <1>6 DEF Unindex
  <2>2. q \in Points
    BY DEF Points, LoginPoints, CreatePoints, LogoutAllPoints, LoginOnly, Ended
  <2>3. /\ at[f] = "srem" /\ at' \in [Flows -> Points] /\ at'[f] = q
        /\ \A g \in Flows \ {f} : at'[g] = at[g]
    BY <1>1, <2>1, <2>2, Walked
  <2>4. mem' = mem /\ kind' = kind /\ ticks' = ticks
    BY <1>6 DEF Unindex, work
  <2> QED BY <1>1, <2>1, <2>3, <2>4 DEF Alone, Placed, Op, Points, LoginPoints, CreatePoints, LogoutAllPoints, LoginOnly, Ended
<1>7. CASE DropSession(f)
  <2>1. PICK q \in {"done"} : Step(f, "del", q)
    BY <1>1, <1>7 DEF DropSession
  <2>2. q \in Points
    BY DEF Points, LoginPoints, CreatePoints, LogoutAllPoints, LoginOnly, Ended
  <2>3. /\ at[f] = "del" /\ at' \in [Flows -> Points] /\ at'[f] = q
        /\ \A g \in Flows \ {f} : at'[g] = at[g]
    BY <1>1, <2>1, <2>2, Walked
  <2>4. mem' = mem /\ kind' = kind /\ ticks' = ticks
    BY <1>7 DEF DropSession, work
  <2> QED BY <1>1, <2>1, <2>3, <2>4 DEF Alone, Placed, Op, Points, LoginPoints, CreatePoints, LogoutAllPoints, LoginOnly, Ended
<1>8. CASE ReadIndex(f)
  <2>1. PICK q \in {"delKeys"} : Step(f, "members", q)
    BY <1>1, <1>8 DEF ReadIndex
  <2>2. q \in Points
    BY DEF Points, LoginPoints, CreatePoints, LogoutAllPoints, LoginOnly, Ended
  <2>3. /\ at[f] = "members" /\ at' \in [Flows -> Points] /\ at'[f] = q
        /\ \A g \in Flows \ {f} : at'[g] = at[g]
    BY <1>1, <2>1, <2>2, Walked
  <2> DEFINE m == [mem[f] EXCEPT !.read = index[Own(f)]]
  <2>4. m \in Memory /\ m.then = mem[f].then
    BY <1>1 DEF Memory
  <2>5. Keep(f, m) /\ kind' = kind /\ ticks' = ticks
    BY <1>8 DEF ReadIndex, work
  <2> HIDE DEF m
  <2>6. /\ mem' \in [Flows -> Memory] /\ mem'[f].then = m.then
        /\ \A g \in Flows \ {f} : mem'[g] = mem[g]
    BY <1>1, <2>4, <2>5, Kept
  <2> QED BY <1>1, <2>1, <2>3, <2>4, <2>5, <2>6 DEF Alone, Placed, Op, Points, LoginPoints, CreatePoints, LogoutAllPoints, LoginOnly, Ended
<1>9. CASE DropAll(f)
  <2>1. PICK q \in {"delIndex"} : Step(f, "delKeys", q)
    BY <1>1, <1>9 DEF DropAll
  <2>2. q \in Points
    BY DEF Points, LoginPoints, CreatePoints, LogoutAllPoints, LoginOnly, Ended
  <2>3. /\ at[f] = "delKeys" /\ at' \in [Flows -> Points] /\ at'[f] = q
        /\ \A g \in Flows \ {f} : at'[g] = at[g]
    BY <1>1, <2>1, <2>2, Walked
  <2>4. mem' = mem /\ kind' = kind /\ ticks' = ticks
    BY <1>9 DEF DropAll, work
  <2> QED BY <1>1, <2>1, <2>3, <2>4 DEF Alone, Placed, Op, Points, LoginPoints, CreatePoints, LogoutAllPoints, LoginOnly, Ended
<1>10. CASE DropIndex(f)
  <2>1. PICK q \in {"done"} : Step(f, "delIndex", q)
    BY <1>1, <1>10 DEF DropIndex
  <2>2. q \in Points
    BY DEF Points, LoginPoints, CreatePoints, LogoutAllPoints, LoginOnly, Ended
  <2>3. /\ at[f] = "delIndex" /\ at' \in [Flows -> Points] /\ at'[f] = q
        /\ \A g \in Flows \ {f} : at'[g] = at[g]
    BY <1>1, <2>1, <2>2, Walked
  <2>4. mem' = mem /\ kind' = kind /\ ticks' = ticks
    BY <1>10 DEF DropIndex, work
  <2> QED BY <1>1, <2>1, <2>3, <2>4 DEF Alone, Placed, Op, Points, LoginPoints, CreatePoints, LogoutAllPoints, LoginOnly, Ended
<1> QED BY <1>2, <1>3, <1>4, <1>5, <1>6, <1>7, <1>8, <1>9, <1>10 DEF Session

LEMMA LoginPlaced ==
    ASSUME TypeOK, PlaceInv, NEW f \in Flows, Login(f)
    PROVE  Alone(f) /\ Placed(f)'
<1>1. /\ at \in [Flows -> Points] /\ mem \in [Flows -> Memory] /\ mem[f] \in Memory /\ Placed(f)
      /\ Own(f) \in Users /\ Op(f) \in Ops /\ index[Own(f)] \subseteq Flows
  BY KindTyped DEF TypeOK, PlaceInv
<1>2. CASE Count(f)
  <2>1. PICK q \in {"expire", "limited", "find", "match?"} : Step(f, "incr", q) /\ (q = "match?" => mem[f].then = q)
    BY <1>1, <1>2 DEF Count, Step, Placed, Ended
  <2>2. q \in Points
    BY DEF Points, LoginPoints, CreatePoints, LogoutAllPoints, LoginOnly, Ended
  <2>3. /\ at[f] = "incr" /\ at' \in [Flows -> Points] /\ at'[f] = q
        /\ \A g \in Flows \ {f} : at'[g] = at[g]
    BY <1>1, <2>1, <2>2, Walked
  <2>4. mem' = mem /\ kind' = kind /\ ticks' = ticks
    BY <1>2 DEF Count, work
  <2> QED BY <1>1, <2>1, <2>3, <2>4 DEF Alone, Placed, Op, Points, LoginPoints, CreatePoints, LogoutAllPoints, LoginOnly, Ended
<1>3. CASE StartWindow(f)
  <2>1. PICK q \in {"find", "match?"} : Step(f, "expire", q) /\ (q = "match?" => mem[f].then = q)
    BY <1>1, <1>3 DEF StartWindow, Step, Placed, Ended
  <2>2. q \in Points
    BY DEF Points, LoginPoints, CreatePoints, LogoutAllPoints, LoginOnly, Ended
  <2>3. /\ at[f] = "expire" /\ at' \in [Flows -> Points] /\ at'[f] = q
        /\ \A g \in Flows \ {f} : at'[g] = at[g]
    BY <1>1, <2>1, <2>2, Walked
  <2>4. mem' = mem /\ kind' = kind /\ ticks' = ticks
    BY <1>3 DEF StartWindow, work
  <2> QED BY <1>1, <2>1, <2>3, <2>4 DEF Alone, Placed, Op, Points, LoginPoints, CreatePoints, LogoutAllPoints, LoginOnly, Ended
<1>4. CASE FindUser(f)
  <2>1. PICK q \in {"challenge", "failed"} : Step(f, "find", q)
    BY <1>1, <1>4 DEF FindUser
  <2>2. q \in Points
    BY DEF Points, LoginPoints, CreatePoints, LogoutAllPoints, LoginOnly, Ended
  <2>3. /\ at[f] = "find" /\ at' \in [Flows -> Points] /\ at'[f] = q
        /\ \A g \in Flows \ {f} : at'[g] = at[g]
    BY <1>1, <2>1, <2>2, Walked
  <2>4. mem' = mem /\ kind' = kind /\ ticks' = ticks
    BY <1>4 DEF FindUser, work
  <2> QED BY <1>1, <2>1, <2>3, <2>4 DEF Alone, Placed, Op, Points, LoginPoints, CreatePoints, LogoutAllPoints, LoginOnly, Ended
<1>5. CASE Challenge(f)
  <2>1. PICK q \in {"prove"} : Step(f, "challenge", q)
    BY <1>1, <1>5 DEF Challenge
  <2>2. q \in Points
    BY DEF Points, LoginPoints, CreatePoints, LogoutAllPoints, LoginOnly, Ended
  <2>3. /\ at[f] = "challenge" /\ at' \in [Flows -> Points] /\ at'[f] = q
        /\ \A g \in Flows \ {f} : at'[g] = at[g]
    BY <1>1, <2>1, <2>2, Walked
  <2> DEFINE m == [mem[f] EXCEPT !.then = "match?"]
  <2>4. m \in Memory /\ m.then = "match?"
    BY <1>1 DEF Memory
  <2>5. Keep(f, m) /\ kind' = kind /\ ticks' = ticks
    BY <1>5 DEF Challenge, work
  <2> HIDE DEF m
  <2>6. /\ mem' \in [Flows -> Memory] /\ mem'[f].then = m.then
        /\ \A g \in Flows \ {f} : mem'[g] = mem[g]
    BY <1>1, <2>4, <2>5, Kept
  <2> QED BY <1>1, <2>1, <2>3, <2>4, <2>5, <2>6 DEF Alone, Placed, Op, Points, LoginPoints, CreatePoints, LogoutAllPoints, LoginOnly, Ended
<1>6. CASE Prove(f)
  <2>1. PICK q \in {"incr"} : Step(f, "prove", q)
    BY <1>1, <1>6 DEF Prove
  <2>2. q \in Points
    BY DEF Points, LoginPoints, CreatePoints, LogoutAllPoints, LoginOnly, Ended
  <2>3. /\ at[f] = "prove" /\ at' \in [Flows -> Points] /\ at'[f] = q
        /\ \A g \in Flows \ {f} : at'[g] = at[g]
    BY <1>1, <2>1, <2>2, Walked
  <2>4. mem' = mem /\ kind' = kind /\ ticks' = ticks
    BY <1>6 DEF Prove, work
  <2> QED BY <1>1, <2>1, <2>3, <2>4 DEF Alone, Placed, Op, Points, LoginPoints, CreatePoints, LogoutAllPoints, LoginOnly, Ended
<1>7. CASE CloseTab(f)
  <2>1. PICK q \in {"gone"} : Step(f, "prove", q)
    BY <1>1, <1>7 DEF CloseTab
  <2>2. q \in Points
    BY DEF Points, LoginPoints, CreatePoints, LogoutAllPoints, LoginOnly, Ended
  <2>3. /\ at[f] = "prove" /\ at' \in [Flows -> Points] /\ at'[f] = q
        /\ \A g \in Flows \ {f} : at'[g] = at[g]
    BY <1>1, <2>1, <2>2, Walked
  <2>4. mem' = mem /\ kind' = kind /\ ticks' = ticks
    BY <1>7 DEF CloseTab, work
  <2> QED BY <1>1, <2>1, <2>3, <2>4 DEF Alone, Placed, Op, Points, LoginPoints, CreatePoints, LogoutAllPoints, LoginOnly, Ended
<1>8. CASE MatchProof(f)
  <2>1. PICK q \in {"refused", "forget", "drop"} : Step(f, "match?", q)
    BY <1>1, <1>8 DEF MatchProof
  <2>2. q \in Points
    BY DEF Points, LoginPoints, CreatePoints, LogoutAllPoints, LoginOnly, Ended
  <2>3. /\ at[f] = "match?" /\ at' \in [Flows -> Points] /\ at'[f] = q
        /\ \A g \in Flows \ {f} : at'[g] = at[g]
    BY <1>1, <2>1, <2>2, Walked
  <2>4. mem' = mem /\ kind' = kind /\ ticks' = ticks
    BY <1>8 DEF MatchProof, work
  <2> QED BY <1>1, <2>1, <2>3, <2>4 DEF Alone, Placed, Op, Points, LoginPoints, CreatePoints, LogoutAllPoints, LoginOnly, Ended
<1>9. CASE Forget(f)
  <2>1. PICK p \in {"forget", "drop", "dropFailed"}, q \in {"set", "refused", "failed"} :
              Step(f, p, q) /\ (q = "set" => p = "forget")
    BY <1>9 DEF Forget
  <2>2. q \in Points
    BY DEF Points, LoginPoints, CreatePoints, LogoutAllPoints, LoginOnly, Ended
  <2>3. /\ at[f] = p /\ at' \in [Flows -> Points] /\ at'[f] = q
        /\ \A g \in Flows \ {f} : at'[g] = at[g]
    BY <1>1, <2>1, <2>2, Walked
  <2>4. mem' = mem /\ kind' = kind /\ ticks' = ticks
    BY <1>9 DEF Forget, work
  <2> QED BY <1>1, <2>1, <2>3, <2>4 DEF Alone, Placed, Op, Points, LoginPoints, CreatePoints, LogoutAllPoints, LoginOnly, Ended
<1>10. CASE TellVerified(f)
  <2>1. PICK q \in {"done"} : Step(f, "verified?", q)
    BY <1>1, <1>10 DEF TellVerified
  <2>2. q \in Points
    BY DEF Points, LoginPoints, CreatePoints, LogoutAllPoints, LoginOnly, Ended
  <2>3. /\ at[f] = "verified?" /\ at' \in [Flows -> Points] /\ at'[f] = q
        /\ \A g \in Flows \ {f} : at'[g] = at[g]
    BY <1>1, <2>1, <2>2, Walked
  <2>4. mem' = mem /\ kind' = kind /\ ticks' = ticks
    BY <1>10 DEF TellVerified, work
  <2> QED BY <1>1, <2>1, <2>3, <2>4 DEF Alone, Placed, Op, Points, LoginPoints, CreatePoints, LogoutAllPoints, LoginOnly, Ended
<1> QED BY <1>2, <1>3, <1>4, <1>5, <1>6, <1>7, <1>8, <1>9, <1>10 DEF Login

LEMMA RequestPlaced ==
    ASSUME TypeOK, PlaceInv, NEW f \in Flows, Request(f)
    PROVE  Alone(f) /\ Placed(f)'
<1>1. /\ at \in [Flows -> Points] /\ mem \in [Flows -> Memory] /\ mem[f] \in Memory /\ Placed(f)
      /\ Own(f) \in Users /\ Op(f) \in Ops /\ index[Own(f)] \subseteq Flows
  BY KindTyped DEF TypeOK, PlaceInv
<1>2. CASE Authenticate(f)
  <2>1. PICK q \in {"enabled?", "refused"} : Step(f, "session", q)
    BY <1>1, <1>2 DEF Authenticate
  <2>2. q \in Points
    BY DEF Points, LoginPoints, CreatePoints, LogoutAllPoints, LoginOnly, Ended
  <2>3. /\ at[f] = "session" /\ at' \in [Flows -> Points] /\ at'[f] = q
        /\ \A g \in Flows \ {f} : at'[g] = at[g]
    BY <1>1, <2>1, <2>2, Walked
  <2>4. mem' = mem /\ kind' = kind /\ ticks' = ticks
    BY <1>2 DEF Authenticate, work
  <2> QED BY <1>1, <2>1, <2>3, <2>4 DEF Alone, Placed, Op, Points, LoginPoints, CreatePoints, LogoutAllPoints, LoginOnly, Ended
<1>3. CASE CheckEnabled(f)
  <2>1. PICK q \in {"refused", "admin?", "unverified?"} : Step(f, "enabled?", q)
    BY <1>1, <1>3 DEF CheckEnabled
  <2>2. q \in Points
    BY DEF Points, LoginPoints, CreatePoints, LogoutAllPoints, LoginOnly, Ended
  <2>3. /\ at[f] = "enabled?" /\ at' \in [Flows -> Points] /\ at'[f] = q
        /\ \A g \in Flows \ {f} : at'[g] = at[g]
    BY <1>1, <2>1, <2>2, Walked
  <2>4. mem' = mem /\ kind' = kind /\ ticks' = ticks
    BY <1>3 DEF CheckEnabled, work
  <2> QED BY <1>1, <2>1, <2>3, <2>4 DEF Alone, Placed, Op, Points, LoginPoints, CreatePoints, LogoutAllPoints, LoginOnly, Ended
<1>4. CASE CheckAdmin(f)
  <2>1. PICK q \in {"act", "refused"} : Step(f, "admin?", q)
    BY <1>1, <1>4 DEF CheckAdmin
  <2>2. q \in Points
    BY DEF Points, LoginPoints, CreatePoints, LogoutAllPoints, LoginOnly, Ended
  <2>3. /\ at[f] = "admin?" /\ at' \in [Flows -> Points] /\ at'[f] = q
        /\ \A g \in Flows \ {f} : at'[g] = at[g]
    BY <1>1, <2>1, <2>2, Walked
  <2>4. mem' = mem /\ kind' = kind /\ ticks' = ticks
    BY <1>4 DEF CheckAdmin, work
  <2> QED BY <1>1, <2>1, <2>3, <2>4 DEF Alone, Placed, Op, Points, LoginPoints, CreatePoints, LogoutAllPoints, LoginOnly, Ended
<1>5. CASE Administer(f)
  <2>1. PICK q \in {"done", "refused"} : Step(f, "act", q)
    BY <1>1, <1>5 DEF Administer
  <2>2. q \in Points
    BY DEF Points, LoginPoints, CreatePoints, LogoutAllPoints, LoginOnly, Ended
  <2>3. /\ at[f] = "act" /\ at' \in [Flows -> Points] /\ at'[f] = q
        /\ \A g \in Flows \ {f} : at'[g] = at[g]
    BY <1>1, <2>1, <2>2, Walked
  <2>4. mem' = mem /\ kind' = kind /\ ticks' = ticks
    BY <1>5 DEF Administer, work
  <2> QED BY <1>1, <2>1, <2>3, <2>4 DEF Alone, Placed, Op, Points, LoginPoints, CreatePoints, LogoutAllPoints, LoginOnly, Ended
<1>6. CASE CheckUnverified(f)
  <2>1. PICK q \in {"refused", "done", "link"} : Step(f, "unverified?", q)
    BY <1>1, <1>6 DEF CheckUnverified
  <2>2. q \in Points
    BY DEF Points, LoginPoints, CreatePoints, LogoutAllPoints, LoginOnly, Ended
  <2>3. /\ at[f] = "unverified?" /\ at' \in [Flows -> Points] /\ at'[f] = q
        /\ \A g \in Flows \ {f} : at'[g] = at[g]
    BY <1>1, <2>1, <2>2, Walked
  <2>4. mem' = mem /\ kind' = kind /\ ticks' = ticks
    BY <1>6 DEF CheckUnverified, work
  <2> QED BY <1>1, <2>1, <2>3, <2>4 DEF Alone, Placed, Op, Points, LoginPoints, CreatePoints, LogoutAllPoints, LoginOnly, Ended
<1>7. CASE StoreLink(f)
  <2>1. PICK q \in {"mail"} : Step(f, "link", q)
    BY <1>1, <1>7 DEF StoreLink
  <2>2. q \in Points
    BY DEF Points, LoginPoints, CreatePoints, LogoutAllPoints, LoginOnly, Ended
  <2>3. /\ at[f] = "link" /\ at' \in [Flows -> Points] /\ at'[f] = q
        /\ \A g \in Flows \ {f} : at'[g] = at[g]
    BY <1>1, <2>1, <2>2, Walked
  <2>4. mem' = mem /\ kind' = kind /\ ticks' = ticks
    BY <1>7 DEF StoreLink, work
  <2> QED BY <1>1, <2>1, <2>3, <2>4 DEF Alone, Placed, Op, Points, LoginPoints, CreatePoints, LogoutAllPoints, LoginOnly, Ended
<1>8. CASE Match(f)
  <2>1. PICK q \in {"refused", "done", "confirm"} : Step(f, "match", q)
    BY <1>1, <1>8 DEF Match
  <2>2. q \in Points
    BY DEF Points, LoginPoints, CreatePoints, LogoutAllPoints, LoginOnly, Ended
  <2>3. /\ at[f] = "match" /\ at' \in [Flows -> Points] /\ at'[f] = q
        /\ \A g \in Flows \ {f} : at'[g] = at[g]
    BY <1>1, <2>1, <2>2, Walked
  <2>4. mem' = mem /\ kind' = kind /\ ticks' = ticks
    BY <1>8 DEF Match, work
  <2> QED BY <1>1, <2>1, <2>3, <2>4 DEF Alone, Placed, Op, Points, LoginPoints, CreatePoints, LogoutAllPoints, LoginOnly, Ended
<1>9. CASE Confirm(f)
  <2>1. PICK q \in {"done"} : Step(f, "confirm", q)
    BY <1>1, <1>9 DEF Confirm
  <2>2. q \in Points
    BY DEF Points, LoginPoints, CreatePoints, LogoutAllPoints, LoginOnly, Ended
  <2>3. /\ at[f] = "confirm" /\ at' \in [Flows -> Points] /\ at'[f] = q
        /\ \A g \in Flows \ {f} : at'[g] = at[g]
    BY <1>1, <2>1, <2>2, Walked
  <2>4. mem' = mem /\ kind' = kind /\ ticks' = ticks
    BY <1>9 DEF Confirm, work
  <2> QED BY <1>1, <2>1, <2>3, <2>4 DEF Alone, Placed, Op, Points, LoginPoints, CreatePoints, LogoutAllPoints, LoginOnly, Ended
<1> QED BY <1>2, <1>3, <1>4, <1>5, <1>6, <1>7, <1>8, <1>9 DEF Request

LEMMA PressPlaced ==
    ASSUME TypeOK, PlaceInv, NEW f \in Flows, Press(f, Ops)
    PROVE  Alone(f) /\ Placed(f)'
<1>1. /\ at \in [Flows -> Points] /\ mem \in [Flows -> Memory] /\ Op(f) \in Ops
  BY KindTyped DEF TypeOK
<1>2. /\ Entry[Op(f)] \in Points \ (LoginOnly \ {"incr"})
      /\ Op(f) = "login" <=> Entry[Op(f)] = "incr"
      /\ Op(f) = "logoutAll" => Entry[Op(f)] = "members"
      /\ Op(f) = "create" => Entry[Op(f)] = "open"
      /\ Entry[Op(f)] \in {"get", "srem", "del"} => Op(f) = "logout"
  BY <1>1 DEF Entry, Ops, Points, LoginPoints, CreatePoints, LogoutAllPoints, LoginOnly, Ended
<1>3. Step(f, "idle", Entry[Op(f)]) /\ kind' = kind /\ ticks' = ticks
  BY DEF Press, work
<1>4. /\ at' \in [Flows -> Points] /\ at'[f] = Entry[Op(f)]
      /\ \A g \in Flows \ {f} : at'[g] = at[g]
  BY <1>1, <1>2, <1>3, Walked
<1> DEFINE m == [Blank EXCEPT !.then = "find", !.due = HandedOut(Own(f))]
<1>5. m \in Memory /\ m.then = "find"
  BY DEF Blank, Memory, HandedOut
<1>6. Keep(f, m)
  BY DEF Press
<1> HIDE DEF m
<1>7. /\ mem' \in [Flows -> Memory] /\ mem'[f].then = "find"
      /\ \A g \in Flows \ {f} : mem'[g] = mem[g]
  BY <1>1, <1>5, <1>6, Kept
<1> QED BY <1>2, <1>3, <1>4, <1>7 DEF Alone, Placed, Op, LoginPoints, CreatePoints, LogoutAllPoints, LoginOnly, Ended

LEMMA Pressed ==
    ASSUME TypeOK, NEW f \in Flows,
           CreateAccount(f) \/ SignIn(f) \/ ManageUsers(f) \/ Begin(f)
    PROVE  Press(f, Ops)
BY DEF CreateAccount, SignIn, ManageUsers, Begin, Press, Ops

LEMMA FailPlaced ==
    ASSUME TypeOK, PlaceInv, NEW f \in Flows, CallFails(f)
    PROVE  Alone(f) /\ Placed(f)'
<1>1. at \in [Flows -> Points] /\ mem \in [Flows -> Memory] /\ Placed(f)
  BY DEF TypeOK, PlaceInv
<1>2. PICK q \in {"find", "match?", "failed", "dropFailed"} :
         /\ Step(f, at[f], q) /\ at[f] \notin Ended \cup {"idle"}
         /\ q \in {"find", "match?"} => at[f] \in {"incr", "expire"} /\ mem[f].then = q
         /\ q = "dropFailed" => Op(f) = "login" /\ at[f] \in {"forget", "set", "sadd", "pexpire", "verified?"}
  BY <1>1 DEF CallFails, Step, Placed, Ended
<1>3. q \in Points
  BY DEF Points, LoginPoints, CreatePoints, LogoutAllPoints, LoginOnly, Ended
<1>4. /\ at' \in [Flows -> Points] /\ at'[f] = q
      /\ \A g \in Flows \ {f} : at'[g] = at[g]
  BY <1>1, <1>2, <1>3, Walked
<1>5. mem' = mem /\ kind' = kind /\ ticks' = ticks
  BY DEF CallFails, work
<1> QED BY <1>1, <1>2, <1>4, <1>5 DEF Alone, Placed, Op, LoginPoints, CreatePoints, LogoutAllPoints, LoginOnly, Ended

(* When the server dies, every flow stands still or has failed.            *)
LEMMA DeathPlaced ==
    ASSUME TypeOK, PlaceInv, ServerDies
    PROVE  /\ at' \in [Flows -> Points] /\ PlaceInv'
           /\ \A f \in Flows : at'[f] = at[f] \/ at'[f] = "failed"
           /\ \A f \in Flows : at[f] \in Ended \cup {"idle"} => at'[f] = at[f]
           /\ mem' = mem /\ kind' = kind /\ ticks' = ticks
<1>1. at \in [Flows -> Points] /\ "failed" \in Points
  BY DEF TypeOK, Points, LoginPoints, CreatePoints, LogoutAllPoints, LoginOnly, Ended
<1>2. /\ at' \in [Flows -> Points]
      /\ \A f \in Flows : at'[f] = at[f] \/ at'[f] = "failed"
      /\ \A f \in Flows : at[f] \in Ended \cup {"idle"} => at'[f] = at[f]
      /\ mem' = mem /\ kind' = kind /\ ticks' = ticks
  BY <1>1 DEF ServerDies, work
<1>3. ASSUME NEW f \in Flows PROVE Placed(f)'
  BY <1>2 DEF PlaceInv, Placed, Op, LoginPoints, CreatePoints, LogoutAllPoints, LoginOnly, Ended
<1> QED BY <1>2, <1>3 DEF PlaceInv

(* A step of one flow.                                                     *)
Work(f) == \/ CreateAccount(f) \/ SignIn(f) \/ ManageUsers(f) \/ Begin(f)
           \/ Account(f) \/ Session(f) \/ Login(f) \/ Request(f) \/ CallFails(f)

LEMMA WorkPlaced ==
    ASSUME TypeOK, PlaceInv, NEW f \in Flows, Work(f)
    PROVE  Alone(f) /\ Placed(f)' /\ PlaceInv'
<1>1. Alone(f) /\ Placed(f)'
  BY PressPlaced, Pressed, AccountPlaced, SessionPlaced, LoginPlaced, RequestPlaced, FailPlaced DEF Work
<1> QED BY <1>1, PlacedAlone

LEMMA AccountTyped ==
    ASSUME TypeOK, PlaceInv, NEW f \in Flows, Account(f)
    PROVE  TypeOK'
<1>1. Alone(f) /\ Own(f) \in Users
  BY AccountPlaced, KindTyped
<1>2. user' \in [Users -> Rows]
  <2>1. mem[f].flag \in BOOLEAN
    BY DEF TypeOK, Memory
  <2> DEFINE r == [Absent EXCEPT !.in = TRUE, !.admin = mem[f].flag,
                     !.link = IF Op(f) = "register" THEN f ELSE None]
  <2>2. r \in Rows
    BY <2>1 DEF Absent, Rows
  <2>3. user' = user \/ user' = [user EXCEPT ![Own(f)] = r]
    BY DEF Account, CheckOpen, CheckEmail, CountUsers, Insert, Mail, work
  <2> HIDE DEF r
  <2> QED BY <1>1, <2>2, <2>3 DEF TypeOK
<1>3. mailed' \in [Users -> SUBSET Flows]
  BY <1>1 DEF Account, CheckOpen, CheckEmail, CountUsers, Insert, Mail, work, TypeOK
<1>4. UNCHANGED <<faults, open, redis, hits, hitsLeft, seen>>
  BY DEF Account, CheckOpen, CheckEmail, CountUsers, Insert, Mail, work
<1> QED BY <1>1, <1>2, <1>3, <1>4 DEF TypeOK, Alone, redis

LEMMA SessionTyped ==
    ASSUME TypeOK, PlaceInv, NEW f \in Flows, Session(f)
    PROVE  TypeOK'
<1>1. /\ Alone(f) /\ Own(f) \in Users /\ SessionTtl \in Nat \ {0}
      /\ session \in [Flows -> 0 .. SessionTtl] /\ index \in [Users -> SUBSET Flows]
      /\ indexLeft \in [Users -> 0 .. Forever] /\ seen \in History
  BY SessionPlaced, KindTyped, AccessAssumption DEF TypeOK
<1>2. session' \in [Flows -> 0 .. SessionTtl]
  BY <1>1 DEF Session, StoreSession, IndexSession, RefreshIndex, GetSession, Unindex, DropSession,
              ReadIndex, DropAll, DropIndex, redis
<1>3. index' \in [Users -> SUBSET Flows]
  BY <1>1 DEF Session, StoreSession, IndexSession, RefreshIndex, GetSession, Unindex, DropSession,
              ReadIndex, DropAll, DropIndex, redis, Without
<1>4. indexLeft' \in [Users -> 0 .. Forever]
  <2>1. 0 \in 0 .. Forever /\ SessionTtl \in 0 .. Forever /\ Forever \in 0 .. Forever
    BY <1>1 DEF Forever
  <2> QED BY <1>1, <2>1 DEF Session, StoreSession, IndexSession, RefreshIndex, GetSession, Unindex, DropSession,
              ReadIndex, DropAll, DropIndex, redis, NewIndexLife
<1>5. seen' \in History
  BY <1>1 DEF Session, StoreSession, IndexSession, RefreshIndex, GetSession, Unindex, DropSession,
              ReadIndex, DropAll, DropIndex, History
<1>6. UNCHANGED <<faults, open, user, mailed, srp, hits, hitsLeft>>
  BY DEF Session, StoreSession, IndexSession, RefreshIndex, GetSession, Unindex, DropSession,
         ReadIndex, DropAll, DropIndex, redis, work
<1> QED BY <1>1, <1>2, <1>3, <1>4, <1>5, <1>6 DEF TypeOK, Alone

LEMMA LoginTyped ==
    ASSUME TypeOK, PlaceInv, NEW f \in Flows, Login(f)
    PROVE  TypeOK'
<1>1. /\ Alone(f) /\ Own(f) \in Users /\ srp \in [Users -> Challenges] /\ seen \in History
      /\ hits \in Nat /\ hitsLeft \in 0 .. Forever /\ SessionTtl \in Nat \ {0}
  BY LoginPlaced, KindTyped, AccessAssumption DEF TypeOK
<1>2. srp' \in [Users -> Challenges]
  <2>1. NoState \in Challenges /\ Stored(f) \in Challenges
    BY BlankTyped DEF Stored, Challenges
  <2> QED BY <1>1, <2>1 DEF Login, Count, StartWindow, FindUser, Challenge, Prove, CloseTab, MatchProof,
              Forget, TellVerified, redis
<1>3. hits' \in Nat /\ hitsLeft' \in 0 .. Forever
  <2>1. 0 \in 0 .. Forever /\ 1 \in 0 .. Forever /\ Forever \in 0 .. Forever /\ hits + 1 \in Nat
    BY <1>1 DEF Forever
  <2> QED BY <1>1, <2>1 DEF Login, Count, StartWindow, FindUser, Challenge, Prove, CloseTab, MatchProof,
              Forget, TellVerified
<1>4. seen' \in History
  <2>1. Trying(Own(f)) \subseteq Flows
    BY DEF Trying
  <2>2. seen' = seen \/ seen' = [seen EXCEPT !.met = @ \cup {f} \cup Trying(Own(f))]
    BY DEF Login, Count, StartWindow, FindUser, Challenge, Prove, CloseTab, MatchProof, Forget, TellVerified
  <2> QED BY <1>1, <2>1, <2>2 DEF History
<1>5. UNCHANGED <<faults, open, user, mailed, session, index, indexLeft>>
  BY DEF Login, Count, StartWindow, FindUser, Challenge, Prove, CloseTab, MatchProof, Forget,
         TellVerified, redis, work
<1> QED BY <1>1, <1>2, <1>3, <1>4, <1>5 DEF TypeOK, Alone

LEMMA RequestTyped ==
    ASSUME TypeOK, PlaceInv, NEW f \in Flows, Request(f)
    PROVE  TypeOK'
<1>1. Alone(f) /\ Own(f) \in Users /\ user \in [Users -> Rows] /\ seen \in History
  BY RequestPlaced, KindTyped DEF TypeOK
<1>2. \A r \in Rows : /\ Disabled(r) \in Rows /\ Enabled(r) \in Rows /\ Verified(r) \in Rows
                      /\ [r EXCEPT !.link = f] \in Rows
  BY DEF Rows, Disabled, Enabled, Verified
<1>3. \A act : \A r \in Rows : Row(act, r) \in Rows
  BY <1>2, BlankTyped DEF Row
<1>4. user' \in [Users -> Rows]
  <2>1. CASE Administer(f)
    <3>1. user' = user \/ user' = [user EXCEPT ![kind[f].arg.on] = Row(kind[f].arg.act, @)]
      BY <2>1 DEF Administer
    <3> QED BY <1>1, <1>3, <3>1
  <2>2. CASE StoreLink(f)
    <3>1. user' = user \/ user' = [user EXCEPT ![Own(f)] = [@ EXCEPT !.link = f]]
      BY <1>1, <2>2 DEF StoreLink, Rows
    <3> QED BY <1>1, <1>2, <3>1
  <2>3. CASE Confirm(f)
    <3>1. user' = [user EXCEPT ![Own(f)] = Verified(@)] \/ user' = user
      BY <1>1, <2>3 DEF Confirm
    <3> QED BY <1>1, <1>2, <3>1
  <2> QED BY <1>1, <2>1, <2>2, <2>3 DEF Request, Authenticate, CheckEnabled, CheckAdmin,
             CheckUnverified, Match, work
<1>5. seen' \in History
  <2>1. seen' = seen \/ seen' = [seen EXCEPT !.stale = @ \/ ~IsAdmin(Own(f))]
    BY DEF Request, Authenticate, CheckEnabled, CheckAdmin, Administer, CheckUnverified, StoreLink,
           Match, Confirm
  <2> QED BY <1>1, <2>1 DEF History
<1>6. open' \in BOOLEAN
  BY DEF Request, Authenticate, CheckEnabled, CheckAdmin, Administer, CheckUnverified, StoreLink,
         Match, Confirm, work, TypeOK
<1>7. UNCHANGED <<faults, mailed, redis, hits, hitsLeft>>
  BY DEF Request, Authenticate, CheckEnabled, CheckAdmin, Administer, CheckUnverified, StoreLink,
         Match, Confirm, work
<1> QED BY <1>1, <1>4, <1>5, <1>6, <1>7 DEF TypeOK, Alone, redis

LEMMA TickTyped ==
    ASSUME TypeOK, Tick
    PROVE  TypeOK' /\ UNCHANGED <<at, mem, kind, user>>
<1>1. /\ SessionTtl \in Nat \ {0} /\ None \notin Flows
      /\ session \in [Flows -> 0 .. SessionTtl] /\ index \in [Users -> SUBSET Flows]
      /\ indexLeft \in [Users -> 0 .. Forever] /\ seen \in History
      /\ srp \in [Users -> Challenges] /\ hitsLeft \in 0 .. Forever /\ hits \in Nat
  BY AccessAssumption DEF TypeOK, AccessAssumption
<1>2. /\ \A n \in 0 .. SessionTtl : Age(n) \in 0 .. SessionTtl
      /\ \A n \in 0 .. Forever : Age(n) \in 0 .. Forever
  BY <1>1 DEF Age, Forever
<1>3. session' \in [Flows -> 0 .. SessionTtl] /\ indexLeft' \in [Users -> 0 .. Forever]
  BY <1>1, <1>2 DEF Tick
<1>4. index' \in [Users -> SUBSET Flows]
  BY <1>1 DEF Tick
<1>5. srp' \in [Users -> Challenges]
  <2>1. \A u \in Users : srp[u].left \in {0, 1}
    BY <1>1 DEF Challenges
  <2>2. srp' = [u \in Users |-> NoState]
    BY <1>1, <2>1 DEF Tick
  <2> QED BY <2>2, BlankTyped
<1>6. hitsLeft' \in 0 .. Forever /\ hits' \in Nat
  BY <1>1, <1>2 DEF Tick
<1>7. seen' \in History
  <2> DEFINE met == (seen.met \cup {srp[u].by : u \in Users}) \ {None}
             missed == seen.missed \cup {f \in Flows : at[f] = "pexpire" /\ index'[Own(f)] = {}}
  <2>1. seen' = [seen EXCEPT !.met = met, !.missed = missed]
    BY DEF Tick
  <2>2. met \subseteq Flows
    BY <1>1 DEF Challenges, History
  <2>3. missed \subseteq Flows
    BY <1>1 DEF History
  <2> HIDE DEF met, missed
  <2> QED BY <1>1, <2>1, <2>2, <2>3 DEF History
<1>8. UNCHANGED <<work, faults, at, mem>>
  BY DEF Tick
<1> QED BY <1>3, <1>4, <1>5, <1>6, <1>7, <1>8 DEF TypeOK, work

LEMMA FaultTyped ==
    ASSUME TypeOK, PlaceInv, ServerDies \/ \E f \in Flows : CallFails(f)
    PROVE  TypeOK'
<1>1. /\ at' \in [Flows -> Points] /\ faults' \in Nat
  <2>1. faults > 0 /\ faults' = faults - 1
    BY DEF ServerDies, CallFails
  <2> QED BY <2>1, DeathPlaced, FailPlaced DEF TypeOK, Alone
<1>2. seen' \in History
  <2>1. seen' = [seen EXCEPT !.lost = TRUE] \/ seen' = [seen EXCEPT !.lost = @ \/ FALSE]
    BY DEF ServerDies, CallFails
  <2> QED BY <2>1 DEF TypeOK, History
<1>3. UNCHANGED <<work, redis, hits, hitsLeft, mem>>
  BY DEF ServerDies, CallFails
<1> QED BY <1>1, <1>2, <1>3 DEF TypeOK, work, redis

LEMMA PressTyped ==
    ASSUME TypeOK, PlaceInv, NEW f \in Flows, Press(f, Ops)
    PROVE  TypeOK'
BY PressPlaced DEF Press, TypeOK, Alone, work, redis

TypeInv == TypeOK /\ PlaceInv

LEMMA InitTyped == Init => TypeInv
<1> SUFFICES ASSUME Init PROVE TypeInv
  OBVIOUS
<1>1. PICK s \in Scenarios :
          /\ kind = s.flows /\ faults = s.faults /\ user = s.users /\ ticks = s.ticks
          /\ at = [f \in Flows |-> IF f \in s.before THEN "done" ELSE "idle"]
          /\ session = [f \in Flows |-> IF f \in s.before THEN SessionTtl ELSE 0]
          /\ index = [u \in Users |-> {f \in s.before : s.flows[f].user = u}]
  BY DEF Init
<1>2. /\ SessionTtl \in Nat \ {0} /\ s.users \in [Users -> Rows] /\ s.before \subseteq Flows
      /\ s.faults \in Nat /\ s.ticks \in BOOLEAN
  BY AccessAssumption DEF AccessAssumption
<1>3. at \in [Flows -> Points] /\ \A f \in Flows : at[f] \in {"done", "idle"}
  BY <1>1 DEF Points, LoginPoints, CreatePoints, LogoutAllPoints, LoginOnly, Ended
<1>4. session \in [Flows -> 0 .. SessionTtl] /\ index \in [Users -> SUBSET Flows]
  BY <1>1, <1>2
<1>5. mem \in [Flows -> Memory] /\ srp \in [Users -> Challenges]
  BY BlankTyped DEF Init
<1>6. mailed \in [Users -> SUBSET Flows]
  BY <1>1, <1>2 DEF Init, Rows
<1>7. indexLeft \in [Users -> 0 .. Forever] /\ hits \in Nat /\ hitsLeft \in 0 .. Forever
  BY <1>2 DEF Init, Forever
<1>8. seen \in History /\ open \in BOOLEAN
  BY DEF Init, History
<1>9. TypeOK
  BY <1>1, <1>2, <1>3, <1>4, <1>5, <1>6, <1>7, <1>8 DEF TypeOK
<1>10. PlaceInv
  BY <1>3 DEF PlaceInv, Placed, LoginPoints, CreatePoints, LogoutAllPoints, LoginOnly, Ended
<1> QED BY <1>9, <1>10 DEF TypeInv

LEMMA TypeStep == TypeInv /\ [Next]_vars => TypeInv'
<1> SUFFICES ASSUME TypeOK, PlaceInv, [Next]_vars PROVE TypeOK' /\ PlaceInv'
  BY DEF TypeInv
<1>1. ASSUME NEW f \in Flows, Work(f) PROVE TypeOK' /\ PlaceInv'
  BY <1>1, WorkPlaced, Pressed, PressTyped, AccountTyped, SessionTyped, LoginTyped, RequestTyped,
     FaultTyped DEF Work
<1>2. CASE ServerDies
  BY <1>2, DeathPlaced, FaultTyped
<1>3. CASE Tick
  BY <1>3, TickTyped DEF PlaceInv, Placed, Op
<1>4. CASE UNCHANGED vars
  BY <1>4 DEF vars, work, redis, TypeOK, PlaceInv, Placed, Op
<1> QED BY <1>1, <1>2, <1>3, <1>4 DEF Next, Work

(* Type correctness: rows, keys of Redis and what requests remember keep   *)
(* the shape of the code's records.                                        *)
THEOREM TypeCorrect == Spec => []TypeOK
<1>1. TypeInv => TypeOK
  BY DEF TypeInv
<1> QED BY <1>1, InitTyped, TypeStep, PTL DEF Spec

(***************************************************************************)
(* One administrator remains                                               *)
(***************************************************************************)
(* Only one action can take the rights from somebody, and not from the     *)
(* administrator it acts for.                                              *)
LEMMA AdminStep ==
    ASSUME TypeInv, [Next]_vars, NEW a \in Users, IsAdmin(a), ~seen'.stale
    PROVE  \E u \in Users : IsAdmin(u)'
<1>1. user \in [Users -> Rows] /\ seen \in History
  BY DEF TypeInv, TypeOK
<1>2. ASSUME user' = user PROVE IsAdmin(a)'
  BY <1>2 DEF IsAdmin
<1>3. ASSUME NEW f \in Flows, Insert(f) PROVE IsAdmin(a)'
  <2>1. \A u \in Users : user[u].in => user'[u] = user[u]
    BY <1>1, <1>3 DEF Insert
  <2> QED BY <2>1 DEF IsAdmin
<1>4. ASSUME NEW f \in Flows, StoreLink(f) \/ Confirm(f) PROVE IsAdmin(a)'
  <2>1. \A u \in Users : /\ user'[u].in = user[u].in /\ user'[u].admin = user[u].admin
                         /\ user'[u].off = user[u].off
    <3>1. Own(f) \in Users
      BY KindTyped DEF TypeInv
    <3>2. PICK r \in Rows : /\ user' = user \/ user' = [user EXCEPT ![Own(f)] = r]
                           /\ r.in = user[Own(f)].in /\ r.admin = user[Own(f)].admin
                           /\ r.off = user[Own(f)].off
      <4>1. \A r \in Rows : /\ Verified(r) \in Rows /\ Verified(r).in = r.in
                            /\ Verified(r).admin = r.admin /\ Verified(r).off = r.off
        BY DEF Verified, Rows
      <4>2. \A r \in Rows, l \in Flows \cup {None} :
               /\ [r EXCEPT !.link = l] \in Rows /\ [r EXCEPT !.link = l].in = r.in
               /\ [r EXCEPT !.link = l].admin = r.admin /\ [r EXCEPT !.link = l].off = r.off
        BY DEF Rows
      <4>3. CASE Confirm(f)
        <5>1. user' = user \/ user' = [user EXCEPT ![Own(f)] = Verified(user[Own(f)])]
          BY <1>1, <3>1, <4>3 DEF Confirm
        <5> QED BY <1>1, <3>1, <4>1, <5>1
      <4>4. CASE StoreLink(f)
        <5>1. PICK l \in Flows \cup {None} :
                 user' = [user EXCEPT ![Own(f)] = [user[Own(f)] EXCEPT !.link = l]]
          <6>1. user[Own(f)].link \in Flows \cup {None}
            BY <1>1, <3>1 DEF Rows
          <6>2. user' = [user EXCEPT ![Own(f)] = [user[Own(f)] EXCEPT !.link =
                            IF user[Own(f)].in THEN f ELSE user[Own(f)].link]]
            BY <1>1, <3>1, <4>4 DEF StoreLink
          <6> QED BY <6>1, <6>2
        <5> QED BY <1>1, <3>1, <4>2, <5>1
      <4> QED BY <1>4, <4>3, <4>4
    <3> QED BY <1>1, <3>1, <3>2
  <2> QED BY <2>1 DEF IsAdmin
<1>5. ASSUME NEW f \in Flows, Administer(f) PROVE \E u \in Users : IsAdmin(u)'
  <2>1. Own(f) \in Users
    BY KindTyped DEF TypeInv
  <2>2. IsAdmin(Own(f))
    BY <1>1, <1>5 DEF Administer, History
  <2> DEFINE act == kind[f].arg.act
             t == kind[f].arg.on
  <2>3. CASE user' = user
    BY <1>2, <2>3
  <2>4. CASE user' = [user EXCEPT ![t] = Row(act, @)] /\ Allowed(f)
    <3>1. CASE t # Own(f)
      BY <1>1, <2>1, <2>2, <2>4, <3>1 DEF IsAdmin
    <3>2. CASE t = Own(f) /\ act \in {"enable", "verify"}
      <4>1. user'[t] = Row(act, user[t])
        BY <1>1, <2>1, <2>4, <3>2
      <4>2. user[t] \in Rows
        BY <1>1, <2>1, <3>2
      <4>3. Row(act, user[t]) \in {Enabled(user[t]), Verified(user[t])}
        BY <3>2 DEF Row
      <4>4. user'[t].in /\ user'[t].admin /\ ~user'[t].off
        BY <2>2, <3>2, <4>1, <4>2, <4>3 DEF IsAdmin, Enabled, Verified, Rows
      <4> QED BY <2>1, <3>2, <4>4 DEF IsAdmin
    <3>3. CASE t = Own(f) /\ act = "shut"
      BY <1>2, <1>5, <3>3 DEF Administer
    <3> QED BY <2>4, <3>1, <3>2, <3>3 DEF Allowed
  <2> QED BY <1>5, <2>3, <2>4 DEF Administer
<1>6. ASSUME NEW f \in Flows, Work(f) PROVE \E u \in Users : IsAdmin(u)'
  <2>1. CASE Account(f)
    BY <1>2, <1>3, <2>1 DEF Account, CheckOpen, CheckEmail, CountUsers, Mail, work
  <2>2. CASE Request(f)
    BY <1>2, <1>4, <1>5, <2>2 DEF Request, Authenticate, CheckEnabled, CheckAdmin, CheckUnverified,
                                  Match, work
  <2>3. CASE Session(f)
    BY <1>2, <2>3 DEF Session, StoreSession, IndexSession, RefreshIndex, GetSession, Unindex,
                      DropSession, ReadIndex, DropAll, DropIndex, work
  <2>4. CASE Login(f)
    BY <1>2, <2>4 DEF Login, Count, StartWindow, FindUser, Challenge, Prove, CloseTab, MatchProof,
                      Forget, TellVerified, work
  <2>5. CASE Press(f, Ops) \/ CallFails(f)
    BY <1>2, <2>5 DEF Press, CallFails, work
  <2> QED BY <1>6, <2>1, <2>2, <2>3, <2>4, <2>5, Pressed DEF Work, TypeInv
<1>7. ServerDies \/ Tick \/ UNCHANGED vars => user' = user
  BY DEF ServerDies, Tick, vars, work
<1> QED BY <1>2, <1>6, <1>7 DEF Next, Work

(* A server that has an administrator who can act keeps one, unless a      *)
(* request acted on a check that was no longer true: for any number of     *)
(* people and requests at once.                                            *)
THEOREM AdminAlwaysRemains == Spec => AdminRemains
<1>1. TypeInv /\ [Next]_vars
        => [(\E u \in Users : IsAdmin(u)) /\ ~seen'.stale => \E u \in Users : IsAdmin(u)']_vars
  BY AdminStep
<1> QED BY <1>1, InitTyped, TypeStep, PTL DEF Spec, AdminRemains

(***************************************************************************)
(* A login that meets no other one                                         *)
(***************************************************************************)
Tried(f) == Op(f) = "login" /\ mem[f].then = "match?" /\ at[f] \notin Ended
Met(f) == f \in seen.met

(* Two logins with a challenge out for one address have met.  One that has *)
(* met none finds its own challenge when its proof is checked.             *)
LonelyInv ==
    /\ \A f, g \in Flows : Tried(f) /\ Tried(g) /\ f # g /\ Own(f) = Own(g) => Met(f) /\ Met(g)
    /\ \A f \in Flows : Op(f) = "login" =>
          /\ at[f] \in {"prove", "match?"} \/ (at[f] \in {"incr", "expire"} /\ mem[f].then = "match?")
                => Met(f) \/ (srp[Own(f)].by = f /\ srp[Own(f)].left > 0)
          /\ at[f] = "drop" /\ kind[f].right => Met(f)
    /\ LonelyLoginWorks

LEMMA LonelyInit == Init => LonelyInv
<1> SUFFICES ASSUME Init PROVE LonelyInv
  OBVIOUS
<1>1. \A f \in Flows : at[f] \in {"done", "idle"} /\ mem[f].then = ""
  BY DEF Init, Blank
<1> QED BY <1>1 DEF LonelyInv, LonelyLoginWorks, Tried

(* A login waits for the answer of the server.                             *)
Waits(f) == Op(f) = "login" /\ (at[f] \in {"prove", "match?"}
                               \/ (at[f] \in {"incr", "expire"} /\ mem[f].then = "match?"))

(* A step of f that gives nobody a challenge and takes one from nobody who *)
(* has not met it.                                                         *)
LEMMA LonelyStep ==
    ASSUME TypeInv, TypeInv', LonelyInv, NEW f \in Flows, Alone(f), seen.met \subseteq seen'.met,
           srp' = srp \/ (Tried(f) /\ srp' = [srp EXCEPT ![Own(f)] = NoState]),
           Tried(f)' => Tried(f),
           Waits(f)' => Waits(f) /\ srp' = srp,
           Op(f) = "login" /\ at'[f] = "drop" /\ kind[f].right => Met(f),
           Op(f) = "login" /\ at'[f] = "refused" /\ kind[f].right => Met(f) \/ at[f] = "refused"
    PROVE  LonelyInv'
<1>1. \A g \in Flows : Op(g)' = Op(g) /\ Own(g)' = Own(g) /\ kind'[g] = kind[g] /\ (Met(g) => Met(g)')
  BY DEF Alone, Op, Own, Met
<1>2. \A g \in Flows : (Tried(g)' => Tried(g)) /\ (Waits(g)' => Waits(g))
  BY <1>1 DEF Tried, Waits, Alone
<1>3. ASSUME NEW g \in Flows, Waits(g)'
      PROVE  Met(g)' \/ (srp'[Own(g)].by = g /\ srp'[Own(g)].left > 0)
  <2>1. Met(g) \/ (srp[Own(g)].by = g /\ srp[Own(g)].left > 0)
    BY <1>2, <1>3 DEF LonelyInv, Waits
  <2>2. CASE srp' = srp
    BY <1>1, <2>1, <2>2
  <2>3. CASE srp' # srp
    <3>1. g # f /\ Tried(f) /\ srp' = [srp EXCEPT ![Own(f)] = NoState]
      BY <1>3, <2>3
    <3>2. CASE Own(g) = Own(f)
      <4>1. Tried(g)
        BY <1>2, <1>3, KindTyped DEF Waits, Tried, TypeInv, PlaceInv, Placed, Ended
      <4> QED BY <1>1, <3>1, <3>2, <4>1 DEF LonelyInv
    <3>3. CASE Own(g) # Own(f)
      BY <1>1, <2>1, <3>1, <3>3, KindTyped DEF TypeInv, TypeOK
    <3> QED BY <3>2, <3>3
  <2> QED BY <2>2, <2>3
<1>4. \A g, h \in Flows : Tried(g)' /\ Tried(h)' /\ g # h /\ Own(g)' = Own(h)' => Met(g)' /\ Met(h)'
  BY <1>1, <1>2 DEF LonelyInv
<1>5. \A g \in Flows : Op(g)' = "login" /\ at'[g] = "drop" /\ kind'[g].right => Met(g)'
  BY <1>1 DEF LonelyInv, Alone
<1>6. LonelyLoginWorks'
  BY <1>1 DEF LonelyInv, LonelyLoginWorks, Alone, Met
<1> QED BY <1>1, <1>3, <1>4, <1>5, <1>6 DEF LonelyInv, Waits

LEMMA LonelyChallenge ==
    ASSUME TypeInv, TypeInv', LonelyInv, NEW f \in Flows, Challenge(f), Alone(f)
    PROVE  LonelyInv'
<1>1. Op(f) = "login" /\ at[f] = "challenge" /\ at'[f] = "prove" /\ Own(f) \in Users
  BY KindTyped DEF Challenge, Step, TypeInv, TypeOK, PlaceInv, Placed, LoginOnly
<1>2. srp' = [srp EXCEPT ![Own(f)] = Stored(f)] /\ srp \in [Users -> Challenges]
  BY DEF Challenge, TypeInv, TypeOK
<1>3. /\ seen.met \subseteq seen'.met
      /\ \A g \in Trying(Own(f)) : g \in seen'.met /\ f \in seen'.met
  BY DEF Challenge, TypeInv, TypeOK, History
<1>4. \A g \in Flows : Op(g)' = Op(g) /\ Own(g)' = Own(g) /\ kind'[g] = kind[g] /\ (Met(g) => Met(g)')
  BY <1>3 DEF Alone, Op, Own, Met
<1>5. \A g \in Flows \ {f} : /\ Tried(g)' <=> Tried(g)
                             /\ Waits(g)' <=> Waits(g)
                             /\ Tried(g) /\ Own(g) = Own(f) => g \in Trying(Own(f))
  BY <1>4 DEF Tried, Waits, Trying, Alone
<1>6. \A g, h \in Flows : Tried(g)' /\ Tried(h)' /\ g # h /\ Own(g)' = Own(h)' => Met(g)' /\ Met(h)'
  <2> SUFFICES ASSUME NEW g \in Flows, NEW h \in Flows, Tried(g)', Tried(h)', g # h, Own(g) = Own(h)
               PROVE  Met(g)' /\ Met(h)'
    BY <1>4
  <2>1. CASE g # f /\ h # f
    BY <1>4, <1>5, <2>1 DEF LonelyInv
  <2>2. CASE g = f
    BY <1>3, <1>5, <2>2 DEF Met
  <2>3. CASE h = f
    BY <1>3, <1>5, <2>3 DEF Met
  <2> QED BY <2>1, <2>2, <2>3
<1>7. ASSUME NEW g \in Flows, Waits(g)'
      PROVE  Met(g)' \/ (srp'[Own(g)].by = g /\ srp'[Own(g)].left > 0)
  <2>1. CASE g = f
    BY <1>1, <1>2, <2>1 DEF Stored
  <2>2. CASE g # f /\ Own(g) = Own(f)
    <3>1. Tried(g)
      BY <1>5, <1>7, <2>2 DEF Waits, Tried, TypeInv, PlaceInv, Placed, Ended
    <3> QED BY <1>3, <1>5, <2>2, <3>1 DEF Met
  <2>3. CASE g # f /\ Own(g) # Own(f)
    BY <1>2, <1>4, <1>5, <1>7, <2>3, KindTyped DEF LonelyInv, Waits, TypeInv
  <2> QED BY <2>1, <2>2, <2>3
<1>8. \A g \in Flows : Op(g)' = "login" /\ at'[g] = "drop" /\ kind'[g].right => Met(g)'
  BY <1>1, <1>4 DEF LonelyInv, Alone
<1>9. LonelyLoginWorks'
  BY <1>1, <1>4 DEF LonelyInv, LonelyLoginWorks, Alone, Met
<1> QED BY <1>4, <1>6, <1>7, <1>8, <1>9 DEF LonelyInv, Waits

LEMMA LonelyWork ==
    ASSUME TypeInv, TypeInv', LonelyInv, NEW f \in Flows, Work(f)
    PROVE  LonelyInv'
<1>1. /\ Alone(f) /\ Placed(f) /\ Placed(f)' /\ kind' = kind /\ seen \in History
      /\ at \in [Flows -> Points] /\ mem \in [Flows -> Memory] /\ mem[f] \in Memory
  BY WorkPlaced DEF TypeInv, TypeOK, PlaceInv, Alone
(* A step that leaves the challenges, and what the flow remembers of its   *)
(* own, alone.                                                             *)
<1>2. ASSUME seen'.met = seen.met, srp' = srp, at[f] \notin Ended,
             Op(f) = "login" => mem'[f].then = mem[f].then,
             Waits(f)' => Waits(f),
             Op(f) = "login" => at'[f] \notin {"drop", "refused"}
      PROVE  LonelyInv'
  <2>1. Tried(f)' => Tried(f)
    BY <1>1, <1>2 DEF Tried, Op
  <2> QED BY <1>1, <1>2, <2>1, LonelyStep
<1>3. CASE Press(f, Ops)
  <2>1. mem'[f].then = "find" /\ at[f] = "idle"
    <3> DEFINE m == [Blank EXCEPT !.then = "find", !.due = HandedOut(Own(f))]
    <3>1. m \in Memory /\ m.then = "find"
      BY DEF Blank, Memory, HandedOut
    <3>2. Keep(f, m)
      BY <1>3 DEF Press
    <3> HIDE DEF m
    <3> QED BY <1>1, <1>3, <3>1, <3>2, Kept DEF Press, Step
  <2>2. Op(f) = "login" => at'[f] = "incr"
    BY <1>1, <1>3 DEF Press, Step, Entry
  <2>3. ~Tried(f)' /\ ~Waits(f)'
    BY <1>1, <2>1, <2>2 DEF Tried, Waits, Op
  <2> QED BY <1>1, <1>3, <2>2, <2>3, LonelyStep DEF Press, redis
<1>4. CASE CallFails(f)
  <2>1. /\ seen'.met = seen.met /\ srp' = srp /\ mem' = mem /\ at[f] \notin Ended
    BY <1>1, <1>4 DEF CallFails, redis, History
  <2>2. \/ at'[f] \in {"failed", "dropFailed"}
        \/ at'[f] = mem[f].then /\ at[f] \in {"incr", "expire"}
    BY <1>1, <1>4 DEF CallFails
  <2>3. at'[f] = mem[f].then => at'[f] \in {"find", "match?"} \/ at[f] = "idle"
    BY <1>1, <2>1 DEF Placed
  <2>4. (Waits(f)' => Waits(f)) /\ (Op(f) = "login" => at'[f] \notin {"drop", "refused"})
    BY <1>1, <2>1, <2>2, <2>3 DEF Waits, Op
  <2> QED BY <1>2, <2>1, <2>4
<1>5. CASE Account(f) \/ Request(f)
  <2>1. Op(f) # "login"
    BY <1>1, <1>5 DEF Account, CheckOpen, CheckEmail, CountUsers, Insert, Mail, Request, Authenticate,
          CheckEnabled, CheckAdmin, Administer, CheckUnverified, StoreLink, Match, Confirm, Step, Placed,
          LoginPoints, LoginOnly, Ended
  <2>2. srp' = srp /\ seen'.met = seen.met
    BY <1>1, <1>5 DEF Account, CheckOpen, CheckEmail, CountUsers, Insert, Mail, Request, Authenticate,
          CheckEnabled, CheckAdmin, Administer, CheckUnverified, StoreLink, Match, Confirm, redis, History
  <2>3. ~Waits(f)' /\ ~Tried(f)'
    BY <1>1, <2>1 DEF Waits, Tried, Op
  <2> QED BY <1>1, <2>1, <2>2, <2>3, LonelyStep
<1>6. CASE Session(f)
  <2>1. /\ Op(f) = "login" => at[f] \in {"set", "sadd", "pexpire"} /\ mem' = mem
        /\ at[f] \notin Ended
    BY <1>1, <1>6 DEF Session, StoreSession, IndexSession, RefreshIndex, GetSession, Unindex,
          DropSession, ReadIndex, DropAll, DropIndex, Step, Placed, LoginPoints, LoginOnly, Ended
  <2>2. at'[f] \in {"sadd", "pexpire", "verified?", "done", "srem", "del", "delKeys", "delIndex"}
    BY <1>1, <1>6 DEF Session, StoreSession, IndexSession, RefreshIndex, GetSession, Unindex,
          DropSession, ReadIndex, DropAll, DropIndex, Step
  <2>3. srp' = srp /\ seen'.met = seen.met
    BY <1>1, <1>6 DEF Session, StoreSession, IndexSession, RefreshIndex, GetSession, Unindex,
          DropSession, ReadIndex, DropAll, DropIndex, redis, History
  <2> QED BY <1>1, <1>2, <2>1, <2>2, <2>3 DEF Waits
<1>7. CASE Login(f)
  <2>1. CASE Challenge(f)
    BY <1>1, <2>1, LonelyChallenge
  <2>2. CASE Forget(f)
    <3>1. /\ Op(f) = "login" /\ at[f] \in {"forget", "drop", "dropFailed"}
          /\ at'[f] \in {"set", "refused", "failed"} /\ (at'[f] = "refused" => at[f] = "drop")
          /\ mem' = mem /\ seen' = seen /\ srp' = [srp EXCEPT ![Own(f)] = NoState]
      BY <1>1, <2>2 DEF Forget, Step, Placed, LoginOnly
    <3>2. Tried(f) /\ ~Waits(f)'
      BY <1>1, <3>1 DEF Tried, Waits, Placed, Ended
    <3>3. at'[f] = "refused" /\ kind[f].right => Met(f)
      BY <3>1 DEF LonelyInv
    <3> QED BY <1>1, <3>1, <3>2, <3>3, LonelyStep
  <2>3. CASE MatchProof(f)
    <3>1. /\ Op(f) = "login" /\ at[f] = "match?" /\ mem' = mem /\ seen' = seen /\ srp' = srp
          /\ mem[f].then = "match?" /\ at'[f] \in {"refused", "forget", "drop"}
      BY <1>1, <2>3 DEF MatchProof, Step, Placed, LoginOnly, redis
    <3>2. Met(f) \/ (srp[Own(f)].by = f /\ srp[Own(f)].left > 0)
      BY <3>1 DEF LonelyInv
    <3>3. at'[f] \in {"refused", "drop"} /\ kind[f].right => Met(f)
      BY <1>1, <2>3, <3>2 DEF MatchProof, Step
    <3>4. Tried(f) /\ ~Waits(f)'
      BY <1>1, <3>1 DEF Tried, Waits, Ended
    <3> QED BY <1>1, <3>1, <3>3, <3>4, LonelyStep
  <2>4. CASE Count(f) \/ StartWindow(f)
    <3>1. /\ at[f] \in {"incr", "expire"} /\ mem' = mem /\ srp' = srp /\ seen' = seen
          /\ at'[f] \in {"expire", "limited"} \/ at'[f] = mem[f].then
      BY <1>1, <2>4 DEF Count, StartWindow, Step, redis
    <3>2. mem[f].then \in {"find", "match?"} /\ Op(f) = "login"
      BY <1>1, <3>1 DEF Placed, Ended, LoginOnly
    <3>3. Waits(f)' => Waits(f)
      BY <1>1, <3>1, <3>2 DEF Waits, Op
    <3> QED BY <1>2, <3>1, <3>2, <3>3 DEF Ended
  <2>5. CASE FindUser(f) \/ Prove(f) \/ CloseTab(f) \/ TellVerified(f)
    <3>1. /\ at[f] \in {"find", "prove", "verified?"} /\ mem' = mem /\ srp' = srp /\ seen' = seen
          /\ at'[f] \in {"challenge", "failed", "gone", "done"} \/ (at[f] = "prove" /\ at'[f] = "incr")
      BY <1>1, <2>5 DEF FindUser, Prove, CloseTab, TellVerified, Step, redis
    <3>2. Waits(f)' => Waits(f)
      BY <1>1, <3>1 DEF Waits, Op, Placed, LoginOnly
    <3> QED BY <1>2, <3>1, <3>2 DEF Ended
  <2> QED BY <1>7, <2>1, <2>2, <2>3, <2>4, <2>5 DEF Login
<1> QED BY <1>1, <1>3, <1>4, <1>5, <1>6, <1>7, Pressed DEF Work, TypeInv

LEMMA LonelyOthers ==
    ASSUME TypeInv, LonelyInv, ServerDies \/ Tick \/ UNCHANGED vars
    PROVE  LonelyInv'
<1>1. CASE ServerDies
  <2>1. /\ mem' = mem /\ kind' = kind /\ srp' = srp /\ seen'.met = seen.met
        /\ \A f \in Flows : at'[f] = at[f] \/ at'[f] = "failed"
    BY <1>1, DeathPlaced DEF ServerDies, redis, TypeInv, TypeOK, History
  <2> QED BY <2>1 DEF LonelyInv, LonelyLoginWorks, Tried, Met, Op, Own, Ended
<1>2. CASE Tick
  <2>1. at' = at /\ mem' = mem /\ kind' = kind
    BY <1>2, TickTyped DEF TypeInv
  <2>2. /\ seen.met \subseteq seen'.met
        /\ \A f \in Flows, u \in Users : srp[u].by = f => f \in seen'.met
    <3>1. seen \in History /\ None \notin Flows
      BY AccessAssumption DEF TypeInv, TypeOK, AccessAssumption
    <3>2. seen'.met = (seen.met \cup {srp[u].by : u \in Users}) \ {None}
      BY <1>2, <3>1 DEF Tick, History
    <3> QED BY <3>1, <3>2 DEF History
  <2>3. \A f \in Flows : Met(f)' \/ srp[Own(f)].by # f
    BY <2>2, KindTyped DEF Met, TypeInv
  <2>4. \A f \in Flows : Met(f) => Met(f)'
    BY <2>2 DEF Met
  <2> QED BY <2>1, <2>3, <2>4 DEF LonelyInv, LonelyLoginWorks, Tried, Met, Op, Own
<1>3. CASE UNCHANGED vars
  BY <1>3 DEF vars, work, redis, LonelyInv, LonelyLoginWorks, Tried, Met, Op, Own
<1> QED BY <1>1, <1>2, <1>3

(* A login with the right passphrase is refused only when it has met       *)
(* another one or its challenge has expired, for any number of logins,     *)
(* failures and deaths of the server.                                      *)
THEOREM LonelyLoginAlwaysWorks == Spec => []LonelyLoginWorks
<1>1. TypeInv /\ TypeInv' /\ LonelyInv /\ [Next]_vars => LonelyInv'
  BY LonelyWork, LonelyOthers DEF Next, Work
<1>2. LonelyInv => LonelyLoginWorks
  BY DEF LonelyInv
<1> QED BY <1>1, <1>2, InitTyped, TypeStep, LonelyInit, PTL DEF Spec

(***************************************************************************)
(* A log-out of all devices                                                *)
(***************************************************************************)
Past == {"pexpire", "verified?", "dropFailed"} \cup Ended   \* the session is listed
Token(s) == Op(s) \in {"create", "login"}
HalfOut(s) == \E g \in Flows : Op(g) = "logout" /\ As(g) = s /\ at[g] \in {"del", "failed"}
Gone(s) == session[s] = 0 \/ s \in seen.missed \/ HalfOut(s)

(* Whoever is in a list has stored the session for good; a session that    *)
(* lives is listed, or lost to the lists; its list lives as long.          *)
Stored1 == \A u \in Users : \A s \in index[u] : at[s] \in Past
Listed == \A s \in Flows : Token(s) /\ at[s] \in {"pexpire", "verified?", "done"}
                              => Gone(s) \/ s \in index[Own(s)]
ListLives == \A s \in Flows : Token(s) /\ at[s] \in {"verified?", "done"} /\ s \in index[Own(s)]
                              => session[s] <= indexLeft[Own(s)]
(* What a log-out of all devices has read, and what it owes                *)
HasRead == \A f \in Flows : at[f] \in {"delKeys", "delIndex"} =>
              \A s \in mem[f].read : at[s] \in Past /\ (at[f] = "delIndex" => session[s] = 0)
Owes == \A f \in Flows : Op(f) = "logoutAll" =>
           \A s \in mem[f].due :
              /\ Token(s) /\ at[s] = "done" /\ Own(s) = Own(f)
              /\ at[f] = "delKeys" => s \in mem[f].read \/ Gone(s)
              /\ at[f] \in {"delIndex", "done"} => Gone(s)

ListInv == Stored1 /\ Listed /\ ListLives /\ HasRead /\ Owes

LEMMA ListInit == Init => ListInv
<1> SUFFICES ASSUME Init PROVE ListInv
  OBVIOUS
<1>1. PICK b \in SUBSET Flows :
         /\ at = [f \in Flows |-> IF f \in b THEN "done" ELSE "idle"]
         /\ session = [f \in Flows |-> IF f \in b THEN SessionTtl ELSE 0]
         /\ index = [u \in Users |-> {f \in b : kind[f].user = u}]
  <2>1. PICK s \in Scenarios :
           /\ kind = s.flows
           /\ at = [f \in Flows |-> IF f \in s.before THEN "done" ELSE "idle"]
           /\ session = [f \in Flows |-> IF f \in s.before THEN SessionTtl ELSE 0]
           /\ index = [u \in Users |-> {f \in s.before : s.flows[f].user = u}]
    BY DEF Init
  <2>2. s.before \in SUBSET Flows
    BY AccessAssumption DEF AccessAssumption
  <2> QED BY <2>1, <2>2
<1>2. /\ indexLeft = [u \in Users |-> IF index[u] = {} THEN 0 ELSE SessionTtl]
      /\ SessionTtl \in Nat \ {0} /\ \A f \in Flows : Own(f) \in Users /\ mem[f].due = {}
  BY AccessAssumption, InitTyped, KindTyped DEF Init, AccessAssumption, TypeInv, Blank
<1>3. Stored1
  BY <1>1 DEF Stored1, Past, Ended
<1>4. Listed
  BY <1>1, <1>2 DEF Listed, Gone, Own
<1>5. ListLives
  BY <1>1, <1>2 DEF ListLives
<1>6. HasRead /\ Owes
  BY <1>1, <1>2 DEF HasRead, Owes
<1> QED BY <1>3, <1>4, <1>5, <1>6 DEF ListInv

(* What a step does to one flow, by the place the flow had.                *)
Goes(s) ==
    /\ at[s] \in Past => at'[s] \in Past
    /\ at[s] \in {"done", "failed"} => at'[s] = at[s]
    /\ at[s] = "del" => at'[s] \in {"del", "failed"} \/ DropSession(s)
    /\ Token(s) /\ at'[s] = "pexpire" => at[s] = "pexpire" \/ IndexSession(s)
    /\ Token(s) /\ at'[s] \in {"verified?", "done"} => at[s] \in {"verified?", "done"} \/ RefreshIndex(s)
    /\ at'[s] = "delKeys" => at[s] = "delKeys" \/ ReadIndex(s)
    /\ at'[s] = "delIndex" => at[s] = "delIndex" \/ DropAll(s)
    /\ Op(s) = "logoutAll" /\ at'[s] = "done" => at[s] = "done" \/ DropIndex(s)
    /\ mem'[s].read = mem[s].read \/ at'[s] \notin {"delKeys", "delIndex"} \/ ReadIndex(s)
    /\ mem'[s].due = mem[s].due \/ Press(s, Ops) \/ Op(s) # "logoutAll"

LEMMA SelfGoes ==
    ASSUME TypeInv, NEW f \in Flows, Work(f)
    PROVE  Goes(f)
<1>1. /\ Alone(f) /\ Placed(f) /\ Placed(f)' /\ kind' = kind
      /\ at \in [Flows -> Points] /\ mem \in [Flows -> Memory] /\ mem[f] \in Memory
  BY WorkPlaced DEF TypeInv, TypeOK, PlaceInv, Alone
<1>2. CASE Press(f, Ops)
  <2>1. at[f] = "idle" /\ at'[f] = Entry[Op(f)] /\ Op(f) \in Ops
    BY <1>1, <1>2 DEF Press, Step
  <2>2. at'[f] \in {"open", "email", "incr", "get", "members", "session", "match", "gone"}
    BY <2>1 DEF Entry, Ops
  <2>3. /\ Op(f) = "create" => at'[f] = "open"
        /\ Op(f) = "login" => at'[f] = "incr"
    BY <2>1 DEF Entry
  <2> QED BY <1>2, <2>1, <2>2, <2>3 DEF Goes, Past, Ended, Token
<1>3. CASE CallFails(f)
  <2>1. mem' = mem /\ at[f] \notin Ended
    BY <1>1, <1>3 DEF CallFails
  <2>2. /\ at'[f] \in {"failed", "dropFailed", "find", "match?"}
        /\ at'[f] \in {"find", "match?"} => at[f] \in {"incr", "expire"}
    BY <1>1, <1>3 DEF CallFails, Placed, Ended
  <2>3. at[f] = "del" => at'[f] = "failed"
    BY <1>1, <1>3 DEF CallFails, Placed
  <2> QED BY <2>1, <2>2, <2>3 DEF Goes, Past, Ended
<1>4. CASE Account(f)
  <2>1. at[f] \in {"open", "email", "count", "insert", "mail"}
    BY <1>4 DEF Account, CheckOpen, CheckEmail, CountUsers, Insert, Mail, Step
  <2>2. at'[f] \in {"email", "refused", "count", "insert", "failed", "set", "mail", "done"}
    BY <1>1, <1>4 DEF Account, CheckOpen, CheckEmail, CountUsers, Insert, Mail, Step
  <2>3. at'[f] = "done" => at[f] = "mail"
    BY <1>1, <1>4 DEF Account, CheckOpen, CheckEmail, CountUsers, Insert, Mail, Step
  <2> QED BY <1>1, <2>1, <2>2, <2>3 DEF Goes, Past, Ended, Token, Placed, LoginPoints, CreatePoints,
             LogoutAllPoints, LoginOnly
<1>5. CASE Login(f)
  <2>1. at[f] \in LoginOnly \ {"verified?"} \/ TellVerified(f)
    BY <1>5 DEF Login, Count, StartWindow, FindUser, Challenge, Prove, CloseTab, MatchProof, Forget,
                Step, LoginOnly
  <2>2. at'[f] \in {"expire", "limited", "find", "match?", "challenge", "failed", "prove", "incr",
                    "gone", "refused", "forget", "drop", "set"} \/ TellVerified(f)
    BY <1>1, <1>5 DEF Login, Count, StartWindow, FindUser, Challenge, Prove, CloseTab, MatchProof, Forget,
                Step, Placed, Ended
  <2>3. Forget(f) /\ at[f] = "dropFailed" => at'[f] = "failed"
    BY <1>1 DEF Forget, Step
  <2>4. at[f] \in Past => Forget(f) \/ TellVerified(f)
    BY <1>5 DEF Login, Count, StartWindow, FindUser, Challenge, Prove, CloseTab, MatchProof, Step, Past, Ended
  <2>5. TellVerified(f) => at[f] = "verified?" /\ at'[f] = "done" /\ Op(f) = "login"
    BY <1>1 DEF TellVerified, Step, Placed, LoginOnly
  <2>6. Forget(f) => at[f] \in {"forget", "drop", "dropFailed"}
    BY DEF Forget, Step
  <2>7. Op(f) = "login"
    BY <1>1, <2>1, <2>5 DEF Placed
  <2> QED BY <2>1, <2>2, <2>3, <2>4, <2>5, <2>6, <2>7 DEF Goes, Past, Ended, LoginOnly
<1>6. CASE Request(f)
  <2>1. at[f] \in {"session", "enabled?", "admin?", "act", "unverified?", "link", "match", "confirm"}
    BY <1>6 DEF Request, Authenticate, CheckEnabled, CheckAdmin, Administer, CheckUnverified, StoreLink,
                Match, Confirm, Step
  <2>2. Op(f) \notin {"login", "create", "logoutAll"}
    BY <1>1, <2>1 DEF Placed, LoginPoints, CreatePoints, LogoutAllPoints, LoginOnly, Ended
  <2>3. at'[f] \notin {"delKeys", "delIndex"}
    BY <1>1, <1>6 DEF Request, Authenticate, CheckEnabled, CheckAdmin, Administer, CheckUnverified, StoreLink,
                Match, Confirm, Step
  <2> QED BY <2>1, <2>2, <2>3 DEF Goes, Past, Ended, Token
<1>7. CASE Session(f)
  <2>1. CASE StoreSession(f) \/ GetSession(f) \/ Unindex(f)
    <3>1. at[f] \in {"set", "get", "srem"} /\ at'[f] \in {"sadd", "srem", "del"} /\ mem' = mem
      BY <1>1, <2>1 DEF StoreSession, GetSession, Unindex, Step
    <3> QED BY <3>1 DEF Goes, Past, Ended
  <2>2. CASE IndexSession(f)
    <3>1. at[f] = "sadd" /\ at'[f] = "pexpire" /\ mem' = mem
      BY <1>1, <2>2 DEF IndexSession, Step
    <3> QED BY <2>2, <3>1 DEF Goes, Past, Ended
  <2>3. CASE RefreshIndex(f)
    <3>1. /\ at[f] = "pexpire" /\ at'[f] \in {"verified?", "done"} /\ mem' = mem
          /\ Op(f) # "logoutAll"
      BY <1>1, <2>3 DEF RefreshIndex, Step, Placed, LogoutAllPoints, Ended
    <3> QED BY <2>3, <3>1 DEF Goes, Past, Ended
  <2>4. CASE DropSession(f)
    <3>1. at[f] = "del" /\ at'[f] = "done" /\ mem' = mem /\ Op(f) = "logout"
      BY <1>1, <2>4 DEF DropSession, Step, Placed
    <3> QED BY <2>4, <3>1 DEF Goes, Past, Ended, Token
  <2>5. CASE ReadIndex(f)
    <3> DEFINE m == [mem[f] EXCEPT !.read = index[Own(f)]]
    <3>1. m.due = mem[f].due /\ m \in Memory
      BY <1>1, KindTyped DEF Memory, TypeInv, TypeOK
    <3>2. Keep(f, m) /\ at[f] = "members" /\ at'[f] = "delKeys"
      BY <1>1, <2>5 DEF ReadIndex, Step
    <3> HIDE DEF m
    <3>3. mem'[f].due = mem[f].due
      BY <1>1, <3>1, <3>2, Kept
    <3> QED BY <2>5, <3>2, <3>3 DEF Goes, Past, Ended
  <2>6. CASE DropAll(f)
    <3>1. at[f] = "delKeys" /\ at'[f] = "delIndex" /\ mem' = mem
      BY <1>1, <2>6 DEF DropAll, Step
    <3> QED BY <2>6, <3>1 DEF Goes, Past, Ended
  <2>7. CASE DropIndex(f)
    <3>1. at[f] = "delIndex" /\ at'[f] = "done" /\ mem' = mem /\ ~Token(f)
      BY <1>1, <2>7 DEF DropIndex, Step, Placed, Token, LoginPoints, CreatePoints, LoginOnly, Ended
    <3> QED BY <2>7, <3>1 DEF Goes, Past, Ended
  <2> QED BY <1>7, <2>1, <2>2, <2>3, <2>4, <2>5, <2>6, <2>7 DEF Session
<1> QED BY <1>2, <1>3, <1>4, <1>5, <1>6, <1>7, Pressed DEF Work, TypeInv

LEMMA AllGo ==
    ASSUME TypeInv, [Next]_vars
    PROVE  kind' = kind /\ \A s \in Flows : Goes(s)
<1>1. ASSUME NEW s \in Flows, at'[s] = at[s], mem'[s] = mem[s] PROVE Goes(s)
  BY <1>1 DEF Goes
<1>2. ASSUME NEW f \in Flows, Work(f) PROVE kind' = kind /\ \A s \in Flows : Goes(s)
  BY <1>1, <1>2, SelfGoes, WorkPlaced DEF TypeInv, Alone
<1>3. CASE ServerDies
  <2>1. ASSUME NEW s \in Flows PROVE Goes(s)
    <3>1. mem' = mem /\ (at'[s] = at[s] \/ (at'[s] = "failed" /\ at[s] \notin Ended))
      BY <1>3, DeathPlaced DEF TypeInv
    <3> QED BY <1>1, <3>1 DEF Goes, Past, Ended
  <2> QED BY <1>3, <2>1, DeathPlaced DEF TypeInv
<1>4. CASE Tick \/ UNCHANGED vars
  BY <1>1, <1>4 DEF Tick, work, vars
<1> QED BY <1>2, <1>3, <1>4 DEF Next, Work

LEMMA Lists ==
    ASSUME TypeInv, [Next]_vars
    PROVE  /\ \/ index' = index /\ indexLeft' = indexLeft
              \/ \E g \in Flows : IndexSession(g) \/ RefreshIndex(g) \/ Unindex(g) \/ DropIndex(g)
              \/ Tick
           /\ \/ session' = session
              \/ \E g \in Flows : StoreSession(g) \/ DropSession(g) \/ DropAll(g)
              \/ Tick
           /\ \/ seen'.missed = seen.missed
              \/ \E g \in Flows : DropIndex(g)
              \/ Tick
<1>1. seen \in History
  BY DEF TypeInv, TypeOK
<1>2. ASSUME NEW f \in Flows, Press(f, Ops) \/ Account(f)
      PROVE  index' = index /\ indexLeft' = indexLeft /\ session' = session /\ seen' = seen
  BY <1>2 DEF Press, Account, CheckOpen, CheckEmail, CountUsers, Insert, Mail, redis
<1>3. ASSUME NEW f \in Flows, Login(f) \/ Request(f) \/ CallFails(f)
      PROVE  /\ index' = index /\ indexLeft' = indexLeft /\ session' = session
             /\ seen'.missed = seen.missed
  BY <1>1, <1>3 DEF Login, Count, StartWindow, FindUser, Challenge, Prove, CloseTab, MatchProof, Forget,
       TellVerified, Request, Authenticate, CheckEnabled, CheckAdmin, Administer, CheckUnverified,
       StoreLink, Match, Confirm, CallFails, redis, History
<1>4. ASSUME NEW f \in Flows, Session(f)
      PROVE  /\ \/ index' = index /\ indexLeft' = indexLeft
                \/ IndexSession(f) \/ RefreshIndex(f) \/ Unindex(f) \/ DropIndex(f)
             /\ \/ session' = session
                \/ StoreSession(f) \/ DropSession(f) \/ DropAll(f)
             /\ seen' = seen \/ DropIndex(f)
  BY <1>4 DEF Session, StoreSession, IndexSession, RefreshIndex, GetSession, Unindex, DropSession,
       ReadIndex, DropAll, DropIndex, redis
<1>5. ServerDies \/ UNCHANGED vars
        => index' = index /\ indexLeft' = indexLeft /\ session' = session /\ seen'.missed = seen.missed
  BY <1>1 DEF ServerDies, vars, redis, History
<1> QED BY <1>2, <1>3, <1>4, <1>5, Pressed DEF Next, TypeInv

(* A session that is stored for good only comes nearer to its end.         *)
LEMMA SessionsFall ==
    ASSUME TypeInv, [Next]_vars
    PROVE  /\ \A s \in Flows : at[s] \in Past =>
                 session'[s] <= session[s] /\ (session[s] = 0 => session'[s] = 0)
           /\ seen.missed \subseteq seen'.missed
<1>1. /\ session \in [Flows -> 0 .. SessionTtl] /\ SessionTtl \in Nat \ {0} /\ seen \in History
      /\ \A s \in Flows : session[s] \in Nat
  BY AccessAssumption DEF TypeInv, TypeOK
<1>2. ASSUME NEW g \in Flows, StoreSession(g)
      PROVE  \A s \in Flows : at[s] \in Past => session'[s] = session[s]
  BY <1>1, <1>2 DEF StoreSession, Step, Past, Ended
<1>3. ASSUME NEW g \in Flows, DropSession(g) \/ DropAll(g)
      PROVE  \A s \in Flows : session'[s] \in {0, session[s]}
  BY <1>1, <1>3 DEF DropSession, DropAll
<1>4. CASE Tick
  <2>1. \A s \in Flows : session'[s] = Age(session[s])
    BY <1>1, <1>4 DEF Tick
  <2>2. \A n \in Nat : Age(n) <= n /\ Age(0) = 0
    BY DEF Age
  <2> QED BY <1>1, <1>4, <2>1, <2>2 DEF Tick, History
<1>5. \A s \in Flows : at[s] \in Past =>
         session'[s] <= session[s] /\ (session[s] = 0 => session'[s] = 0)
  BY <1>1, <1>2, <1>3, <1>4, Lists
<1>6. ASSUME NEW g \in Flows, DropIndex(g) PROVE seen.missed \subseteq seen'.missed
  BY <1>1, <1>6 DEF DropIndex, History
<1>7. seen.missed \subseteq seen'.missed
  BY <1>1, <1>4, <1>6, Lists DEF Tick, History
<1> QED BY <1>5, <1>7

LEMMA GoneStays ==
    ASSUME TypeInv, [Next]_vars, NEW s \in Flows, at[s] \in Past, Gone(s)
    PROVE  Gone(s)'
<1>1. CASE session[s] = 0 \/ s \in seen.missed
  BY <1>1, SessionsFall DEF Gone
<1>2. CASE HalfOut(s)
  <2>1. PICK g \in Flows : Op(g) = "logout" /\ As(g) = s /\ at[g] \in {"del", "failed"}
    BY <1>2 DEF HalfOut
  <2>2. Op(g)' = Op(g) /\ As(g)' = As(g) /\ Goes(g)
    BY AllGo DEF Op, As
  <2>3. CASE at'[g] \in {"del", "failed"}
    BY <2>1, <2>2, <2>3 DEF Gone, HalfOut
  <2>4. CASE DropSession(g)
    <3>1. session'[s] = 0
      BY <2>1, <2>4 DEF DropSession, TypeInv, TypeOK
    <3> QED BY <3>1 DEF Gone
  <2> QED BY <2>1, <2>2, <2>3, <2>4 DEF Goes
<1> QED BY <1>1, <1>2 DEF Gone

LEMMA StoredStep ==
    ASSUME TypeInv, [Next]_vars, ListInv
    PROVE  Stored1'
<1>1. \A s \in Flows : at[s] \in Past => at'[s] \in Past
  BY AllGo DEF Goes
<1>2. index \in [Users -> SUBSET Flows]
  BY DEF TypeInv, TypeOK
<1>3. ASSUME NEW g \in Flows, IndexSession(g) PROVE Stored1'
  <2>1. at'[g] = "pexpire" /\ index' = [index EXCEPT ![Own(g)] = @ \cup {g}]
    BY <1>3 DEF IndexSession, Step, TypeInv, TypeOK
  <2> QED BY <1>1, <1>2, <2>1 DEF ListInv, Stored1, Past
<1>4. ASSUME \A u \in Users : index'[u] \subseteq index[u] PROVE Stored1'
  BY <1>1, <1>2, <1>4 DEF ListInv, Stored1
<1>5. ASSUME NEW g \in Flows, RefreshIndex(g) \/ Unindex(g) \/ DropIndex(g)
      PROVE  \A u \in Users : index'[u] \subseteq index[u]
  BY <1>2, <1>5 DEF RefreshIndex, Unindex, DropIndex, Without
<1>6. Tick => \A u \in Users : index'[u] \subseteq index[u]
  BY <1>2 DEF Tick
<1> QED BY <1>3, <1>4, <1>5, <1>6, Lists

LEMMA HasReadStep ==
    ASSUME TypeInv, [Next]_vars, ListInv
    PROVE  HasRead'
<1> SUFFICES ASSUME NEW f \in Flows, at'[f] \in {"delKeys", "delIndex"}, NEW s \in mem'[f].read
             PROVE  at'[s] \in Past /\ (at'[f] = "delIndex" => session'[s] = 0)
  BY DEF HasRead
<1>1. Goes(f) /\ \A g \in Flows : at[g] \in Past => at'[g] \in Past
  BY AllGo DEF Goes
<1>2. mem \in [Flows -> Memory] /\ at \in [Flows -> Points] /\ index \in [Users -> SUBSET Flows]
  BY DEF TypeInv, TypeOK
<1>3. CASE ReadIndex(f)
  <2> DEFINE m == [mem[f] EXCEPT !.read = index[Own(f)]]
  <2> Own(f) \in Users /\ index[Own(f)] \in SUBSET Flows
    BY <1>2, KindTyped DEF TypeInv
  <2> mem[f] \in Memory
    BY <1>2
  <2>1. m.read = index[Own(f)] /\ m \in Memory
    BY DEF Memory
  <2>2. Keep(f, m) /\ at'[f] = "delKeys"
    BY <1>2, <1>3 DEF ReadIndex, Step
  <2> HIDE DEF m
  <2>3. s \in index[Own(f)]
    BY <1>2, <2>1, <2>2, Kept
  <2> QED BY <1>1, <1>2, <2>1, <2>2, <2>3 DEF ListInv, Stored1
<1>4. CASE ~ReadIndex(f)
  <2>1. s \in mem[f].read /\ (at'[f] = at[f] \/ (at'[f] = "delIndex" /\ DropAll(f)))
    BY <1>1, <1>4 DEF Goes
  <2>2. at[f] \in {"delKeys", "delIndex"}
    BY <2>1 DEF DropAll, Step
  <2>3. at[s] \in Past /\ s \in Flows
    BY <1>2, <2>1, <2>2 DEF ListInv, HasRead, Memory
  <2>4. CASE at'[f] = at[f]
    BY <1>1, <2>1, <2>2, <2>3, <2>4, SessionsFall DEF ListInv, HasRead
  <2>5. CASE DropAll(f)
    BY <1>1, <2>1, <2>3, <2>5 DEF DropAll
  <2> QED BY <2>1, <2>4, <2>5
<1> QED BY <1>3, <1>4

LEMMA ListedStep ==
    ASSUME TypeInv, [Next]_vars, ListInv
    PROVE  Listed'
<1> SUFFICES ASSUME NEW s \in Flows, Token(s), at'[s] \in {"pexpire", "verified?", "done"}
             PROVE  Gone(s)' \/ s \in index'[Own(s)]
  BY AllGo DEF Listed, Token, Op, Own
<1>1. /\ Goes(s) /\ Own(s) \in Users /\ index \in [Users -> SUBSET Flows]
      /\ at \in [Flows -> Points] /\ kind' = kind
  BY AllGo, KindTyped DEF TypeInv, TypeOK
<1>2. CASE IndexSession(s)
  BY <1>1, <1>2 DEF IndexSession
<1>3. CASE ~IndexSession(s)
  <2>1. at[s] \in {"pexpire", "verified?", "done"}
    BY <1>1, <1>3 DEF Goes, RefreshIndex, Step
  <2>2. Gone(s) => Gone(s)'
    BY <2>1, GoneStays DEF Past, Ended
  <2>3. CASE s \in index[Own(s)]
    <3>1. ASSUME NEW g \in Flows, IndexSession(g) \/ RefreshIndex(g) PROVE s \in index'[Own(s)]
      BY <1>1, <2>3, <3>1 DEF IndexSession, RefreshIndex
    <3>2. ASSUME NEW g \in Flows, Unindex(g) PROVE Gone(s)' \/ s \in index'[Own(s)]
      <4>1. CASE As(g) = s
        <5>1. Op(g) = "logout" /\ at'[g] = "del"
          BY <1>1, <3>2 DEF Unindex, Step, TypeInv, PlaceInv, Placed
        <5> QED BY <1>1, <4>1, <5>1 DEF Gone, HalfOut, Op, As
      <4>2. CASE As(g) # s
        BY <1>1, <2>3, <3>2, <4>2 DEF Unindex, Without
      <4> QED BY <4>1, <4>2
    <3>3. ASSUME NEW g \in Flows, DropIndex(g) PROVE Gone(s)' \/ s \in index'[Own(s)]
      <4>1. CASE Own(g) # Own(s)
        BY <1>1, <2>3, <3>3, <4>1 DEF DropIndex, Without
      <4>2. CASE Own(g) = Own(s) /\ s \in mem[g].read
        <5>1. session[s] = 0 /\ session' = session
          BY <3>3, <4>2 DEF DropIndex, Step, ListInv, HasRead
        <5> QED BY <5>1 DEF Gone
      <4>3. CASE Own(g) = Own(s) /\ s \notin mem[g].read
        <5>1. s \in seen'.missed
          BY <2>3, <3>3, <4>3 DEF DropIndex, TypeInv, TypeOK, History
        <5> QED BY <5>1 DEF Gone
      <4> QED BY <4>1, <4>2, <4>3
    <3>4. CASE Tick
      <4>1. CASE indexLeft'[Own(s)] # 0
        BY <1>1, <2>3, <3>4, <4>1 DEF Tick
      <4>2. CASE indexLeft'[Own(s)] = 0 /\ at[s] = "pexpire"
        <5>1. index'[Own(s)] = {}
          BY <1>1, <3>4, <4>2 DEF Tick
        <5>2. s \in seen'.missed
          BY <3>4, <4>2, <5>1, <1>1 DEF Tick, TypeInv, TypeOK, History, Own
        <5> QED BY <5>2 DEF Gone
      <4>3. CASE indexLeft'[Own(s)] = 0 /\ at[s] # "pexpire"
        <5>1. /\ session[s] \in 0 .. SessionTtl /\ indexLeft[Own(s)] \in 0 .. Forever
              /\ SessionTtl \in Nat \ {0}
          BY <1>1, AccessAssumption DEF TypeInv, TypeOK
        <5>2. session[s] <= indexLeft[Own(s)]
          BY <2>1, <2>3, <4>3 DEF ListInv, ListLives
        <5>3. session'[s] = Age(session[s]) /\ indexLeft'[Own(s)] = Age(indexLeft[Own(s)])
          BY <1>1, <3>4 DEF Tick, TypeInv, TypeOK
        <5>4. session'[s] = 0
          BY <4>3, <5>1, <5>2, <5>3 DEF Age, Forever
        <5> QED BY <5>4 DEF Gone
      <4> QED BY <4>1, <4>2, <4>3
    <3> QED BY <2>3, <3>1, <3>2, <3>3, <3>4, Lists
  <2> QED BY <2>1, <2>2, <2>3 DEF ListInv, Listed
<1> QED BY <1>2, <1>3

LEMMA LivesStep ==
    ASSUME TypeInv, TypeInv', [Next]_vars, ListInv
    PROVE  ListLives'
<1> SUFFICES ASSUME NEW s \in Flows, Token(s), at'[s] \in {"verified?", "done"}, s \in index'[Own(s)]
             PROVE  session'[s] <= indexLeft'[Own(s)]
  BY AllGo DEF ListLives, Token, Op, Own
<1>1. /\ Goes(s) /\ Own(s) \in Users /\ index \in [Users -> SUBSET Flows]
      /\ at \in [Flows -> Points] /\ indexLeft \in [Users -> 0 .. Forever]
      /\ session[s] \in 0 .. SessionTtl /\ session'[s] \in 0 .. SessionTtl
      /\ SessionTtl \in Nat \ {0}
  BY AllGo, KindTyped, AccessAssumption DEF TypeInv, TypeOK
<1>2. CASE \E g \in Flows : RefreshIndex(g) /\ Own(g) = Own(s)
  BY <1>1, <1>2 DEF RefreshIndex, NewIndexLife
<1>3. CASE ~\E g \in Flows : RefreshIndex(g) /\ Own(g) = Own(s)
  <2>1. at[s] \in {"verified?", "done"}
    BY <1>1, <1>3 DEF Goes
  <2>2. session'[s] <= session[s]
    BY <2>1, SessionsFall DEF Past, Ended
  <2>3. s \in index[Own(s)]
    <3>1. ASSUME NEW g \in Flows, IndexSession(g) PROVE s \in index[Own(s)]
      BY <1>1, <2>1, <3>1 DEF IndexSession, Step
    <3>2. ASSUME NEW g \in Flows, RefreshIndex(g) \/ Unindex(g) \/ DropIndex(g) PROVE s \in index[Own(s)]
      BY <1>1, <3>2 DEF RefreshIndex, Unindex, DropIndex, Without
    <3>3. Tick => s \in index[Own(s)]
      BY <1>1 DEF Tick
    <3> QED BY <3>1, <3>2, <3>3, Lists
  <2>4. session[s] <= indexLeft[Own(s)]
    BY <2>1, <2>3 DEF ListInv, ListLives
  <2>5. CASE indexLeft'[Own(s)] = indexLeft[Own(s)]
    BY <1>1, <2>2, <2>4, <2>5 DEF Forever
  <2>6. ASSUME NEW g \in Flows, IndexSession(g) \/ RefreshIndex(g) \/ Unindex(g) \/ DropIndex(g)
        PROVE  indexLeft'[Own(s)] = indexLeft[Own(s)]
    <3>1. CASE IndexSession(g) \/ Unindex(g)
      BY <1>1, <2>3, <3>1 DEF IndexSession, Unindex
    <3>2. CASE RefreshIndex(g) \/ DropIndex(g)
      BY <1>1, <1>3, <3>2 DEF RefreshIndex, DropIndex, Without
    <3> QED BY <2>6, <3>1, <3>2
  <2>7. CASE Tick
    <3>1. session'[s] = Age(session[s]) /\ indexLeft'[Own(s)] = Age(indexLeft[Own(s)])
      BY <1>1, <2>7 DEF Tick, TypeInv, TypeOK
    <3> QED BY <1>1, <2>4, <3>1 DEF Age, Forever
  <2> QED BY <2>5, <2>6, <2>7, Lists
<1> QED BY <1>2, <1>3

LEMMA OwesStep ==
    ASSUME TypeInv, [Next]_vars, ListInv
    PROVE  Owes'
<1> SUFFICES ASSUME NEW f \in Flows, Op(f) = "logoutAll", NEW s \in mem'[f].due
             PROVE  /\ Token(s) /\ at'[s] = "done" /\ Own(s) = Own(f)
                    /\ at'[f] = "delKeys" => s \in mem'[f].read \/ Gone(s)'
                    /\ at'[f] \in {"delIndex", "done"} => Gone(s)'
  BY AllGo DEF Owes, Token, Op, Own
<1>1. /\ Goes(f) /\ kind' = kind /\ mem \in [Flows -> Memory] /\ at \in [Flows -> Points]
      /\ index \in [Users -> SUBSET Flows] /\ mem[f] \in Memory
  BY AllGo DEF TypeInv, TypeOK
<1>2. CASE Press(f, Ops)
  <2> DEFINE m == [Blank EXCEPT !.then = "find", !.due = HandedOut(Own(f))]
  <2>1. m.due = HandedOut(Own(f)) /\ m \in Memory
    BY DEF Blank, Memory, HandedOut
  <2>2. Keep(f, m) /\ at[f] = "idle" /\ at'[f] = "members"
    BY <1>1, <1>2 DEF Press, Step, Entry
  <2> HIDE DEF m
  <2>3. s \in HandedOut(Own(f))
    BY <1>1, <2>1, <2>2, Kept
  <2>4. s \in Flows /\ Token(s) /\ at[s] = "done" /\ Own(s) = Own(f)
    BY <2>3 DEF HandedOut, Token
  <2> QED BY <2>2, <2>4, AllGo DEF Goes
<1>3. CASE ~Press(f, Ops)
  <2>1. s \in mem[f].due /\ s \in Flows
    BY <1>1, <1>3 DEF Goes, Memory
  <2>2. /\ Token(s) /\ at[s] = "done" /\ Own(s) = Own(f)
        /\ at[f] = "delKeys" => s \in mem[f].read \/ Gone(s)
        /\ at[f] \in {"delIndex", "done"} => Gone(s)
    BY <2>1 DEF ListInv, Owes
  <2>3. at'[s] = "done"
    BY <2>1, <2>2, AllGo DEF Goes
  <2>4. Gone(s) => Gone(s)'
    BY <2>1, <2>2, GoneStays DEF Past, Ended
  <2>5. at'[f] = "delKeys" => s \in mem'[f].read \/ Gone(s)'
    <3>1. CASE ReadIndex(f)
      <4> DEFINE m == [mem[f] EXCEPT !.read = index[Own(f)]]
      <4>1. m.read = index[Own(f)] /\ m \in Memory
        BY <1>1, KindTyped DEF Memory, TypeInv
      <4>2. Keep(f, m)
        BY <3>1 DEF ReadIndex
      <4> HIDE DEF m
      <4>3. mem'[f].read = index[Own(f)]
        BY <1>1, <4>1, <4>2, Kept
      <4>4. Gone(s) \/ s \in index[Own(s)]
        BY <2>1, <2>2 DEF ListInv, Listed
      <4> QED BY <2>2, <2>4, <4>3, <4>4
    <3>2. CASE ~ReadIndex(f)
      BY <1>1, <2>2, <2>4, <3>2 DEF Goes
    <3> QED BY <3>1, <3>2
  <2>6. at'[f] = "delIndex" => Gone(s)'
    <3>1. CASE DropAll(f)
      <4>1. s \in mem[f].read => session'[s] = 0
        BY <2>1, <3>1 DEF DropAll
      <4>2. at[f] = "delKeys"
        BY <3>1 DEF DropAll, Step
      <4> QED BY <2>2, <2>4, <4>1, <4>2 DEF Gone
    <3>2. CASE ~DropAll(f)
      BY <1>1, <2>2, <2>4, <3>2 DEF Goes
    <3> QED BY <3>1, <3>2
  <2>7. at'[f] = "done" => Gone(s)'
    BY <1>1, <2>2, <2>4 DEF Goes, DropIndex, Step
  <2> QED BY <2>2, <2>3, <2>5, <2>6, <2>7
<1> QED BY <1>2, <1>3

(* When a log-out of all devices has ended, no session handed out before   *)
(* it began lives, but for the exceptions AllMeansAll names: for any       *)
(* number of sessions, log-outs, users and failures.                       *)
THEOREM AllAlwaysMeansAll == Spec => []AllMeansAll
<1>1. TypeInv /\ TypeInv' /\ ListInv /\ [Next]_vars => ListInv'
  BY StoredStep, HasReadStep, ListedStep, LivesStep, OwesStep DEF ListInv
<1>2. ListInv => AllMeansAll
  BY DEF ListInv, Owes, AllMeansAll, Gone, HalfOut
<1> QED BY <1>1, <1>2, InitTyped, TypeStep, ListInit, PTL DEF Spec

=============================================================================
