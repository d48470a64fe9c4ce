---------------------------- MODULE ClientProofs ----------------------------
(***************************************************************************)
(* Theorems about the web client, for every number of tabs, mails, folders *)
(* and presses: the mail pages in any scenario, the settings pages on any  *)
(* course.  Presses, folders and settings have an invariant each.          *)
(***************************************************************************)
EXTENDS MCMailClient, FiniteSetTheorems, TLAPS

CallFields == {"n", "tab", "op", "of", "to", "st", "was", "previous", "thread", "goes"}
Pages == [box : System, mail : Mails \cup {None}, search : BOOLEAN, url : BOOLEAN]
IsList(x) == DOMAIN x = {"names", "temps", "error"}
OnFolders == {"create", "drop"}

(* A call as it starts.                                                     *)
LEMMA CallStarts ==
    ASSUME NEW t, NEW op, NEW x, NEW y
    PROVE  /\ DOMAIN Call(t, op, x, y) = CallFields
           /\ Call(t, op, x, y).op = op /\ Call(t, op, x, y).of = x /\ Call(t, op, x, y).to = y
           /\ Call(t, op, x, y).st = "sent" /\ Call(t, op, x, y).tab = t
           /\ Call(t, op, x, y).previous = None
BY DEF Call, CallFields

-----------------------------------------------------------------------------
(* The calls that may still bring a mail nearer to its end: a DELETE, a     *)
(* move to the trash, until it is written.                                  *)
Blow(c, m) == /\ c.of = m /\ c.st \in {"sent", "looked"}
              /\ c.op = "delete" \/ (c.op = "move" /\ c.to = "trash")
Blows(m) == {c \in calls : Blow(c, m)}
Lethal(c, m) == c.of = m /\ c.op = "delete" /\ c.st = "looked" /\ c.was = "trash"

(* Each of them was meant; so was, besides, what brought the mail to the    *)
(* trash; and a DELETE that found it there destroys what was meant twice.   *)
PressInv ==
    /\ DOMAIN place = Mails /\ meant \in [Mails -> Nat]
    /\ \A c \in calls : DOMAIN c = CallFields /\ (c.op = "move" => c.to \in System \cup Folders)
    /\ \A m \in Mails :
          /\ IsFiniteSet(Blows(m))
          /\ Cardinality(Blows(m)) <= meant[m]
          /\ place[m] = "trash" => Cardinality(Blows(m)) < meant[m]
          /\ place[m] = "destroyed" => meant[m] >= 2
          /\ \A c \in calls : Lethal(c, m) => meant[m] >= 2

-----------------------------------------------------------------------------
LEMMA PressBegins == Init => PressInv
<1> SUFFICES ASSUME Init PROVE PressInv
  OBVIOUS
<1>1. PICK s \in Scenarios : place = s.place
  BY DEF Init
<1>2. calls = {} /\ meant = [m \in Mails |-> IF place[m] = "trash" THEN 1 ELSE 0]
  BY DEF Init
<1>3. place \in [Mails -> System \cup Folders \cup {"cascaded"}]
  BY <1>1, MailClientAssumption
<1>4. \A m \in Mails : place[m] # "destroyed"
  BY <1>3, MailClientAssumption DEF System, Nowhere
<1>5. \A m \in Mails : Blows(m) = {}
  BY <1>2 DEF Blows
<1>6. IsFiniteSet({}) /\ Cardinality({}) = 0
  BY FS_EmptySet
<1> QED BY <1>2, <1>3, <1>4, <1>5, <1>6 DEF PressInv

(* What is made of a finite set one by one has no more members.             *)
LEMMA MadeOf ==
    ASSUME NEW A, IsFiniteSet(A), NEW f, NEW B, \A d \in B : \E c \in A : d = f[c]
    PROVE  IsFiniteSet(B) /\ Cardinality(B) <= Cardinality(A)
<1> DEFINE R == {c \in A : f[c] \in B}
           g == [c \in R |-> f[c]]
<1>1. IsFiniteSet(R) /\ Cardinality(R) <= Cardinality(A)
  BY FS_Subset
<1>2. g \in Surjection(R, B)
  BY DEF Surjection
<1>3. IsFiniteSet(B) /\ Cardinality(B) <= Cardinality(R)
  BY <1>1, <1>2, FS_Surjection
<1>4. Cardinality(B) \in Nat /\ Cardinality(R) \in Nat /\ Cardinality(A) \in Nat
  BY <1>1, <1>3, FS_CardinalityType
<1> QED BY <1>1, <1>3, <1>4

Alike(d, c) == /\ DOMAIN d = CallFields /\ d.of = c.of /\ d.op = c.op
               /\ d.to = c.to /\ d.st = c.st /\ d.was = c.was

(* Calls that go on as they were, or are dropped, bring no mail nearer.     *)
LEMMA CallsGoOn ==
    ASSUME PressInv, UNCHANGED <<place, meant>>, NEW f,
           \A d \in calls' : \E c \in calls : d = f[c] /\ Alike(d, c)
    PROVE  PressInv'
<1>1. /\ DOMAIN place' = Mails /\ meant' \in [Mails -> Nat]
      /\ \A d \in calls' : DOMAIN d = CallFields /\ (d.op = "move" => d.to \in System \cup Folders)
  BY DEF PressInv, Alike
<1>2. ASSUME NEW m \in Mails
      PROVE  /\ IsFiniteSet(Blows(m)') /\ Cardinality(Blows(m)') <= Cardinality(Blows(m))
             /\ Cardinality(Blows(m)') \in Nat /\ Cardinality(Blows(m)) \in Nat
  <2>1. \A d \in Blows(m)' : \E c \in Blows(m) : d = f[c]
    BY DEF Blows, Blow, Alike
  <2>2. IsFiniteSet(Blows(m))
    BY DEF PressInv
  <2>3. IsFiniteSet(Blows(m)') /\ Cardinality(Blows(m)') <= Cardinality(Blows(m))
    BY <2>1, <2>2, MadeOf
  <2> QED BY <2>2, <2>3, FS_CardinalityType
<1>3. ASSUME NEW m \in Mails
      PROVE  /\ Cardinality(Blows(m)') <= meant'[m]
             /\ place'[m] = "trash" => Cardinality(Blows(m)') < meant'[m]
             /\ place'[m] = "destroyed" => meant'[m] >= 2
  BY <1>2 DEF PressInv
<1>4. \A m \in Mails, d \in calls' : Lethal(d, m) => meant'[m] >= 2
  BY DEF PressInv, Lethal, Alike
<1> QED BY <1>1, <1>2, <1>3, <1>4 DEF PressInv

LEMMA OrphansGoOn ==
    ASSUME PressInv, UNCHANGED <<place, meant>>, NEW t, NEW K \in SUBSET calls,
           calls' = Orphaned(t, K)
    PROVE  PressInv'
<1> DEFINE f == [c \in calls |-> IF c.tab = t THEN [c EXCEPT !.tab = None] ELSE c]
<1>1. \A c \in calls : Alike(f[c], c)
  BY DEF PressInv, Alike, CallFields
<1>2. calls' = {f[c] : c \in K}
  BY DEF Orphaned
<1> HIDE DEF f
<1> QED BY <1>1, <1>2, CallsGoOn

(* New calls bring those mails nearer that the press meant, by one each.    *)
LEMMA PressMeans ==
    ASSUME PressInv, UNCHANGED place, NEW new, Sends(new), NEW ms,
           meant' = [m \in Mails |-> IF m \in ms THEN meant[m] + 1 ELSE meant[m]],
           \A d \in new : /\ DOMAIN d = CallFields /\ d.st = "sent"
                          /\ d.op = "move" => d.to \in System \cup Folders,
           \A m \in Mails : \E x : \A d \in new : Blow(d, m) => m \in ms /\ d = x
    PROVE  PressInv'
<1> DEFINE f == [c \in calls |->
                   [c EXCEPT !.goes = @ /\ ~\E d \in new : d.tab = c.tab /\ d.op = c.op]]
           old(m) == {f[c] : c \in Blows(m)}
<1>1. \A c \in calls : Alike(f[c], c)
  BY DEF PressInv, Alike, CallFields
<1>2. calls' = {f[c] : c \in calls} \cup new
  BY DEF Sends
<1> HIDE DEF f
<1>3. \A d \in calls' : DOMAIN d = CallFields /\ (d.op = "move" => d.to \in System \cup Folders)
  BY <1>1, <1>2 DEF PressInv, Alike
<1>4. ASSUME NEW m \in Mails
      PROVE  /\ IsFiniteSet(Blows(m)') /\ Cardinality(Blows(m)') \in Nat
             /\ Cardinality(Blows(m)) \in Nat
             /\ Cardinality(Blows(m)') <= Cardinality(Blows(m)) + (IF m \in ms THEN 1 ELSE 0)
  <2>1. IsFiniteSet(Blows(m)) /\ Cardinality(Blows(m)) \in Nat
    BY FS_CardinalityType DEF PressInv
  <2>2. /\ IsFiniteSet(old(m)) /\ Cardinality(old(m)) <= Cardinality(Blows(m))
        /\ Cardinality(old(m)) \in Nat
    <3>1. \A d \in old(m) : \E c \in Blows(m) : d = f[c]
      OBVIOUS
    <3> HIDE DEF old
    <3>2. IsFiniteSet(old(m)) /\ Cardinality(old(m)) <= Cardinality(Blows(m))
      BY <2>1, <3>1, MadeOf
    <3> QED BY <3>2, FS_CardinalityType
  <2>3. PICK x : \A d \in new : Blow(d, m) => m \in ms /\ d = x
    OBVIOUS
  <2>4. Blows(m)' \subseteq old(m) \cup (IF m \in ms THEN {x} ELSE {})
    BY <1>1, <1>2, <2>3 DEF Blows, Blow, Alike
  <2> HIDE DEF old
  <2>5. /\ IsFiniteSet(old(m) \cup {x})
        /\ Cardinality(old(m) \cup {x}) <= Cardinality(old(m)) + 1
        /\ Cardinality(old(m) \cup {x}) \in Nat
    <3>1. /\ IsFiniteSet(old(m) \cup {x})
          /\ Cardinality(old(m) \cup {x}) =
               IF x \in old(m) THEN Cardinality(old(m)) ELSE Cardinality(old(m)) + 1
      BY <2>2, FS_AddElement
    <3> QED BY <2>2, <3>1
  <2>6. CASE m \in ms
    <3>1. /\ IsFiniteSet(Blows(m)') /\ Cardinality(Blows(m)') <= Cardinality(old(m) \cup {x})
      BY <2>4, <2>5, <2>6, FS_Subset
    <3>2. Cardinality(Blows(m)') \in Nat
      BY <3>1, FS_CardinalityType
    <3> QED BY <2>1, <2>2, <2>5, <2>6, <3>1, <3>2
  <2>7. CASE m \notin ms
    <3>1. /\ IsFiniteSet(Blows(m)') /\ Cardinality(Blows(m)') <= Cardinality(old(m))
      BY <2>2, <2>4, <2>7, FS_Subset
    <3>2. Cardinality(Blows(m)') \in Nat
      BY <3>1, FS_CardinalityType
    <3> QED BY <2>1, <2>2, <2>7, <3>1, <3>2
  <2> QED BY <2>6, <2>7
<1>5. \A m \in Mails : meant[m] \in Nat /\ meant'[m] = meant[m] + (IF m \in ms THEN 1 ELSE 0)
  BY DEF PressInv
<1>6. ASSUME NEW m \in Mails
      PROVE  /\ Cardinality(Blows(m)') <= meant'[m]
             /\ place'[m] = "trash" => Cardinality(Blows(m)') < meant'[m]
             /\ place'[m] = "destroyed" => meant'[m] >= 2
  <2>1. CASE m \in ms
    BY <1>4, <1>5, <2>1 DEF PressInv
  <2>2. CASE m \notin ms
    BY <1>4, <1>5, <2>2 DEF PressInv
  <2> QED BY <2>1, <2>2
<1>7. ASSUME NEW m \in Mails, NEW d \in calls', Lethal(d, m) PROVE meant'[m] >= 2
  <2>1. PICK c \in calls : d = f[c]
    BY <1>2, <1>7 DEF Lethal
  <2>2. Lethal(c, m)
    BY <1>1, <1>7, <2>1 DEF Lethal, Alike
  <2> QED BY <1>5, <2>2 DEF PressInv
<1>8. DOMAIN place' = Mails /\ meant' \in [Mails -> Nat]
  BY DEF PressInv
<1> QED BY <1>3, <1>4, <1>6, <1>7, <1>8 DEF PressInv

(* The presses: each means what its calls do.                               *)
LEMMA HarmlessCalls ==
    ASSUME PressInv, UNCHANGED <<place, meant>>, NEW new, Sends(new),
           \A d \in new : /\ DOMAIN d = CallFields /\ d.st = "sent"
                          /\ d.op \notin {"move", "delete"}
    PROVE  PressInv'
<1> DEFINE none == {}
<1>1. meant' = [m \in Mails |-> IF m \in none THEN meant[m] + 1 ELSE meant[m]]
  BY DEF PressInv
<1>2. \A m \in Mails : \E x : \A d \in new : Blow(d, m) => m \in none /\ d = x
  BY DEF Blow
<1>3. \A d \in new : DOMAIN d = CallFields /\ d.st = "sent"
                     /\ (d.op = "move" => d.to \in System \cup Folders)
  OBVIOUS
<1> HIDE DEF none
<1> QED BY <1>1, <1>2, <1>3, PressMeans

LEMMA FlagsPressed ==
    ASSUME PressInv, NEW t, NEW op \in {"seen", "unseen"}, NEW ms,
           UpdateFlags(t, op, ms), UNCHANGED <<place, meant>>
    PROVE  PressInv'
<1> DEFINE new == {Call(t, op, m, None) : m \in ms}
<1>1. \A d \in new : DOMAIN d = CallFields /\ d.st = "sent" /\ d.op \notin {"move", "delete"}
  BY CallStarts
<1>2. Sends(new)
  BY DEF UpdateFlags
<1> HIDE DEF new
<1> QED BY <1>1, <1>2, HarmlessCalls

LEMMA DeletePressed ==
    ASSUME PressInv, NEW t, NEW ms, DeleteMessage(t, ms), UNCHANGED place
    PROVE  PressInv'
<1> DEFINE new == {Call(t, "delete", m, None) : m \in ms}
<1>1. \A d \in new : DOMAIN d = CallFields /\ d.st = "sent" /\ d.op = "delete"
  BY CallStarts
<1>2. Sends(new) /\ meant' = [m \in Mails |-> IF m \in ms THEN meant[m] + 1 ELSE meant[m]]
  BY DEF DeleteMessage, Means
<1>3. ASSUME NEW m \in Mails, NEW d \in new, Blow(d, m)
      PROVE  m \in ms /\ d = Call(t, "delete", m, None)
  <2>1. PICK x \in ms : d = Call(t, "delete", x, None)
    OBVIOUS
  <2>2. x = m
    BY <1>3, <2>1, CallStarts DEF Blow
  <2> QED BY <2>1, <2>2
<1> HIDE DEF new
<1>4. \A m \in Mails : \E x : \A d \in new : Blow(d, m) => m \in ms /\ d = x
  <2> SUFFICES ASSUME NEW m \in Mails
               PROVE  \E x : \A d \in new : Blow(d, m) => m \in ms /\ d = x
    OBVIOUS
  <2> WITNESS Call(t, "delete", m, None)
  <2> QED BY <1>3
<1>5. \A d \in new : DOMAIN d = CallFields /\ d.st = "sent"
                     /\ (d.op = "move" => d.to \in System \cup Folders)
  BY <1>1
<1> QED BY <1>2, <1>4, <1>5, PressMeans

LEMMA MovePressed ==
    ASSUME PressInv, NEW t, NEW m, NEW b \in System \cup Folders,
           MoveMessage(t, m, b), UNCHANGED place
    PROVE  PressInv'
<1> DEFINE d == Call(t, "move", m, b)
           new == {d}
           ms == IF b = "trash" THEN {m} ELSE {}
<1>1. /\ DOMAIN d = CallFields /\ d.st = "sent" /\ d.op = "move" /\ d.of = m /\ d.to = b
  BY CallStarts
<1>2. Sends(new) /\ meant' = [x \in Mails |-> IF x \in ms THEN meant[x] + 1 ELSE meant[x]]
  BY DEF MoveMessage, Means, PressInv
<1> HIDE DEF d
<1>3. \A x \in Mails : \A c \in new : Blow(c, x) => x \in ms /\ c = d
  BY <1>1 DEF Blow
<1>4. \A x \in Mails : \E y : \A c \in new : Blow(c, x) => x \in ms /\ c = y
  BY <1>3
<1>5. \A c \in new : DOMAIN c = CallFields /\ c.st = "sent"
                     /\ (c.op = "move" => c.to \in System \cup Folders)
  BY <1>1
<1> HIDE DEF new, ms
<1> QED BY <1>2, <1>4, <1>5, PressMeans

LEMMA FolderPressed ==
    ASSUME PressInv, UNCHANGED <<place, meant>>, NEW t, NEW op \in OnFolders, NEW f, NEW b,
           Optimistic(t, Call(t, op, f, None), b)
    PROVE  PressInv'
<1> DEFINE d == [Call(t, op, f, None) EXCEPT !.previous = data[t]["boxes"]]
<1>1. DOMAIN d = CallFields /\ d.st = "sent" /\ d.op = op
  BY CallStarts DEF CallFields
<1>2. Sends({d})
  BY DEF Optimistic
<1> HIDE DEF d
<1> QED BY <1>1, <1>2, HarmlessCalls DEF OnFolders

-----------------------------------------------------------------------------
(* A DELETE that finds its mail in the trash was meant, and so was what     *)
(* brought it there.                                                        *)
LEMMA LookKeepsPress ==
    ASSUME PressInv, NEW c \in calls, Look(c)
    PROVE  PressInv'
<1> DEFINE d == IF Refused(c) THEN [c EXCEPT !.st = "refused"]
                ELSE [c EXCEPT !.st = "looked", !.was = IF c.of \in Mails THEN place[c.of] ELSE None]
<1>1. /\ calls' = (calls \ {c}) \cup {d} /\ c.st = "sent" /\ UNCHANGED <<place, meant>>
  BY DEF Look, Becomes, server
<1>2. /\ DOMAIN d = CallFields /\ d.of = c.of /\ d.op = c.op /\ d.to = c.to
      /\ d.st \in {"refused", "looked"}
      /\ d.st = "looked" /\ c.of \in Mails => d.was = place[c.of]
  <2>1. DOMAIN c = CallFields
    BY DEF PressInv
  <2>2. CASE Refused(c)
    BY <2>1, <2>2 DEF CallFields
  <2>3. CASE ~Refused(c)
    BY <2>1, <2>3 DEF CallFields
  <2> QED BY <2>2, <2>3
<1> HIDE DEF d
<1>3. /\ DOMAIN place' = Mails /\ meant' \in [Mails -> Nat]
      /\ \A x \in calls' : DOMAIN x = CallFields /\ (x.op = "move" => x.to \in System \cup Folders)
  BY <1>1, <1>2 DEF PressInv
<1>4. ASSUME NEW m \in Mails
      PROVE  /\ IsFiniteSet(Blows(m)') /\ Cardinality(Blows(m)') <= Cardinality(Blows(m))
             /\ Cardinality(Blows(m)') \in Nat /\ Cardinality(Blows(m)) \in Nat
  <2> DEFINE f == [x \in Blows(m) |-> IF x = c THEN d ELSE x]
  <2>1. \A y \in Blows(m)' : \E x \in Blows(m) : y = f[x]
    BY <1>1, <1>2 DEF Blows, Blow
  <2>2. IsFiniteSet(Blows(m))
    BY DEF PressInv
  <2> HIDE DEF f
  <2>3. IsFiniteSet(Blows(m)') /\ Cardinality(Blows(m)') <= Cardinality(Blows(m))
    BY <2>1, <2>2, MadeOf
  <2> QED BY <2>2, <2>3, FS_CardinalityType
<1>5. ASSUME NEW m \in Mails
      PROVE  /\ Cardinality(Blows(m)') <= meant'[m]
             /\ place'[m] = "trash" => Cardinality(Blows(m)') < meant'[m]
             /\ place'[m] = "destroyed" => meant'[m] >= 2
  BY <1>1, <1>4 DEF PressInv
<1>6. ASSUME NEW m \in Mails, NEW x \in calls', Lethal(x, m)
      PROVE  meant'[m] >= 2
  <2>1. CASE x \in calls
    BY <1>1, <1>6, <2>1 DEF PressInv
  <2>2. CASE x = d
    <3>1. c \in Blows(m) /\ place[m] = "trash"
      BY <1>1, <1>2, <1>6, <2>2 DEF Lethal, Blows, Blow
    <3>2. Cardinality(Blows(m)) \in Nat /\ Cardinality(Blows(m)) # 0
      BY <3>1, FS_CardinalityType, FS_EmptySet DEF PressInv
    <3> QED BY <1>1, <3>1, <3>2 DEF PressInv
  <2> QED BY <1>1, <2>1, <2>2
<1> QED BY <1>3, <1>4, <1>5, <1>6 DEF PressInv

LEMMA WriteKeepsPress ==
    ASSUME PressInv, NEW c \in calls, Write(c)
    PROVE  PressInv'
<1>0. PICK fails : Becomes(c, [c EXCEPT !.st = IF fails THEN "refused" ELSE "done"])
  BY DEF Write
<1> DEFINE d == [c EXCEPT !.st = IF fails THEN "refused" ELSE "done"]
<1>1. calls' = (calls \ {c}) \cup {d} /\ c.st = "looked" /\ UNCHANGED meant
  BY <1>0 DEF Write, Becomes
<1>2. DOMAIN d = CallFields /\ d.of = c.of /\ d.op = c.op /\ d.to = c.to /\ d.st \in {"refused", "done"}
  BY DEF PressInv, CallFields
<1> HIDE DEF d
<1>3. /\ DOMAIN place' = Mails /\ meant' \in [Mails -> Nat]
      /\ \A x \in calls' : DOMAIN x = CallFields /\ (x.op = "move" => x.to \in System \cup Folders)
  <2>1. DOMAIN place' = Mails
    BY DEF Write, server, WritesDelete, WritesMove, WritesCreate, WritesDrop, WritesFlags, Put, PressInv
  <2> QED BY <1>1, <1>2, <2>1 DEF PressInv
<1>4. ASSUME NEW m \in Mails
      PROVE  \/ place'[m] \in {place[m], "cascaded"}
             \/ place'[m] = "trash" /\ c \in Blows(m)
             \/ place'[m] = "destroyed" /\ Lethal(c, m)
             \/ place'[m] \in (System \cup Folders) \ {"trash"}
  <2>1. CASE UNCHANGED place
    BY <2>1
  <2>2. CASE c.op = "delete" /\ WritesDelete(c)
    BY <1>1, <2>2 DEF WritesDelete, Put, PressInv, Blows, Blow, Lethal
  <2>3. CASE c.op = "move" /\ WritesMove(c)
    BY <1>1, <2>3 DEF WritesMove, Put, PressInv, Blows, Blow
  <2>4. CASE WritesDrop(c)
    BY <2>4 DEF WritesDrop, PressInv
  <2> QED BY <2>1, <2>2, <2>3, <2>4 DEF Write, server, WritesFlags, WritesCreate
<1>5. ASSUME NEW m \in Mails
      PROVE  /\ IsFiniteSet(Blows(m)') /\ Cardinality(Blows(m)) \in Nat
             /\ Cardinality(Blows(m)') =
                  IF c \in Blows(m) THEN Cardinality(Blows(m)) - 1 ELSE Cardinality(Blows(m))
  <2>1. Blows(m)' = Blows(m) \ {c}
    BY <1>1, <1>2 DEF Blows, Blow
  <2>2. IsFiniteSet(Blows(m))
    BY DEF PressInv
  <2> QED BY <2>1, <2>2, FS_RemoveElement, FS_CardinalityType
<1>6. ASSUME NEW m \in Mails
      PROVE  /\ Cardinality(Blows(m)') <= meant'[m]
             /\ place'[m] = "trash" => Cardinality(Blows(m)') < meant'[m]
             /\ place'[m] = "destroyed" => meant'[m] >= 2
  <2>1. meant[m] \in Nat /\ meant'[m] = meant[m]
    BY <1>1 DEF PressInv
  <2>2. "destroyed" \notin System \cup Folders /\ "cascaded" \notin {"trash", "destroyed"}
    BY MailClientAssumption DEF System, Nowhere
  <2> QED BY <1>4, <1>5, <2>1, <2>2 DEF PressInv
<1>7. \A m \in Mails, x \in calls' : Lethal(x, m) => meant'[m] >= 2
  BY <1>1, <1>2 DEF PressInv, Lethal
<1> QED BY <1>3, <1>5, <1>6, <1>7 DEF PressInv

LEMMA AnswerKeepsPress ==
    ASSUME PressInv, NEW c \in calls, Reply(c) \/ Lose(c)
    PROVE  PressInv'
<1>0. UNCHANGED <<place, meant>>
  BY DEF Reply, Lose, server
<1>1. CASE Reply(c)
  <2>1. calls' = Orphaned(c.tab, calls \ {c}) \/ calls' = calls \ {c}
    BY <1>1 DEF Reply, Without
  <2>2. CASE calls' = Orphaned(c.tab, calls \ {c})
    BY <1>0, <2>2, OrphansGoOn
  <2>3. CASE calls' = calls \ {c}
    <3> DEFINE f == [x \in calls |-> x]
    <3>1. \A x \in calls' : x \in calls /\ x = f[x] /\ Alike(x, x)
      BY <2>3 DEF PressInv, Alike
    <3> HIDE DEF f
    <3> QED BY <1>0, <3>1, CallsGoOn
  <2> QED BY <2>1, <2>2, <2>3
<1>2. CASE Lose(c)
  <2> DEFINE d == [c EXCEPT !.tab = None]
             f == [x \in calls |-> IF x = c THEN d ELSE x]
  <2>1. calls' \subseteq (calls \ {c}) \cup {d}
    BY <1>2 DEF Lose, AfterLoss
  <2>2. Alike(d, c) /\ \A x \in calls : Alike(x, x)
    BY DEF PressInv, Alike, CallFields
  <2> HIDE DEF d
  <2>3. \A y \in calls' : \E x \in calls : y = f[x] /\ Alike(y, x)
    BY <2>1, <2>2
  <2> HIDE DEF f
  <2> QED BY <1>0, <2>3, CallsGoOn
<1> QED BY <1>1, <1>2

LEMMA PressNext ==
    ASSUME PressInv, [Next]_vars
    PROVE  PressInv'
<1>0. ASSUME UNCHANGED <<place, meant, calls>> PROVE PressInv'
  <2> DEFINE f == [x \in calls |-> x]
  <2>1. \A x \in calls' : x \in calls /\ x = f[x] /\ Alike(x, x)
    BY <1>0 DEF PressInv, Alike
  <2> HIDE DEF f
  <2> QED BY <1>0, <2>1, CallsGoOn
<1>1. ASSUME NEW t \in Tabs, NEW q \in Queries, Query(t, q) PROVE PressInv'
  BY <1>0, <1>1 DEF Query, Ask, Serve, AskFails, Arrive, server
<1>2. ASSUME NEW t \in Tabs, Browse(t) PROVE PressInv'
  <2>1. ASSUME NEW p, Goes(t, p) PROVE PressInv'
    <3>1. UNCHANGED <<place, meant>> /\ calls' = Orphaned(t, calls)
      BY <2>1 DEF Goes, server
    <3> QED BY <3>1, OrphansGoOn
  <2> QED BY <1>0, <1>2, <2>1 DEF Browse, Visit, Reload, HandleSearch, ClearSearch, HandleMessageClick, server
<1>3. ASSUME NEW t \in Tabs, OnList(t) PROVE PressInv'
  <2>1. CASE \E ms : Selects(t, ms)
    BY <1>0, <2>1 DEF Selects, server
  <2>2. ASSUME NEW ms, DeleteMessage(t, ms), UNCHANGED place PROVE PressInv'
    BY <2>2, DeletePressed
  <2>3. ASSUME NEW m, MoveMessage(t, m, "archive"), UNCHANGED place PROVE PressInv'
    BY <2>3, MovePressed DEF System
  <2>4. ASSUME NEW op \in {"seen", "unseen"}, HandleMark(t, op) PROVE PressInv'
    BY <2>4, FlagsPressed DEF HandleMark, Bulk, server
  <2> QED
    BY <1>3, <2>1, <2>2, <2>3, <2>4
       DEF OnList, HandleSelect, HandleSwipeDelete, HandleSwipeArchive, HandleSelectAll,
           HandleDeselectAll, HandleBulkDelete, Bulk, OnMail, server
<1>4. ASSUME NEW t \in Tabs, OnThread(t) PROVE PressInv'
  <2>1. CASE MarkRead(t)
    BY <2>1, FlagsPressed DEF MarkRead, server
  <2>2. ASSUME NEW ms, DeleteMessage(t, ms), UNCHANGED place PROVE PressInv'
    BY <2>2, DeletePressed
  <2>3. ASSUME NEW m, NEW b \in System \cup Folders, MoveMessage(t, m, b), UNCHANGED place
        PROVE  PressInv'
    BY <2>3, MovePressed
  <2>4. "archive" \in System
    BY DEF System
  <2> QED
    BY <1>4, <2>1, <2>2, <2>3, <2>4 DEF OnThread, HandleDelete, HandleArchive, HandleMove, OnMail, server
<1>5. ASSUME NEW t \in Tabs, NEW f \in Folders, Folder(t, f) PROVE PressInv'
  BY <1>5, FolderPressed DEF Folder, HandleCreateFolder, HandleDeleteFolder, OnFolders, server
<1>6. ASSUME NEW u \in Urls, Revalidate(u) PROVE PressInv'
  BY <1>0, <1>6 DEF Revalidate, server
<1>7. ASSUME NEW c \in calls, Handle(c) PROVE PressInv'
  BY <1>7, LookKeepsPress, WriteKeepsPress, AnswerKeepsPress DEF Handle
<1>8. CASE UNCHANGED vars
  BY <1>0, <1>8 DEF vars, server
<1> QED BY <1>1, <1>2, <1>3, <1>4, <1>5, <1>6, <1>7, <1>8 DEF Next

(* OnePressNeverDestroys: a mail that is destroyed was deleted, or moved to *)
(* the trash, at least twice.                                               *)
THEOREM OnePressSpares == Spec => []OnePressNeverDestroys
<1>1. PressInv => OnePressNeverDestroys
  BY DEF PressInv, OnePressNeverDestroys
<1> QED BY <1>1, PressBegins, PressNext, PTL DEF Spec

-----------------------------------------------------------------------------
(* What the server says of the folders, which the worker keeps: none that a *)
(* page made up.                                                            *)
TrueList(x) == IsList(x) /\ x.temps = {}

FolderCall(t) == \E c \in calls : c.tab = t /\ c.op \in OnFolders

(* A tab with page p, query cache d and queries in flight a.  A folder that *)
(* a page made up, or that a roll-back brought back, goes when the folders  *)
(* are told, and these are asked for, or will be when a call of the tab on  *)
(* folders is answered.                                                     *)
TabOK(p, d, a, waits) ==
    /\ p \in Pages \cup {Closed}
    /\ DOMAIN d = Queries /\ DOMAIN a = Queries
    /\ d["boxes"] # None => IsList(d["boxes"])
    /\ p = Closed => d["boxes"] = None /\ a["boxes"] = Idle
    /\ a["boxes"].st = "back" => TrueList(a["boxes"].body)
    /\ d["boxes"] # None =>
          d["boxes"].temps = {} \/ d["boxes"].error \/ a["boxes"] # Idle \/ waits

FolderCallOK(c) ==
    /\ DOMAIN c = CallFields
    /\ c.previous # None => IsList(c.previous)
    /\ c.tab \in Tabs \cup {None}
    /\ c.op \in OnFolders /\ c.tab # None => page[c.tab] \in Pages

ByTab(f) == f = [t \in Tabs |-> f[t]]

FoldersInv ==
    /\ ByTab(page) /\ ByTab(data) /\ ByTab(asks)
    /\ DOMAIN cache = Urls
    /\ cache[<<"boxes", None>>] # None => TrueList(cache[<<"boxes", None>>])
    /\ \A c \in calls : FolderCallOK(c)
    /\ \A t \in Tabs : TabOK(page[t], data[t], asks[t], FolderCall(t))

-----------------------------------------------------------------------------
LEMMA ClosedIsNone == Closed \notin Pages /\ Inbox \in Pages /\ None \notin Tabs
BY MailClientAssumption DEF Closed, Inbox, Pages, System

LEMMA FoldersBegin == Init => FoldersInv
<1> SUFFICES ASSUME Init PROVE FoldersInv
  OBVIOUS
<1>1. PICK s \in Scenarios : page = [t \in Tabs |-> IF t \in s.tabs THEN s.start ELSE Closed]
  BY DEF Init
<1>2. s.start \in Pages
  BY MailClientAssumption DEF Pages
<1>3. /\ calls = {} /\ data = [t \in Tabs |-> NoData]
      /\ asks = [t \in Tabs |-> [q \in Queries |-> Idle]] /\ cache = [u \in Urls |-> None]
  BY DEF Init
<1>4. <<"boxes", None>> \in Urls /\ "boxes" \in Queries /\ Idle.st = "idle"
  BY DEF Urls, Queries, Idle
<1>5. ASSUME NEW t \in Tabs PROVE TabOK(page[t], data[t], asks[t], FolderCall(t))
  BY <1>1, <1>2, <1>3, <1>4 DEF TabOK, NoData
<1>6. ByTab(page) /\ ByTab(data) /\ ByTab(asks)
  BY <1>1, <1>3 DEF ByTab
<1> QED BY <1>3, <1>4, <1>5, <1>6 DEF FoldersInv

LEMMA ByTabExcept ==
    ASSUME NEW f, ByTab(f), NEW t \in Tabs, NEW x
    PROVE  /\ DOMAIN f = Tabs /\ f = [f EXCEPT ![t] = f[t]]
           /\ ByTab([f EXCEPT ![t] = x])
BY DEF ByTab

(* A step of one tab, which becomes p, d, a: the others wait as they did.   *)
LEMMA OneTab ==
    ASSUME FoldersInv, NEW t \in Tabs, NEW p, NEW d, NEW a,
           page' = [page EXCEPT ![t] = p], data' = [data EXCEPT ![t] = d],
           asks' = [asks EXCEPT ![t] = a],
           p = page[t] \/ p \in Pages,
           DOMAIN cache' = Urls,
           cache'[<<"boxes", None>>] # None => TrueList(cache'[<<"boxes", None>>]),
           \A c \in calls' : /\ DOMAIN c = CallFields
                             /\ c.previous # None => IsList(c.previous)
                             /\ c.tab \in Tabs \cup {None}
                             /\ c.op \in OnFolders /\ c.tab # None =>
                                   page[c.tab] \in Pages \/ (c.tab = t /\ p \in Pages),
           \A u \in Tabs \ {t} : FolderCall(u) => FolderCall(u)',
           TabOK(p, d, a, FolderCall(t)')
    PROVE  FoldersInv'
<1>1. ASSUME NEW u \in Tabs
      PROVE  TabOK(page'[u], data'[u], asks'[u], FolderCall(u)')
  <2>1. CASE u = t
    BY <2>1, ByTabExcept DEF FoldersInv
  <2>2. CASE u # t
    BY <2>2, ByTabExcept DEF FoldersInv, TabOK
  <2> QED BY <2>1, <2>2
<1>2. \A c \in calls' : FolderCallOK(c)'
  BY DEF FolderCallOK, FoldersInv, ByTab
<1>3. ByTab(page)' /\ ByTab(data)' /\ ByTab(asks)'
  BY ByTabExcept DEF FoldersInv, ByTab
<1> QED BY <1>1, <1>2, <1>3 DEF FoldersInv

(* The same where the calls stay as they are.                               *)
LEMMA OneTabAlone ==
    ASSUME FoldersInv, UNCHANGED calls, NEW t \in Tabs, NEW p, NEW d, NEW a,
           page' = [page EXCEPT ![t] = p], data' = [data EXCEPT ![t] = d],
           asks' = [asks EXCEPT ![t] = a],
           p = page[t] \/ p \in Pages,
           DOMAIN cache' = Urls,
           cache'[<<"boxes", None>>] # None => TrueList(cache'[<<"boxes", None>>]),
           TabOK(p, d, a, FolderCall(t))
    PROVE  FoldersInv'
<1>1. \A c \in calls' : /\ DOMAIN c = CallFields
                        /\ c.previous # None => IsList(c.previous)
                        /\ c.tab \in Tabs \cup {None}
                        /\ c.op \in OnFolders /\ c.tab # None =>
                              page[c.tab] \in Pages \/ (c.tab = t /\ p \in Pages)
  <2>1. \A c \in calls' : FolderCallOK(c)
    BY DEF FoldersInv
  <2> QED BY <2>1 DEF FolderCallOK
<1>2. \A u : FolderCall(u)' <=> FolderCall(u)
  BY DEF FolderCall
<1>3. TabOK(p, d, a, FolderCall(t)')
  BY <1>2 DEF TabOK
<1> QED BY <1>1, <1>2, <1>3, OneTab

(* Calls that go on, with another tab or none, or begin, or end.            *)
LEMMA NoTab ==
    ASSUME FoldersInv, UNCHANGED <<page, data, asks>>,
           DOMAIN cache' = Urls,
           cache'[<<"boxes", None>>] # None => TrueList(cache'[<<"boxes", None>>]),
           \A c \in calls' : FolderCallOK(c),
           \A u \in Tabs : FolderCall(u) => FolderCall(u)'
    PROVE  FoldersInv'
<1>1. ASSUME NEW u \in Tabs
      PROVE  TabOK(page'[u], data'[u], asks'[u], FolderCall(u)')
  BY DEF FoldersInv, TabOK
<1>2. \A c \in calls' : FolderCallOK(c)'
  BY DEF FolderCallOK
<1> QED BY <1>1, <1>2 DEF FoldersInv, ByTab

-----------------------------------------------------------------------------
LEMMA AnswersTrue ==
    ASSUME NEW u
    PROVE  u = <<"boxes", None>> => TrueList(Answer(u))
BY DEF Answer, ListMailboxes, TrueList, IsList

(* A query that is sent, with the worker's copy or without.                 *)
LEMMA SentOK ==
    ASSUME FoldersInv, NEW u
    PROVE  /\ Sent(u) # Idle
           /\ u = <<"boxes", None>> /\ Sent(u).st = "back" => TrueList(Sent(u).body)
BY DEF FoldersInv, Sent, Idle

LEMMA UrlOfBoxes == \A q \in Queries : \A p : q = "boxes" <=> Url(q, p) = <<"boxes", None>>
BY DEF Queries, Url

(* fetch() from an open tab.                                                *)
LEMMA FetchOK ==
    ASSUME FoldersInv, NEW t \in Tabs, page[t] # Closed, NEW q \in Queries, Fetch(t, q),
           NEW w
    PROVE  LET a == [asks[t] EXCEPT ![q] = Sent(Url(q, page[t]))] IN
           /\ asks' = [asks EXCEPT ![t] = a]
           /\ TabOK(page[t], data[t], asks[t], w) => TabOK(page[t], data[t], a, w)
           /\ q = "boxes" => a["boxes"] # Idle
           /\ DOMAIN a = Queries
           /\ a["boxes"].st = "back" => TrueList(a["boxes"].body)
<1> DEFINE x == Sent(Url(q, page[t]))
           a == [asks[t] EXCEPT ![q] = x]
<1>1. asks' = [asks EXCEPT ![t][q] = x]
  BY DEF Fetch
<1>2. x # Idle /\ (q = "boxes" /\ x.st = "back" => TrueList(x.body))
  BY SentOK, UrlOfBoxes
<1> HIDE DEF x
<1>3. TabOK(page[t], data[t], asks[t], FolderCall(t)) /\ "boxes" \in Queries
  BY DEF FoldersInv, Queries
<1>4. /\ DOMAIN a = Queries /\ (q = "boxes" => a["boxes"] = x)
      /\ q # "boxes" => a["boxes"] = asks[t]["boxes"]
  BY <1>3 DEF TabOK
<1>5. a["boxes"].st = "back" => TrueList(a["boxes"].body)
  BY <1>2, <1>3, <1>4 DEF TabOK
<1>6. TabOK(page[t], data[t], asks[t], w) => TabOK(page[t], data[t], a, w)
  BY <1>2, <1>4, <1>5 DEF TabOK
<1>7. asks' = [asks EXCEPT ![t] = a]
  BY <1>1, ByTabExcept DEF FoldersInv
<1> QED BY <1>2, <1>4, <1>5, <1>6, <1>7 DEF x

LEMMA QueryKeepsFolders ==
    ASSUME FoldersInv, NEW t \in Tabs, NEW q \in Queries, Query(t, q)
    PROVE  FoldersInv'
<1> DEFINE p == page[t]
           d == data[t]
           a == asks[t]
           w == FolderCall(t)
<1>0. /\ TabOK(p, d, a, w) /\ "boxes" \in Queries
      /\ DOMAIN page = Tabs /\ DOMAIN data = Tabs /\ DOMAIN asks = Tabs /\ DOMAIN cache = Urls
      /\ cache[<<"boxes", None>>] # None => TrueList(cache[<<"boxes", None>>])
      /\ Idle.st = "idle"
      /\ page = [page EXCEPT ![t] = p] /\ data = [data EXCEPT ![t] = d]
  BY ByTabExcept DEF FoldersInv, Queries, Idle
<1>1. CASE Ask(t, q)
  <2>1. Fetch(t, q) /\ UNCHANGED <<calls, page, data, cache>> /\ page[t] # Closed
    BY <1>1 DEF Ask, Enabled
  <2> DEFINE b == [asks[t] EXCEPT ![q] = Sent(Url(q, page[t]))]
  <2>2. asks' = [asks EXCEPT ![t] = b] /\ TabOK(p, d, b, w)
    BY <1>0, <2>1, FetchOK
  <2>3. page' = [page EXCEPT ![t] = p] /\ data' = [data EXCEPT ![t] = d]
    BY <1>0, <2>1
  <2> HIDE DEF b, d, w
  <2> QED BY <1>0, <2>1, <2>2, <2>3, OneTabAlone DEF w
<1>2. CASE Serve(t, q)
  <2> DEFINE u == Url(q, page[t])
             x == Answer(u)
             b == [a EXCEPT ![q] = [st |-> "back", body |-> x]]
  <2>1. /\ asks' = [asks EXCEPT ![t] = b] /\ a[q].st = "sent"
        /\ cache' \in {cache, [cache EXCEPT ![u] = x]} /\ UNCHANGED <<calls, page, data>>
    BY <1>0, <1>2 DEF Serve
  <2>2. (q = "boxes" <=> u = <<"boxes", None>>) /\ (u = <<"boxes", None>> => TrueList(x))
    BY UrlOfBoxes, AnswersTrue
  <2> HIDE DEF u, x
  <2>3. /\ DOMAIN cache' = Urls
        /\ cache'[<<"boxes", None>>] # None => TrueList(cache'[<<"boxes", None>>])
    <3>1. <<"boxes", None>> \in Urls
      BY DEF Urls
    <3> QED BY <1>0, <2>1, <2>2, <3>1
  <2>4. /\ DOMAIN b = Queries
        /\ b["boxes"].st = "back" => TrueList(b["boxes"].body)
    BY <1>0, <2>2 DEF TabOK
  <2>5. q = "boxes" => p # Closed
    BY <1>0, <2>1 DEF TabOK, Idle
  <2>6. TabOK(p, d, b, w)
    <3>1. q # "boxes" => b["boxes"] = a["boxes"]
      BY <1>0 DEF TabOK
    <3>2. q = "boxes" => b["boxes"].st # Idle.st
      BY <1>0 DEF TabOK, Idle
    <3> HIDE DEF b
    <3> QED BY <1>0, <2>4, <2>5, <3>1, <3>2 DEF TabOK
  <2>7. page' = [page EXCEPT ![t] = p] /\ data' = [data EXCEPT ![t] = d]
    BY <1>0, <2>1
  <2> HIDE DEF b, d, w
  <2> QED BY <2>1, <2>3, <2>6, <2>7, OneTabAlone DEF w
<1>3. CASE AskFails(t, q)
  <2> DEFINE b == [a EXCEPT ![q] = Idle]
  <2>1. /\ asks' = [asks EXCEPT ![t] = b] /\ a[q].st = "sent" /\ UNCHANGED <<calls, cache>>
    BY <1>0, <1>3 DEF AskFails, worker
  <2>2. DOMAIN b = Queries /\ b[q] = Idle /\ \A r \in Queries : r # q => b[r] = a[r]
    BY <1>0 DEF TabOK
  <2> HIDE DEF b
  <2>3. CASE q = "boxes" /\ Known(t, q)
    <3> DEFINE e == [d EXCEPT !["boxes"].error = TRUE]
               s == [p EXCEPT !.search = page[t].url]
    <3>1. data' = [data EXCEPT ![t] = e] /\ page' = [page EXCEPT ![t] = s]
      BY <1>0, <1>3, <2>3 DEF AskFails
    <3>2. s \in Pages /\ d["boxes"] # None
      <4>1. p \in Pages
        BY <1>0, <2>1, <2>3 DEF TabOK, Idle
      <4> QED BY <2>3, <4>1 DEF Pages, Known
    <3>3. DOMAIN e = Queries /\ IsList(e["boxes"]) /\ e["boxes"].error
      BY <1>0, <3>2 DEF TabOK, IsList
    <3> HIDE DEF e, s
    <3>4. TabOK(s, e, b, w)
      <4>1. b["boxes"].st # "back" /\ s # Closed
        BY <1>0, <2>2, <2>3, <3>2, ClosedIsNone
      <4> QED BY <2>2, <3>2, <3>3, <4>1 DEF TabOK
    <3> HIDE DEF w
    <3> QED BY <1>0, <2>1, <3>1, <3>2, <3>4, OneTabAlone DEF w
  <2>4. CASE ~(q = "boxes" /\ Known(t, q))
    <3>1. page' = [page EXCEPT ![t] = p] /\ data' = [data EXCEPT ![t] = d]
      BY <1>0, <1>3, <2>4 DEF AskFails
    <3>2. TabOK(p, d, b, w)
      BY <1>0, <2>2, <2>4 DEF TabOK, Known, Idle
    <3> HIDE DEF d, w
    <3> QED BY <1>0, <2>1, <3>1, <3>2, OneTabAlone DEF w
  <2> QED BY <2>3, <2>4
<1>4. CASE Arrive(t, q)
  <2> DEFINE e == [d EXCEPT ![q] = a[q].body]
             b == [a EXCEPT ![q] = Idle]
  <2>1. /\ asks' = [asks EXCEPT ![t] = b] /\ data' = [data EXCEPT ![t] = e]
        /\ a[q].st = "back" /\ UNCHANGED <<calls, page, cache>>
    BY <1>0, <1>4 DEF Arrive, worker
  <2>2. /\ DOMAIN b = Queries /\ b[q] = Idle /\ \A r \in Queries : r # q => b[r] = a[r]
        /\ DOMAIN e = Queries /\ e[q] = a[q].body /\ \A r \in Queries : r # q => e[r] = d[r]
    BY <1>0 DEF TabOK
  <2> HIDE DEF b, e
  <2>3. TabOK(p, e, b, w)
    <3>1. CASE q = "boxes"
      <4>1. /\ p \in Pages /\ b["boxes"].st # "back" /\ p # Closed
            /\ TrueList(e["boxes"])
        BY <1>0, <2>1, <2>2, <3>1, ClosedIsNone DEF TabOK
      <4> QED BY <2>2, <4>1 DEF TabOK, TrueList
    <3>2. CASE q # "boxes"
      BY <1>0, <2>2, <3>2 DEF TabOK
    <3> QED BY <3>1, <3>2
  <2>4. page' = [page EXCEPT ![t] = p]
    BY <1>0, <2>1
  <2> HIDE DEF w
  <2> QED BY <1>0, <2>1, <2>3, <2>4, OneTabAlone DEF w
<1> QED BY <1>1, <1>2, <1>3, <1>4 DEF Query

-----------------------------------------------------------------------------
(* What a tab's calls are to the others.                                    *)
CallsKept(K, t) == \A u \in Tabs \ {t} : FolderCall(u) =>
    \E c \in K : c.tab = u /\ c.op \in OnFolders

LEMMA OrphansKept ==
    ASSUME FoldersInv, NEW t \in Tabs, NEW K \in SUBSET calls,
           \A c \in calls \ K : c.tab = t
    PROVE  /\ \A c \in Orphaned(t, K) : FolderCallOK(c)
           /\ CallsKept(Orphaned(t, K), t)
<1> DEFINE f(c) == IF c.tab = t THEN [c EXCEPT !.tab = None] ELSE c
<1>1. \A c \in calls : FolderCallOK(f(c)) /\ (c.tab # t => f(c) = c)
  BY DEF FoldersInv, FolderCallOK, CallFields
<1>2. Orphaned(t, K) = {f(c) : c \in K}
  BY DEF Orphaned
<1> HIDE DEF f
<1>3. \A c \in Orphaned(t, K) : FolderCallOK(c)
  BY <1>1, <1>2
<1>4. CallsKept(Orphaned(t, K), t)
  <2> SUFFICES ASSUME NEW u \in Tabs \ {t}, NEW c \in calls, c.tab = u, c.op \in OnFolders
               PROVE  \E x \in Orphaned(t, K) : x.tab = u /\ x.op \in OnFolders
    BY DEF CallsKept, FolderCall
  <2>1. c \in K /\ f(c) = c
    BY <1>1
  <2> QED BY <1>2, <2>1
<1> QED BY <1>3, <1>4

LEMMA SendsKept ==
    ASSUME FoldersInv, NEW new, Sends(new)
    PROVE  /\ \A c \in calls' : c \in new \/ FolderCallOK(c)
           /\ \A u : FolderCall(u) => FolderCall(u)'
<1> DEFINE f(c) == [c EXCEPT !.goes = @ /\ ~\E d \in new : d.tab = c.tab /\ d.op = c.op]
<1>1. \A c \in calls : FolderCallOK(f(c)) /\ f(c).tab = c.tab /\ f(c).op = c.op
  BY DEF FoldersInv, FolderCallOK, CallFields
<1>2. calls' = {f(c) : c \in calls} \cup new
  BY DEF Sends
<1> HIDE DEF f
<1> QED BY <1>1, <1>2 DEF FolderCall

(* A page that is loaded anew.                                              *)
LEMMA NewPage ==
    ASSUME FoldersInv, NEW t \in Tabs, NEW p \in Pages, Open(t, p), UNCHANGED cache,
           \A c \in calls' : FolderCallOK(c), CallsKept(calls', t)
    PROVE  FoldersInv'
<1> DEFINE d == NoData
           a == [q \in Queries |-> Idle]
<1>1. page' = [page EXCEPT ![t] = p] /\ data' = [data EXCEPT ![t] = d]
      /\ asks' = [asks EXCEPT ![t] = a]
  BY DEF Open
<1>2. "boxes" \in Queries /\ Idle.st = "idle"
  BY DEF Queries, Idle
<1>3. TabOK(p, d, a, FolderCall(t)')
  BY <1>2, ClosedIsNone DEF TabOK, NoData
<1>4. \A u \in Tabs \ {t} : FolderCall(u) => FolderCall(u)'
  BY DEF CallsKept, FolderCall
<1>5. /\ DOMAIN cache' = Urls
      /\ cache'[<<"boxes", None>>] # None => TrueList(cache'[<<"boxes", None>>])
  BY DEF FoldersInv
<1>6. \A c \in calls' : /\ DOMAIN c = CallFields
                        /\ c.previous # None => IsList(c.previous)
                        /\ c.tab \in Tabs \cup {None}
                        /\ c.op \in OnFolders /\ c.tab # None =>
                              page[c.tab] \in Pages \/ (c.tab = t /\ p \in Pages)
  BY DEF FolderCallOK
<1> HIDE DEF d, a
<1> QED BY <1>1, <1>3, <1>4, <1>5, <1>6, OneTab

LEMMA BrowseKeepsFolders ==
    ASSUME FoldersInv, NEW t \in Tabs, Browse(t)
    PROVE  FoldersInv'
<1>0. /\ TabOK(page[t], data[t], asks[t], FolderCall(t)) /\ "boxes" \in Queries
      /\ page = [page EXCEPT ![t] = page[t]] /\ data = [data EXCEPT ![t] = data[t]]
      /\ asks = [asks EXCEPT ![t] = asks[t]]
      /\ DOMAIN cache = Urls /\ (cache[<<"boxes", None>>] # None => TrueList(cache[<<"boxes", None>>]))
      /\ DOMAIN data = Tabs /\ DOMAIN asks = Tabs /\ DOMAIN page = Tabs
  BY ByTabExcept DEF FoldersInv, Queries
<1>1. ShowsBox(t) => page[t] \in Pages
  BY <1>0 DEF ShowsBox, Known, TabOK
<1>2. ASSUME NEW p \in Pages, Goes(t, p) PROVE FoldersInv'
  <2>1. Open(t, p) /\ UNCHANGED cache /\ calls' = Orphaned(t, calls)
    BY <1>2 DEF Goes, worker
  <2>2. (\A c \in calls' : FolderCallOK(c)) /\ CallsKept(calls', t)
    BY <2>1, OrphansKept
  <2> QED BY <2>1, <2>2, NewPage
<1>3. ASSUME NEW b \in System, Visit(t, b) PROVE FoldersInv'
  <2>1. [Inbox EXCEPT !.box = b] \in Pages
    BY DEF Inbox, Pages
  <2> QED BY <1>2, <1>3, <2>1 DEF Visit
<1>4. CASE Reload(t)
  <2>1. page[t] \in Pages
    BY <1>0, <1>4 DEF Reload, TabOK
  <2>2. [page[t] EXCEPT !.search = ParseUrlSearchState(t)] \in Pages
    BY <2>1 DEF Pages, ParseUrlSearchState
  <2> QED BY <1>2, <1>4, <2>2 DEF Reload
<1>5. ASSUME NEW m \in Mails, HandleMessageClick(t, m) PROVE FoldersInv'
  <2>1. page[t] \in Pages
    BY <1>1, <1>5 DEF HandleMessageClick, Shown
  <2>2. [Inbox EXCEPT !.box = page[t].box, !.mail = m] \in Pages
    BY <2>1 DEF Pages, Inbox
  <2> QED BY <1>2, <1>5, <2>2 DEF HandleMessageClick
<1>6. CASE HandleSearch(t)
  <2> DEFINE s == ~page[t].url
             p == [page[t] EXCEPT !.url = s, !.search = IF ShowsBox(t) THEN @ ELSE s]
  <2>1. page[t] \in Pages
    BY <1>0, <1>6 DEF HandleSearch, TabOK
  <2>2. p \in Pages
    BY <2>1 DEF Pages
  <2>3. page' = [page EXCEPT ![t] = p] /\ UNCHANGED <<calls, data, asks, cache>>
    BY <1>0, <1>6 DEF HandleSearch, SyncUrlSearchState, worker
  <2> HIDE DEF p
  <2>4. TabOK(p, data[t], asks[t], FolderCall(t))
    BY <1>0, <2>1, <2>2, ClosedIsNone DEF TabOK
  <2> QED BY <1>0, <2>2, <2>3, <2>4, OneTabAlone
<1>7. CASE ClearSearch(t)
  <2> DEFINE p == [page[t] EXCEPT !.search = FALSE, !.url = FALSE]
             d == [data[t] EXCEPT !["found"] = None]
             a == [asks[t] EXCEPT !["found"] = Idle]
  <2>1. page[t] \in Pages
    BY <1>1, <1>7 DEF ClearSearch
  <2>2. p \in Pages
    BY <2>1 DEF Pages
  <2>3. /\ page' = [page EXCEPT ![t] = p] /\ data' = [data EXCEPT ![t] = d]
        /\ asks' = [asks EXCEPT ![t] = a] /\ UNCHANGED <<calls, cache>>
    BY <1>0, <1>7 DEF ClearSearch, worker
  <2>4. DOMAIN d = Queries /\ DOMAIN a = Queries /\ d["boxes"] = data[t]["boxes"]
        /\ a["boxes"] = asks[t]["boxes"]
    BY <1>0 DEF TabOK
  <2> HIDE DEF p, d, a
  <2>5. TabOK(p, d, a, FolderCall(t))
    BY <1>0, <2>1, <2>2, <2>4, ClosedIsNone DEF TabOK
  <2> QED BY <1>0, <2>2, <2>3, <2>5, OneTabAlone
<1> QED BY <1>3, <1>4, <1>5, <1>6, <1>7 DEF Browse

-----------------------------------------------------------------------------
(* A press on mails.                                                        *)
MailOps == {"seen", "unseen", "delete", "move"}

LEMMA MailCallOK ==
    ASSUME NEW t \in Tabs, NEW op \in MailOps, NEW x, NEW y
    PROVE  FolderCallOK(Call(t, op, x, y))
BY CallStarts DEF FolderCallOK, MailOps, OnFolders

LEMMA MailsSent ==
    ASSUME FoldersInv, NEW t \in Tabs, NEW ms, NEW b,
           \/ \E op \in {"seen", "unseen"} : UpdateFlags(t, op, ms)
           \/ DeleteMessage(t, ms) \/ \E m : MoveMessage(t, m, b)
    PROVE  /\ \A c \in calls' : FolderCallOK(c)
           /\ \A u : FolderCall(u) => FolderCall(u)'
<1>1. ASSUME NEW new, Sends(new), \A c \in new : FolderCallOK(c)
      PROVE  /\ \A c \in calls' : FolderCallOK(c)
             /\ \A u : FolderCall(u) => FolderCall(u)'
  BY <1>1, SendsKept
<1>2. ASSUME NEW op \in MailOps PROVE \A c \in {Call(t, op, m, None) : m \in ms} : FolderCallOK(c)
  BY MailCallOK
<1>3. \A m : \A c \in {Call(t, "move", m, b)} : FolderCallOK(c)
  BY MailCallOK DEF MailOps
<1>4. CASE \E op \in {"seen", "unseen"} : UpdateFlags(t, op, ms)
  BY <1>1, <1>2, <1>4 DEF UpdateFlags, MailOps
<1>5. CASE DeleteMessage(t, ms)
  BY <1>1, <1>2, <1>5 DEF DeleteMessage, MailOps
<1>6. CASE \E m : MoveMessage(t, m, b)
  BY <1>1, <1>3, <1>6 DEF MoveMessage
<1> QED BY <1>4, <1>5, <1>6

LEMMA NoTabSent ==
    ASSUME FoldersInv, UNCHANGED <<page, data, asks, cache>>,
           \A c \in calls' : FolderCallOK(c),
           \A u : FolderCall(u) => FolderCall(u)'
    PROVE  FoldersInv'
BY NoTab DEF FoldersInv

LEMMA PressKeepsFolders ==
    ASSUME FoldersInv, NEW t \in Tabs, OnList(t) \/ OnThread(t)
    PROVE  FoldersInv'
<1>1. CASE UNCHANGED <<page, data, asks, cache, calls>>
  <2>1. (\A c \in calls' : FolderCallOK(c)) /\ \A u : FolderCall(u) => FolderCall(u)'
    BY <1>1 DEF FoldersInv, FolderCall
  <2> QED BY <1>1, <2>1, NoTabSent
<1>2. ASSUME NEW ms, NEW b, UNCHANGED <<page, data, asks, cache>>,
             \/ \E op \in {"seen", "unseen"} : UpdateFlags(t, op, ms)
             \/ DeleteMessage(t, ms) \/ \E m : MoveMessage(t, m, b)
      PROVE  FoldersInv'
  BY <1>2, MailsSent, NoTabSent
<1>3. CASE MarkRead(t)
  <2> DEFINE d == [data[t] EXCEPT !["mail"] = "seen"]
  <2>0. /\ TabOK(page[t], data[t], asks[t], FolderCall(t)) /\ "boxes" \in Queries
        /\ page = [page EXCEPT ![t] = page[t]] /\ asks = [asks EXCEPT ![t] = asks[t]]
        /\ DOMAIN cache = Urls /\ (cache[<<"boxes", None>>] # None => TrueList(cache[<<"boxes", None>>]))
        /\ DOMAIN data = Tabs
    BY ByTabExcept DEF FoldersInv, Queries
  <2>1. /\ page' = [page EXCEPT ![t] = page[t]] /\ asks' = [asks EXCEPT ![t] = asks[t]]
        /\ data' = [data EXCEPT ![t] = d] /\ UNCHANGED cache
    BY <1>3, <2>0 DEF MarkRead, worker
  <2>2. /\ \A c \in calls' : FolderCallOK(c)
        /\ \A u : FolderCall(u) => FolderCall(u)'
    BY <1>3, MailsSent DEF MarkRead
  <2>3. DOMAIN d = Queries /\ d["boxes"] = data[t]["boxes"]
    BY <2>0 DEF TabOK
  <2> HIDE DEF d
  <2>4. TabOK(page[t], d, asks[t], FolderCall(t)')
    BY <2>0, <2>2, <2>3 DEF TabOK
  <2>5. \A c \in calls' : /\ DOMAIN c = CallFields
                          /\ c.previous # None => IsList(c.previous)
                          /\ c.tab \in Tabs \cup {None}
                          /\ c.op \in OnFolders /\ c.tab # None =>
                                page[c.tab] \in Pages \/ (c.tab = t /\ page[t] \in Pages)
    BY <2>2 DEF FolderCallOK
  <2> QED BY <2>0, <2>1, <2>2, <2>4, <2>5, OneTab
<1>4. CASE OnList(t)
  <2>1. CASE \E ms : Selects(t, ms)
    BY <1>1, <2>1 DEF Selects, worker
  <2>2. ASSUME NEW m, HandleSwipeDelete(t, m) \/ HandleSwipeArchive(t, m) PROVE FoldersInv'
    BY <1>2, <2>2 DEF HandleSwipeDelete, HandleSwipeArchive, OnMail, tabs, worker
  <2>3. CASE HandleBulkDelete(t) \/ \E op \in {"seen", "unseen"} : HandleMark(t, op)
    BY <1>2, <2>3 DEF HandleBulkDelete, HandleMark, Bulk, worker
  <2> QED BY <1>4, <2>1, <2>2, <2>3 DEF OnList, HandleSelect, HandleSelectAll, HandleDeselectAll
<1>5. ASSUME NEW b, HandleDelete(t) \/ HandleArchive(t) \/ HandleMove(t, b) PROVE FoldersInv'
  BY <1>2, <1>5 DEF HandleDelete, HandleArchive, HandleMove, OnMail, tabs, worker
<1> QED BY <1>3, <1>4, <1>5 DEF OnThread

(* The folder dialog: its call is under way.                                *)
LEMMA DialogKeepsFolders ==
    ASSUME FoldersInv, NEW t \in Tabs, page[t] \in Pages, NEW op \in OnFolders, NEW f, NEW b,
           IsList(b), Optimistic(t, Call(t, op, f, None), b), UNCHANGED <<page, cache>>
    PROVE  FoldersInv'
<1> DEFINE x == [Call(t, op, f, None) EXCEPT !.previous = data[t]["boxes"]]
           d == [data[t] EXCEPT !["boxes"] = [b EXCEPT !.error = FALSE]]
           a == [asks[t] EXCEPT !["boxes"] = Idle]
<1>0. /\ TabOK(page[t], data[t], asks[t], FolderCall(t)) /\ "boxes" \in Queries
      /\ page = [page EXCEPT ![t] = page[t]]
      /\ DOMAIN cache = Urls /\ (cache[<<"boxes", None>>] # None => TrueList(cache[<<"boxes", None>>]))
      /\ DOMAIN data = Tabs /\ DOMAIN asks = Tabs
  BY ByTabExcept DEF FoldersInv, Queries
<1>1. DOMAIN x = CallFields /\ x.tab = t /\ x.op = op /\ x.previous = data[t]["boxes"]
  BY CallStarts DEF CallFields
<1>2. /\ Sends({x}) /\ page' = [page EXCEPT ![t] = page[t]] /\ data' = [data EXCEPT ![t] = d]
      /\ asks' = [asks EXCEPT ![t] = a]
  BY <1>0 DEF Optimistic
<1>3. x \in calls'
  BY <1>2 DEF Sends
<1>4. FolderCallOK(x)
  BY <1>0, <1>1 DEF FolderCallOK, TabOK
<1>5. DOMAIN d = Queries /\ DOMAIN a = Queries /\ IsList(d["boxes"]) /\ a["boxes"] = Idle
  BY <1>0 DEF TabOK, IsList
<1> HIDE DEF x, d, a
<1>6. FolderCall(t)'
  BY <1>1, <1>3 DEF FolderCall
<1>7. Idle.st # "back" /\ page[t] # Closed
  BY ClosedIsNone DEF Idle
<1>8. TabOK(page[t], d, a, FolderCall(t)')
  BY <1>5, <1>6, <1>7 DEF TabOK
<1>9. (\A c \in calls' : FolderCallOK(c)) /\ \A u : FolderCall(u) => FolderCall(u)'
  BY <1>2, <1>4, SendsKept
<1>10. \A c \in calls' : /\ DOMAIN c = CallFields
                         /\ c.previous # None => IsList(c.previous)
                         /\ c.tab \in Tabs \cup {None}
                         /\ c.op \in OnFolders /\ c.tab # None =>
                               page[c.tab] \in Pages \/ (c.tab = t /\ page[t] \in Pages)
  BY <1>9 DEF FolderCallOK
<1> QED BY <1>0, <1>2, <1>8, <1>9, <1>10, OneTab

LEMMA FolderKeepsFolders ==
    ASSUME FoldersInv, NEW t \in Tabs, NEW f \in Folders, Folder(t, f)
    PROVE  FoldersInv'
<1>0. TabOK(page[t], data[t], asks[t], FolderCall(t)) /\ Boxes(t).names = Boxes(t).names
  BY DEF FoldersInv
<1>1. IsList(Boxes(t)) /\ (~Known(t, "boxes") => Boxes(t).names = {} /\ Boxes(t).temps = {})
  BY <1>0 DEF TabOK, Boxes, Known, IsList
<1>2. \A n, s : /\ IsList([Boxes(t) EXCEPT !.names = n])
                /\ IsList([Boxes(t) EXCEPT !.temps = s])
  BY <1>1 DEF IsList
<1>3. CASE HandleCreateFolder(t, f)
  <2>1. page[t] \in Pages /\ UNCHANGED <<page, cache>>
    BY <1>0, <1>3 DEF HandleCreateFolder, TabOK, worker
  <2>2. Optimistic(t, Call(t, "create", f, None), [Boxes(t) EXCEPT !.temps = @ \cup {f}])
    BY <1>3 DEF HandleCreateFolder
  <2> QED BY <1>2, <2>1, <2>2, DialogKeepsFolders DEF OnFolders
<1>4. CASE HandleDeleteFolder(t, f)
  <2>1. UNCHANGED <<page, cache>> /\ Known(t, "boxes")
    BY <1>1, <1>4 DEF HandleDeleteFolder, MayDelete, MayDeleteTemp, worker
  <2>2. page[t] \in Pages
    BY <1>0, <2>1 DEF TabOK, Known
  <2>3. \/ Optimistic(t, Call(t, "drop", f, None), [Boxes(t) EXCEPT !.names = @ \ {f}])
        \/ Optimistic(t, Call(t, "drop", None, None), [Boxes(t) EXCEPT !.temps = @ \ {f}])
    BY <1>4 DEF HandleDeleteFolder
  <2> QED BY <1>2, <2>1, <2>2, <2>3, DialogKeepsFolders DEF OnFolders
<1> QED BY <1>3, <1>4 DEF Folder

-----------------------------------------------------------------------------
(* A handler goes on, and no tab hears of it.                               *)
LEMMA HandlerKeepsFolders ==
    ASSUME FoldersInv, NEW c \in calls, Look(c) \/ Write(c)
    PROVE  FoldersInv'
<1>1. PICK d : /\ calls' = (calls \ {c}) \cup {d} /\ UNCHANGED <<page, data, asks, cache>>
               /\ DOMAIN d = CallFields /\ d.tab = c.tab /\ d.op = c.op /\ d.previous = c.previous
  <2> DEFINE on(s) == [c EXCEPT !.st = s]
             looked(w) == [c EXCEPT !.st = "looked", !.was = w]
             same(d) == /\ DOMAIN d = CallFields /\ d.tab = c.tab /\ d.op = c.op
                        /\ d.previous = c.previous
  <2>1. DOMAIN c = CallFields
    BY DEF FoldersInv, FolderCallOK
  <2>2. (\A s : same(on(s))) /\ (\A w : same(looked(w)))
    BY <2>1 DEF CallFields
  <2>3. UNCHANGED <<page, data, asks, cache>>
    BY DEF Look, Write, tabs, worker
  <2>4. \E s, w : calls' = (calls \ {c}) \cup {on(s)} \/ calls' = (calls \ {c}) \cup {looked(w)}
    BY DEF Look, Write, Becomes
  <2> HIDE DEF on, looked
  <2> QED BY <2>2, <2>3, <2>4
<1>2. FolderCallOK(d)
  BY <1>1 DEF FoldersInv, FolderCallOK
<1>3. (\A x \in calls' : FolderCallOK(x)) /\ \A u : FolderCall(u) => FolderCall(u)'
  BY <1>1, <1>2 DEF FoldersInv, FolderCall
<1> QED BY <1>1, <1>3, NoTabSent

(* A tab hears of its call on folders: the roll-back may show what is no    *)
(* more, and the folders are asked for.                                     *)
LEMMA FolderHeard ==
    ASSUME FoldersInv, NEW c \in calls, c.tab # None, c.op \in OnFolders, NEW ok \in BOOLEAN,
           HearFolder(c, ok), UNCHANGED cache,
           \A x \in calls' : FolderCallOK(x), CallsKept(calls', c.tab)
    PROVE  FoldersInv'
<1> DEFINE t == c.tab
<1>1. t \in Tabs /\ page[t] \in Pages /\ (c.previous # None => IsList(c.previous))
  BY DEF FoldersInv, FolderCallOK
<1> HIDE DEF t
<1>0. /\ TabOK(page[t], data[t], asks[t], FolderCall(t)) /\ "boxes" \in Queries
      /\ page = [page EXCEPT ![t] = page[t]] /\ data = [data EXCEPT ![t] = data[t]]
      /\ asks = [asks EXCEPT ![t] = asks[t]]
      /\ DOMAIN cache = Urls /\ (cache[<<"boxes", None>>] # None => TrueList(cache[<<"boxes", None>>]))
      /\ DOMAIN data = Tabs /\ DOMAIN asks = Tabs
  BY <1>1, ByTabExcept DEF FoldersInv, Queries
<1>2. UNCHANGED page /\ Invalidate(t, "boxes") /\ (UNCHANGED data \/ RollBack(c))
  BY DEF HearFolder, Settled, t
<1>3. Enabled(t, "boxes")
  BY <1>1, ClosedIsNone DEF Enabled
<1>4. PICK a : /\ asks' = [asks EXCEPT ![t] = a] /\ DOMAIN a = Queries /\ a["boxes"] # Idle
               /\ a["boxes"].st = "back" => TrueList(a["boxes"].body)
  <2>1. CASE Fetch(t, "boxes")
    BY <1>0, <1>1, <2>1, ClosedIsNone, FetchOK
  <2>2. CASE UNCHANGED asks /\ asks[t]["boxes"] # Idle
    BY <1>0, <2>2 DEF TabOK
  <2> QED BY <1>2, <1>3, <2>1, <2>2 DEF Invalidate
<1>5. PICK d : /\ data' = [data EXCEPT ![t] = d] /\ DOMAIN d = Queries
               /\ d["boxes"] # None => IsList(d["boxes"])
  <2>1. CASE UNCHANGED data
    BY <1>0, <2>1 DEF TabOK
  <2>2. CASE RollBack(c) /\ c.previous # None
    <3> DEFINE d == [data[t] EXCEPT !["boxes"] = [c.previous EXCEPT !.error = FALSE]]
    <3>1. data' = [data EXCEPT ![t] = d]
      BY <1>0, <1>1, <2>2 DEF RollBack, t
    <3>2. DOMAIN d = Queries /\ IsList(d["boxes"])
      BY <1>0, <1>1, <2>2 DEF TabOK, IsList
    <3> QED BY <3>1, <3>2
  <2> QED BY <1>2, <2>1, <2>2 DEF RollBack
<1>6. TabOK(page[t], d, a, FolderCall(t)')
  BY <1>1, <1>4, <1>5, ClosedIsNone DEF TabOK
<1>7. \A u \in Tabs \ {t} : FolderCall(u) => FolderCall(u)'
  BY DEF CallsKept, FolderCall, t
<1>8. \A x \in calls' : /\ DOMAIN x = CallFields
                        /\ x.previous # None => IsList(x.previous)
                        /\ x.tab \in Tabs \cup {None}
                        /\ x.op \in OnFolders /\ x.tab # None =>
                              page[x.tab] \in Pages \/ (x.tab = t /\ page[t] \in Pages)
  BY DEF FolderCallOK
<1> QED BY <1>0, <1>1, <1>2, <1>4, <1>5, <1>6, <1>7, <1>8, OneTab

(* A tab hears of its call on a mail.                                       *)
LEMMA MailHeard ==
    ASSUME FoldersInv, NEW c \in calls, c.tab # None, c.op \notin OnFolders, NEW ok \in BOOLEAN,
           HearMail(c, ok), UNCHANGED cache,
           \A x \in calls' : FolderCallOK(x), CallsKept(calls', c.tab),
           Open(c.tab, Inbox) \/ (FolderCall(c.tab) => FolderCall(c.tab)')
    PROVE  FoldersInv'
<1> DEFINE t == c.tab
<1>1. t \in Tabs
  BY DEF FoldersInv, FolderCallOK
<1>2. CASE Open(t, Inbox)
  BY <1>1, <1>2, ClosedIsNone, NewPage
<1>3. CASE ~Open(t, Inbox)
  <2>1. /\ (FolderCall(t) => FolderCall(t)') /\ UNCHANGED <<page, data>>
        /\ UNCHANGED asks \/ Invalidate(t, "list")
    BY <1>3 DEF HearMail
  <2> HIDE DEF t
  <2>0. /\ TabOK(page[t], data[t], asks[t], FolderCall(t)) /\ "list" \in Queries
        /\ page = [page EXCEPT ![t] = page[t]] /\ data = [data EXCEPT ![t] = data[t]]
        /\ asks = [asks EXCEPT ![t] = asks[t]]
        /\ DOMAIN cache = Urls /\ (cache[<<"boxes", None>>] # None => TrueList(cache[<<"boxes", None>>]))
    BY <1>1, ByTabExcept DEF FoldersInv, Queries
  <2>2. TabOK(page[t], data[t], asks[t], FolderCall(t)')
    BY <2>0, <2>1 DEF TabOK
  <2>3. PICK a : asks' = [asks EXCEPT ![t] = a] /\ TabOK(page[t], data[t], a, FolderCall(t)')
    <3>1. CASE UNCHANGED asks
      BY <2>0, <2>2, <3>1
    <3>2. CASE Fetch(t, "list") /\ Enabled(t, "list")
      <4> DEFINE w == FolderCall(t)'
                 b == [asks[t] EXCEPT !["list"] = Sent(Url("list", page[t]))]
      <4>1. page[t] # Closed
        BY <3>2 DEF Enabled
      <4>2. TabOK(page[t], data[t], asks[t], w)
        BY <2>2
      <4> HIDE DEF w
      <4>3. asks' = [asks EXCEPT ![t] = b] /\ TabOK(page[t], data[t], b, w)
        BY <1>1, <2>0, <3>2, <4>1, <4>2, FetchOK
      <4> QED BY <4>3 DEF w
    <3> QED BY <2>1, <3>1, <3>2 DEF Invalidate
  <2>4. \A u \in Tabs \ {t} : FolderCall(u) => FolderCall(u)'
    BY DEF CallsKept, FolderCall, t
  <2>5. \A x \in calls' : /\ DOMAIN x = CallFields
                          /\ x.previous # None => IsList(x.previous)
                          /\ x.tab \in Tabs \cup {None}
                          /\ x.op \in OnFolders /\ x.tab # None =>
                                page[x.tab] \in Pages \/ (x.tab = t /\ page[t] \in Pages)
    BY DEF FolderCallOK
  <2>6. page' = [page EXCEPT ![t] = page[t]] /\ data' = [data EXCEPT ![t] = data[t]]
    BY <2>0, <2>1
  <2>7. /\ DOMAIN cache' = Urls
        /\ cache'[<<"boxes", None>>] # None => TrueList(cache'[<<"boxes", None>>])
    BY <2>0
  <2> QED BY <1>1, <2>3, <2>4, <2>5, <2>6, <2>7, OneTab
<1> QED BY <1>2, <1>3

LEMMA AnswerKeepsFolders ==
    ASSUME FoldersInv, NEW c \in calls, Reply(c) \/ Lose(c)
    PROVE  FoldersInv'
<1>0. UNCHANGED cache /\ FolderCallOK(c) /\ None \notin Tabs
  BY ClosedIsNone DEF Reply, Lose, FoldersInv
<1>1. CASE c.tab = None
  <2> DEFINE f(x) == IF x.tab = None THEN [x EXCEPT !.tab = None] ELSE x
  <2>1. Reply(c) /\ UNCHANGED <<page, data, asks>>
    BY <1>1 DEF Lose, Reply, tabs
  <2>2. calls' = {f(x) : x \in calls \ {c}} \/ calls' = calls \ {c}
    BY <1>1, <2>1 DEF Reply, Without, Orphaned
  <2>3. \A x \in calls : FolderCallOK(f(x)) /\ (x.tab # None => f(x) = x)
    BY DEF FoldersInv, FolderCallOK, CallFields
  <2> HIDE DEF f
  <2>4. \A x \in calls' : FolderCallOK(x)
    BY <2>2, <2>3 DEF FoldersInv
  <2>5. ASSUME NEW u \in Tabs, FolderCall(u) PROVE FolderCall(u)'
    <3>1. PICK x \in calls : x.tab = u /\ x.op \in OnFolders
      BY <2>5 DEF FolderCall
    <3>2. x \in calls' /\ x # c
      BY <1>0, <1>1, <2>2, <2>3, <3>1
    <3> QED BY <3>1, <3>2 DEF FolderCall
  <2> QED BY <1>0, <2>1, <2>4, <2>5, NoTab DEF FoldersInv
<1>2. ASSUME c.tab # None, NEW ok \in BOOLEAN, Hear(c, ok),
             \A x \in calls' : FolderCallOK(x), CallsKept(calls', c.tab),
             c.op \in OnFolders \/ Open(c.tab, Inbox) \/ (FolderCall(c.tab) => FolderCall(c.tab)')
      PROVE  FoldersInv'
  BY <1>0, <1>2, FolderHeard, MailHeard DEF Hear, OnFolders
<1>3. CASE c.tab # None /\ Reply(c)
  <2> DEFINE ok == c.st = "done"
             K == calls \ {c}
  <2>1. Hear(c, ok) /\ calls' = Without(c, ok) /\ ok \in BOOLEAN
    BY <1>3 DEF Reply
  <2> HIDE DEF ok
  <2>2. c.tab \in Tabs
    BY <1>0, <1>3 DEF FolderCallOK
  <2>3. CASE Leaves(c, ok)
    <3>1. calls' = Orphaned(c.tab, K) /\ Open(c.tab, Inbox)
      BY <2>1, <2>3 DEF Without, Leaves, Hear, HearMail
    <3>2. \A x \in calls \ K : x.tab = c.tab
      OBVIOUS
    <3>3. (\A x \in calls' : FolderCallOK(x)) /\ CallsKept(calls', c.tab)
      BY <2>2, <3>1, <3>2, OrphansKept
    <3> QED BY <1>2, <1>3, <2>1, <3>1, <3>3
  <2>4. CASE ~Leaves(c, ok)
    <3>1. calls' = calls \ {c}
      BY <2>1, <2>4 DEF Without
    <3>2. (\A x \in calls' : FolderCallOK(x)) /\ CallsKept(calls', c.tab)
      BY <3>1 DEF FoldersInv, CallsKept, FolderCall
    <3>3. c.op \in OnFolders \/ (FolderCall(c.tab) => FolderCall(c.tab)')
      BY <3>1 DEF FolderCall
    <3> QED BY <1>2, <1>3, <2>1, <3>2, <3>3
  <2> QED BY <2>3, <2>4
<1>4. CASE c.tab # None /\ Lose(c)
  <2> DEFINE d == [c EXCEPT !.tab = None]
  <2>1. Hear(c, FALSE) /\ calls \ {c} \subseteq calls' /\ calls' \subseteq (calls \ {c}) \cup {d}
    BY <1>4 DEF Lose, AfterLoss
  <2>2. FolderCallOK(d)
    BY <1>0 DEF FolderCallOK, CallFields
  <2> HIDE DEF d
  <2>3. (\A x \in calls' : FolderCallOK(x)) /\ CallsKept(calls', c.tab)
    BY <2>1, <2>2 DEF FoldersInv, CallsKept, FolderCall
  <2>4. c.op \in OnFolders \/ (FolderCall(c.tab) => FolderCall(c.tab)')
    BY <2>1 DEF FolderCall
  <2> QED BY <1>2, <1>4, <2>1, <2>3, <2>4
<1> QED BY <1>1, <1>3, <1>4

LEMMA FoldersNext ==
    ASSUME FoldersInv, [Next]_vars
    PROVE  FoldersInv'
<1>1. ASSUME NEW u \in Urls, Revalidate(u) PROVE FoldersInv'
  <2>1. /\ UNCHANGED <<page, data, asks, calls>>
        /\ cache' \in {cache, [cache EXCEPT ![u] = Answer(u)]}
    BY <1>1 DEF Revalidate, tabs
  <2>2. /\ DOMAIN cache' = Urls
        /\ cache'[<<"boxes", None>>] # None => TrueList(cache'[<<"boxes", None>>])
    BY <2>1, AnswersTrue DEF FoldersInv, Urls
  <2>3. (\A x \in calls' : FolderCallOK(x)) /\ \A v \in Tabs : FolderCall(v) => FolderCall(v)'
    BY <2>1 DEF FoldersInv, FolderCall
  <2> QED BY <2>1, <2>2, <2>3, NoTab
<1>2. ASSUME NEW c \in calls, Handle(c) PROVE FoldersInv'
  BY <1>2, HandlerKeepsFolders, AnswerKeepsFolders DEF Handle
<1>3. CASE UNCHANGED vars
  <2>1. UNCHANGED <<page, data, asks, calls, cache>>
    BY <1>3 DEF vars, tabs, worker
  <2>2. (\A x \in calls' : FolderCallOK(x)) /\ \A v : FolderCall(v) => FolderCall(v)'
    BY <2>1 DEF FoldersInv, FolderCall
  <2> QED BY <2>1, <2>2, NoTabSent
<1>4. ASSUME NEW t \in Tabs, OnList(t) \/ OnThread(t) PROVE FoldersInv'
  BY <1>4, PressKeepsFolders
<1> QED
  BY <1>1, <1>2, <1>3, <1>4, QueryKeepsFolders, BrowseKeepsFolders, FolderKeepsFolders DEF Next

(* NoLeftovers: a tab whose calls on folders are all answered, and which    *)
(* asks for none, shows no folder that only a page made up.                 *)
THEOREM NothingLeftOver == Spec => []NoLeftovers
<1>1. FoldersInv => NoLeftovers
  BY DEF FoldersInv, NoLeftovers, TabOK, FolderCall, Known, OnFolders
<1> QED BY <1>1, FoldersBegin, FoldersNext, PTL DEF Spec

-----------------------------------------------------------------------------
SaveFields == {"n", "tab", "part", "last", "step", "incoming", "existing", "of"}
PageFields == {"data", "error", "heard", "unsaved", "typed", "timer", "ask"}
AskFields == {"st", "body", "of"}

StoredNow == Settings!MergeWithDefaults(stored)

(* What an answer says is so, unless the row was written since; and a save  *)
(* that has read the row, or written it, holds the row as it is then.       *)
Current(x) == x.of \in 0..writes /\ (x.of = writes => x.body = StoredNow)
AskOK(x) == DOMAIN x = AskFields /\ (x.st = "back" => Current(x))
PageOK(p) == DOMAIN p = PageFields /\ p.heard \in 0..writes /\ AskOK(p.ask)
SaveOK(r) ==
    /\ DOMAIN r = SaveFields
    /\ r.tab \in Tabs \cup {None}
    /\ r.step \in {"read", "written"} =>
          r.of \in 0..writes /\ (r.of = writes => r.existing = stored)

(* Where a page may show something else than it heard, it says so, or still *)
(* has something to save.                                                   *)
Saving(t) == \E r \in saves : r.tab = t
ShowsOrOwes(p, saving) ==
    p.data # None /\ p.heard = writes =>
       p.unsaved \/ p.timer # None \/ saving \/ p.data = StoredNow

SettingsInv ==
    /\ writes \in Nat
    /\ DOMAIN settingsPage = Tabs
    /\ copy # None => AskOK(copy) /\ copy.st = "back"
    /\ \A r \in saves : SaveOK(r)
    /\ \A t \in Tabs : PageOK(settingsPage[t]) /\ ShowsOrOwes(settingsPage[t], Saving(t))

-----------------------------------------------------------------------------
LEMMA SettingsBegin == Settings!Init => SettingsInv
<1> SUFFICES ASSUME Settings!Init PROVE SettingsInv
  OBVIOUS
<1>1. \A t \in Tabs : settingsPage[t] \in {Settings!Loading, Settings!Closed}
  BY DEF Settings!Init
<1>2. \A p \in {Settings!Loading, Settings!Closed} :
         /\ DOMAIN p = PageFields /\ DOMAIN p.ask = AskFields
         /\ p.heard = 0 /\ p.data = None /\ p.ask.st # "back"
  BY DEF Settings!Loading, Settings!Closed, Settings!NoAsk, PageFields, AskFields
<1>3. writes = 0 /\ copy = None /\ saves = {} /\ DOMAIN settingsPage = Tabs
  BY DEF Settings!Init
<1>4. \A t \in Tabs : PageOK(settingsPage[t]) /\ ShowsOrOwes(settingsPage[t], Saving(t))
  BY <1>1, <1>2, <1>3 DEF PageOK, AskOK, ShowsOrOwes
<1> QED BY <1>3, <1>4 DEF SettingsInv

(* A step that writes no row, on the page of one tab: the others show and   *)
(* owe what they did.                                                       *)
LEMMA OnePage ==
    ASSUME SettingsInv, UNCHANGED <<stored, writes>>, NEW t \in Tabs, NEW p,
           settingsPage' = [settingsPage EXCEPT ![t] = p], PageOK(p),
           copy' # None => AskOK(copy') /\ copy'.st = "back",
           \A r \in saves' : SaveOK(r),
           \A u \in Tabs \ {t} : Saving(u) => Saving(u)',
           ShowsOrOwes(p, Saving(t)')
    PROVE  SettingsInv'
<1>1. /\ \A x : AskOK(x)' <=> AskOK(x)
      /\ \A x : PageOK(x)' <=> PageOK(x)
      /\ \A x : SaveOK(x)' <=> SaveOK(x)
  BY DEF AskOK, PageOK, SaveOK, Current, StoredNow, Settings!MergeWithDefaults
<1>2. \A x, b : ShowsOrOwes(x, b)' <=> ShowsOrOwes(x, b)
  BY DEF ShowsOrOwes, StoredNow, Settings!MergeWithDefaults
<1>3. ASSUME NEW u \in Tabs
      PROVE  PageOK(settingsPage'[u]) /\ ShowsOrOwes(settingsPage'[u], Saving(u)')
  <2>1. CASE u = t
    BY <2>1 DEF SettingsInv
  <2>2. CASE u # t
    BY <2>2 DEF SettingsInv, ShowsOrOwes
  <2> QED BY <2>1, <2>2
<1>4. ASSUME NEW u \in Tabs
      PROVE  PageOK(settingsPage[u])' /\ ShowsOrOwes(settingsPage[u], Saving(u))'
  BY <1>1, <1>3 DEF ShowsOrOwes, StoredNow, Settings!MergeWithDefaults
<1>5. copy' # None => AskOK(copy)' /\ copy'.st = "back"
  BY <1>1
<1> QED BY <1>1, <1>4, <1>5 DEF SettingsInv

(* A step that leaves the pages alone.                                      *)
LEMMA NoPage ==
    ASSUME SettingsInv, UNCHANGED <<stored, writes, settingsPage>>,
           copy' # None => AskOK(copy') /\ copy'.st = "back",
           \A r \in saves' : SaveOK(r),
           \A u \in Tabs : Saving(u) => Saving(u)'
    PROVE  SettingsInv'
<1>1. /\ \A x : AskOK(x)' <=> AskOK(x)
      /\ \A x : PageOK(x)' <=> PageOK(x)
      /\ \A x : SaveOK(x)' <=> SaveOK(x)
  BY DEF AskOK, PageOK, SaveOK, Current, StoredNow, Settings!MergeWithDefaults
<1>4. ASSUME NEW u \in Tabs
      PROVE  PageOK(settingsPage[u])' /\ ShowsOrOwes(settingsPage[u], Saving(u))'
  BY <1>1 DEF SettingsInv, ShowsOrOwes, StoredNow, Settings!MergeWithDefaults
<1>5. copy' # None => AskOK(copy)' /\ copy'.st = "back"
  BY <1>1
<1> QED BY <1>1, <1>4, <1>5 DEF SettingsInv

-----------------------------------------------------------------------------
LEMMA GotIsCurrent ==
    ASSUME SettingsInv
    PROVE  AskOK(Settings!GetSettings) /\ Settings!GetSettings.st = "back"
BY DEF SettingsInv, AskOK, Current, Settings!GetSettings, AskFields, StoredNow

(* A page whose query moves on, and nothing else of it.                     *)
LEMMA AskMoves ==
    ASSUME SettingsInv, UNCHANGED <<stored, writes, saves>>, NEW t \in Tabs, NEW a, AskOK(a),
           settingsPage' = [settingsPage EXCEPT ![t].ask = a],
           copy' # None => AskOK(copy') /\ copy'.st = "back"
    PROVE  SettingsInv'
<1> DEFINE p == [settingsPage[t] EXCEPT !.ask = a]
<1>1. settingsPage' = [settingsPage EXCEPT ![t] = p]
  OBVIOUS
<1>2. PageOK(p) /\ ShowsOrOwes(p, Saving(t)')
  BY DEF SettingsInv, PageOK, PageFields, ShowsOrOwes, Saving
<1>3. \A r \in saves' : SaveOK(r)
  BY DEF SettingsInv
<1>4. \A u \in Tabs \ {t} : Saving(u) => Saving(u)'
  BY DEF Saving
<1> HIDE DEF p
<1> QED BY <1>1, <1>2, <1>3, <1>4, OnePage

(* A save that is not followed any more is a save all the same.             *)
LEMMA UnfollowedSame ==
    ASSUME SettingsInv, NEW t, NEW part
    PROVE  /\ \A r \in Settings!Unfollowed(t, part) : SaveOK(r)
           /\ \A u : Saving(u) => \E r \in Settings!Unfollowed(t, part) : r.tab = u
<1> DEFINE same(r) == IF r.tab = t /\ r.part = part THEN [r EXCEPT !.last = FALSE] ELSE r
<1>1. \A r \in saves : SaveOK(same(r)) /\ same(r).tab = r.tab
  BY DEF SettingsInv, SaveOK, SaveFields
<1>2. Settings!Unfollowed(t, part) = {same(r) : r \in saves}
  BY DEF Settings!Unfollowed
<1> HIDE DEF same
<1> QED BY <1>1, <1>2 DEF Saving

LEMMA MutateSaves ==
    ASSUME SettingsInv, NEW t \in Tabs, NEW part, NEW changes,
           Settings!Mutate(t, part, changes)
    PROVE  /\ \A r \in saves' : SaveOK(r)
           /\ \A u : Saving(u) => Saving(u)'
           /\ Saving(t)'
<1> DEFINE new == [n |-> course.presses, tab |-> t, part |-> part, last |-> TRUE, step |-> "sent",
                   incoming |-> changes, existing |-> None, of |-> 0]
<1>1. SaveOK(new) /\ new.tab = t
  BY DEF SaveOK, SaveFields
<1>2. saves' = Settings!Unfollowed(t, part) \cup {new}
  BY DEF Settings!Mutate
<1> HIDE DEF new
<1>3. \A r \in saves' : SaveOK(r)
  BY <1>1, <1>2, UnfollowedSame
<1>4. \A u : Saving(u) => Saving(u)'
  BY <1>2, UnfollowedSame DEF Saving
<1>5. Saving(t)'
  BY <1>1, <1>2 DEF Saving
<1> QED BY <1>3, <1>4, <1>5

LEMMA QueryKeeps ==
    ASSUME SettingsInv, NEW t \in Tabs, Settings!Query(t)
    PROVE  SettingsInv'
<1>0. AskOK(Settings!NoAsk)
  BY DEF AskOK, Settings!NoAsk, AskFields
<1>1. CASE Settings!FetchSettings(t)
  <2>1. AskOK([Settings!NoAsk EXCEPT !.st = "sent"])
    BY DEF AskOK, Settings!NoAsk, AskFields
  <2> QED BY <1>1, <2>1, AskMoves DEF Settings!FetchSettings, SettingsInv
<1>2. CASE Settings!Serve(t)
  BY <1>2, GotIsCurrent, AskMoves DEF Settings!Serve, SettingsInv
<1>3. CASE Settings!Arrive(t)
  <2> DEFINE q == settingsPage[t]
             h == Settings!Hears(q, q.ask.body, q.ask.of)
             p == [h EXCEPT !.ask = Settings!NoAsk]
  <2>1. settingsPage' = [settingsPage EXCEPT ![t] = p]
        /\ UNCHANGED <<stored, writes, saves, copy>> /\ q.ask.st = "back"
    BY <1>3 DEF Settings!Arrive
  <2>2. DOMAIN q = PageFields /\ Current(q.ask)
    BY <2>1 DEF SettingsInv, PageOK, AskOK
  <2>3. /\ DOMAIN p = PageFields /\ p.heard = q.ask.of /\ p.ask = Settings!NoAsk
        /\ p.data = q.ask.body
    BY <2>2 DEF Settings!Hears, Settings!SetQueryData, PageFields
  <2> HIDE DEF p
  <2>4. PageOK(p) /\ ShowsOrOwes(p, Saving(t)')
    BY <1>0, <2>2, <2>3 DEF PageOK, ShowsOrOwes, Current
  <2>5. \A r \in saves' : SaveOK(r)
    BY <2>1 DEF SettingsInv
  <2>6. \A u \in Tabs \ {t} : Saving(u) => Saving(u)'
    BY <2>1 DEF Saving
  <2>7. copy' # None => AskOK(copy') /\ copy'.st = "back"
    BY <2>1 DEF SettingsInv
  <2> QED BY <2>1, <2>4, <2>5, <2>6, <2>7, OnePage
<1>4. CASE Settings!FetchFails(t)
  <2> DEFINE q == settingsPage[t]
             p == [q EXCEPT !.ask = Settings!NoAsk, !.error = TRUE, !.typed = None]
  <2>1. settingsPage' = [settingsPage EXCEPT ![t] = p]
        /\ UNCHANGED <<stored, writes, copy>> /\ saves' = Settings!Unfollowed(t, "profile")
    BY <1>4 DEF Settings!FetchFails
  <2>2. /\ PageOK(q) /\ ShowsOrOwes(q, Saving(t))
        /\ copy' # None => AskOK(copy') /\ copy'.st = "back"
    BY <2>1 DEF SettingsInv
  <2>3. \A r \in saves' : SaveOK(r)
    BY <2>1, UnfollowedSame
  <2>4. \A u : Saving(u) => Saving(u)'
    BY <2>1, UnfollowedSame DEF Saving
  <2>5. /\ DOMAIN p = PageFields /\ p.heard = q.heard /\ p.ask = Settings!NoAsk
        /\ p.data = q.data /\ p.unsaved = q.unsaved /\ p.timer = q.timer
    BY <2>2 DEF PageFields, PageOK
  <2> HIDE DEF p
  <2>6. PageOK(p) /\ ShowsOrOwes(p, Saving(t)')
    BY <1>0, <2>2, <2>4, <2>5 DEF PageOK, ShowsOrOwes
  <2> QED BY <2>1, <2>2, <2>3, <2>4, <2>6, OnePage
<1> QED
  BY <1>1, <1>2, <1>3, <1>4 DEF Settings!Query, Settings!Mount, Settings!RefetchOnFocus

(* A change on the page: what it shows, what its timer waits for, what was  *)
(* typed.  It owes what it shows.                                           *)
LEMMA ChoiceMade ==
    ASSUME SettingsInv, NEW t \in Tabs, NEW p, UNCHANGED <<stored, writes, copy>>,
           settingsPage' = [settingsPage EXCEPT ![t] = p],
           DOMAIN p = PageFields, p.heard = settingsPage[t].heard, p.ask = settingsPage[t].ask,
           \A r \in saves' : SaveOK(r),
           \A u : Saving(u) => Saving(u)',
           \/ Saving(t)' \/ p.timer # None
           \/ p.data = settingsPage[t].data /\ p.timer = settingsPage[t].timer
              /\ p.unsaved = settingsPage[t].unsaved
    PROVE  SettingsInv'
<1>1. PageOK(p) /\ ShowsOrOwes(p, Saving(t)')
  BY DEF SettingsInv, PageOK, ShowsOrOwes
<1>2. copy' # None => AskOK(copy') /\ copy'.st = "back"
  BY DEF SettingsInv
<1> QED BY <1>1, <1>2, OnePage

LEMMA OptimisticPage ==
    ASSUME SettingsInv, NEW t \in Tabs, NEW f, NEW v
    PROVE  LET p == Settings!Optimistic(t, f, v) IN
           /\ DOMAIN p = PageFields /\ p.heard = settingsPage[t].heard
           /\ p.ask = settingsPage[t].ask
BY DEF SettingsInv, PageOK, PageFields, Settings!Optimistic, Settings!SetQueryData

LEMMA LaterKeeps ==
    ASSUME SettingsInv, NEW t \in Tabs, NEW f \in Settings!Debounced, NEW v \in Settings!Values,
           Settings!HandleLater(t, f, v)
    PROVE  SettingsInv'
<1> DEFINE o == Settings!Optimistic(t, f, v)
           p == [o EXCEPT !.timer = Settings!Change(f, v)]
<1>1. /\ settingsPage' = [settingsPage EXCEPT ![t] = p]
      /\ UNCHANGED <<stored, writes, saves, copy>>
  BY DEF Settings!HandleLater, Settings!DebouncedUpdate
<1>2. /\ DOMAIN o = PageFields /\ o.heard = settingsPage[t].heard
      /\ o.ask = settingsPage[t].ask
  BY OptimisticPage
<1> HIDE DEF o
<1>3. Settings!Change(f, v) # None
  BY SettingsAssumption DEF Settings!Fields
<1>4. /\ DOMAIN p = PageFields /\ p.heard = settingsPage[t].heard
      /\ p.ask = settingsPage[t].ask /\ p.timer # None
  BY <1>2, <1>3 DEF PageFields
<1> HIDE DEF p
<1>5. (\A r \in saves' : SaveOK(r)) /\ \A u : Saving(u) => Saving(u)'
  BY <1>1 DEF SettingsInv, Saving
<1> QED BY <1>1, <1>4, <1>5, ChoiceMade

LEMMA ChoiceKeeps ==
    ASSUME SettingsInv, NEW t \in Tabs, Settings!Choice(t)
    PROVE  SettingsInv'
<1> DEFINE q == settingsPage[t]
<1>0. PageOK(q) /\ DOMAIN q = PageFields
  BY DEF SettingsInv, PageOK
<1>1. ASSUME NEW v \in Settings!Values, Settings!HandleThemeChange(t, v) PROVE SettingsInv'
  <2> DEFINE p == Settings!Optimistic(t, "theme", v)
  <2>1. /\ settingsPage' = [settingsPage EXCEPT ![t] = p]
        /\ UNCHANGED <<stored, writes, copy>>
        /\ Settings!Mutate(t, "appearance", Settings!Change("theme", v))
    BY <1>1 DEF Settings!HandleThemeChange
  <2>2. DOMAIN p = PageFields /\ p.heard = settingsPage[t].heard /\ p.ask = settingsPage[t].ask
    BY OptimisticPage
  <2> HIDE DEF p
  <2> QED BY <2>1, <2>2, MutateSaves, ChoiceMade
<1>2. ASSUME NEW v \in Settings!Values,
             \/ Settings!HandlePageSizeChange(t, v) \/ Settings!HandleNotificationsChange(t, v)
             \/ Settings!HandleAutoMarkReadChange(t, v)
      PROVE  SettingsInv'
  BY <1>2, LaterKeeps
     DEF Settings!HandlePageSizeChange, Settings!HandleNotificationsChange,
         Settings!HandleAutoMarkReadChange, Settings!Debounced
<1>3. ASSUME NEW v, Settings!TypeProfile(t, v) PROVE SettingsInv'
  <2> DEFINE p == [q EXCEPT !.typed = v]
  <2>1. /\ settingsPage' = [settingsPage EXCEPT ![t] = p]
        /\ UNCHANGED <<stored, writes, saves, copy>>
    BY <1>3 DEF Settings!TypeProfile
  <2>2. /\ DOMAIN p = PageFields /\ p.heard = q.heard /\ p.ask = q.ask /\ p.data = q.data
        /\ p.timer = q.timer /\ p.unsaved = q.unsaved
    BY <1>0 DEF PageFields
  <2> HIDE DEF p
  <2>3. (\A r \in saves' : SaveOK(r)) /\ \A u : Saving(u) => Saving(u)'
    BY <2>1 DEF SettingsInv, Saving
  <2> QED BY <2>1, <2>2, <2>3, ChoiceMade
<1>4. CASE Settings!TimerFires(t)
  <2> DEFINE p == [q EXCEPT !.timer = None]
  <2>1. /\ settingsPage' = [settingsPage EXCEPT ![t] = p]
        /\ UNCHANGED <<stored, writes, copy>>
        /\ Settings!Mutate(t, "appearance", q.timer)
    BY <1>4 DEF Settings!TimerFires
  <2>2. DOMAIN p = PageFields /\ p.heard = q.heard /\ p.ask = q.ask
    BY <1>0 DEF PageFields
  <2> HIDE DEF p
  <2> QED BY <2>1, <2>2, MutateSaves, ChoiceMade
<1>5. CASE Settings!HandleSave(t)
  <2>1. /\ UNCHANGED <<stored, writes, settingsPage, copy>>
        /\ Settings!Mutate(t, "profile", Settings!Change("profile", q.typed))
    BY <1>5 DEF Settings!HandleSave
  <2>2. copy' # None => AskOK(copy') /\ copy'.st = "back"
    BY <2>1 DEF SettingsInv
  <2> QED BY <2>1, <2>2, MutateSaves, NoPage
<1>6. CASE Settings!Reopen(t)
  <2> DEFINE p == Settings!Loading
             gone(r) == IF r.tab = t THEN [r EXCEPT !.tab = None] ELSE r
  <2>1. /\ settingsPage' = [settingsPage EXCEPT ![t] = p]
        /\ UNCHANGED <<stored, writes, copy>> /\ saves' = {gone(r) : r \in saves}
    BY <1>6 DEF Settings!Reopen
  <2>2. \A r \in saves : SaveOK(gone(r)) /\ (r.tab # t => gone(r) = r)
    BY DEF SettingsInv, SaveOK, SaveFields
  <2> HIDE DEF gone
  <2>3. (\A r \in saves' : SaveOK(r)) /\ \A u \in Tabs \ {t} : Saving(u) => Saving(u)'
    BY <2>1, <2>2 DEF Saving
  <2>4. DOMAIN p = PageFields /\ p.heard = 0 /\ p.ask = Settings!NoAsk /\ p.data = None
    BY DEF Settings!Loading, PageFields
  <2> HIDE DEF p
  <2>5. AskOK(Settings!NoAsk)
    BY DEF AskOK, Settings!NoAsk, AskFields
  <2>6. PageOK(p) /\ ShowsOrOwes(p, Saving(t)')
    BY <2>4, <2>5 DEF PageOK, ShowsOrOwes, SettingsInv
  <2>7. copy' # None => AskOK(copy') /\ copy'.st = "back"
    BY <2>1 DEF SettingsInv
  <2> QED BY <2>1, <2>3, <2>6, <2>7, OnePage
<1> QED BY <1>1, <1>2, <1>3, <1>4, <1>5, <1>6 DEF Settings!Choice

-----------------------------------------------------------------------------
LEMMA ReadKeeps ==
    ASSUME SettingsInv, NEW r \in saves, Settings!ReadExisting(r)
    PROVE  SettingsInv'
<1> DEFINE q == IF Settings!RefusesUpdate(r) THEN [r EXCEPT !.step = "refused"]
                ELSE [r EXCEPT !.step = "read", !.existing = stored, !.of = writes]
<1>1. /\ saves' = (saves \ {r}) \cup {q}
      /\ UNCHANGED <<stored, writes, settingsPage, copy>>
  BY DEF Settings!ReadExisting, Settings!Becomes
<1>2. SaveOK(q) /\ q.tab = r.tab
  <2>1. SaveOK(r) /\ writes \in Nat
    BY DEF SettingsInv
  <2>2. CASE Settings!RefusesUpdate(r)
    BY <2>1, <2>2 DEF SaveOK, SaveFields
  <2>3. CASE ~Settings!RefusesUpdate(r)
    BY <2>1, <2>3 DEF SaveOK, SaveFields
  <2> QED BY <2>2, <2>3
<1> HIDE DEF q
<1>3. (\A x \in saves' : SaveOK(x)) /\ \A u : Saving(u) => Saving(u)'
  BY <1>1, <1>2 DEF Saving, SettingsInv
<1>4. copy' # None => AskOK(copy') /\ copy'.st = "back"
  BY <1>1 DEF SettingsInv
<1> QED BY <1>1, <1>3, <1>4, NoPage

(* The row is written: nothing that was heard or read before is from after  *)
(* the last write any more.                                                 *)
LEMMA WriteKeeps ==
    ASSUME SettingsInv, NEW r \in saves, Settings!UpdatePreferences(r)
    PROVE  SettingsInv'
<1> DEFINE q == [r EXCEPT !.step = "written", !.existing = stored', !.of = writes']
<1>1. /\ saves' = (saves \ {r}) \cup {q} /\ writes' = writes + 1
      /\ UNCHANGED <<settingsPage, copy>> /\ writes \in Nat
  BY DEF Settings!UpdatePreferences, Settings!Becomes, SettingsInv
<1>2. SaveOK(r) /\ (\A x \in saves : SaveOK(x))
  BY DEF SettingsInv
<1>a. PICK z : z = q
  OBVIOUS
<1>b. saves' = (saves \ {r}) \cup {z}
  BY <1>1, <1>a
<1>c. /\ DOMAIN z = SaveFields /\ z.tab = r.tab /\ z.step = "written"
      /\ z.existing = stored' /\ z.of = writes'
  BY <1>2, <1>a DEF SaveOK, SaveFields
<1> HIDE DEF q
<1>3. SaveOK(z)'
  BY <1>1, <1>2, <1>c DEF SaveOK
<1>4. ASSUME NEW x \in saves PROVE SaveOK(x)'
  <2>1. /\ DOMAIN x = SaveFields /\ x.tab \in Tabs \cup {None}
        /\ x.step \in {"read", "written"} => x.of \in 0..writes
    BY <1>2 DEF SaveOK
  <2>2. x.of \in 0..writes => x.of \in 0..writes' /\ x.of # writes'
    BY <1>1
  <2> QED BY <2>1, <2>2 DEF SaveOK
<1>5. \A x \in saves' : SaveOK(x)'
  BY <1>b, <1>3, <1>4
<1>6. \A u : Saving(u) => Saving(u)'
  BY <1>b, <1>c DEF Saving
<1>7. \A x : AskOK(x) => AskOK(x)'
  BY <1>1 DEF AskOK, Current
<1>8. ASSUME NEW t \in Tabs
      PROVE  PageOK(settingsPage[t])' /\ ShowsOrOwes(settingsPage[t], Saving(t))'
  BY <1>1, <1>7 DEF SettingsInv, PageOK, ShowsOrOwes
<1>9. DOMAIN settingsPage' = Tabs /\ (copy' # None => AskOK(copy)' /\ copy'.st = "back")
  BY <1>1, <1>7 DEF SettingsInv
<1> QED BY <1>1, <1>5, <1>8, <1>9 DEF SettingsInv

LEMMA AnswerKeeps ==
    ASSUME SettingsInv, NEW r \in saves, Settings!SaveSucceeds(r) \/ Settings!SaveFails(r)
    PROVE  SettingsInv'
<1>0. /\ SaveOK(r) /\ UNCHANGED <<stored, writes, copy>>
      /\ copy' # None => AskOK(copy') /\ copy'.st = "back"
      /\ None \notin Tabs
  BY MailClientAssumption
     DEF SettingsInv, Settings!SaveSucceeds, Settings!SaveFails, Settings!Becomes
<1>1. /\ \A x \in saves' : SaveOK(x)
      /\ \A u \in Tabs : u # r.tab /\ Saving(u) => Saving(u)'
  <2>1. CASE saves' = saves \ {r}
    BY <2>1 DEF SettingsInv, Saving
  <2>2. CASE Settings!Becomes(r, [r EXCEPT !.tab = None]) /\ r.step = "read"
    <3> DEFINE q == [r EXCEPT !.tab = None]
    <3>1. saves' = (saves \ {r}) \cup {q}
      BY <2>2 DEF Settings!Becomes
    <3>2. SaveOK(q)
      BY <1>0 DEF SaveOK, SaveFields
    <3> HIDE DEF q
    <3> QED BY <3>1, <3>2 DEF SettingsInv, Saving
  <2> QED BY <2>1, <2>2 DEF Settings!SaveSucceeds, Settings!SaveFails
<1>2. CASE r.tab = None
  <2>1. settingsPage' = settingsPage
    BY <1>2 DEF Settings!SaveSucceeds, Settings!SaveFails
  <2> QED BY <1>0, <1>1, <1>2, <2>1, NoPage
<1>3. CASE r.tab # None /\ Settings!SaveSucceeds(r)
  <2> DEFINE t == r.tab
             q == settingsPage[t]
             x == Settings!Answered(q.data, r)
             p == Settings!Hears(q, x, r.of)
  <2>1. t \in Tabs /\ settingsPage' = [settingsPage EXCEPT ![t] = p] /\ r.step = "written"
    BY <1>0, <1>3 DEF SaveOK, Settings!SaveSucceeds
  <2>2. r.of \in 0..writes /\ (r.of = writes => x = StoredNow)
    BY <1>0, <2>1 DEF SaveOK, StoredNow, Settings!Answered
  <2>3. PageOK(q)
    BY <2>1 DEF SettingsInv
  <2> HIDE DEF x
  <2>4. DOMAIN p = PageFields /\ p.heard = r.of /\ p.ask = q.ask /\ p.data = x
    BY <2>3 DEF PageOK, PageFields, Settings!Hears, Settings!SetQueryData
  <2> HIDE DEF p
  <2>5. PageOK(p) /\ ShowsOrOwes(p, Saving(t)')
    BY <2>2, <2>3, <2>4 DEF PageOK, ShowsOrOwes
  <2> HIDE DEF t
  <2>6. \A u \in Tabs \ {t} : Saving(u) => Saving(u)'
    BY <1>1 DEF t
  <2> QED BY <1>0, <1>1, <2>1, <2>5, <2>6, OnePage
<1>4. CASE r.tab # None /\ Settings!SaveFails(r)
  <2> DEFINE t == r.tab
             q == settingsPage[t]
             p == [q EXCEPT !.unsaved = TRUE]
  <2>1. t \in Tabs /\ settingsPage' = [settingsPage EXCEPT ![t] = p]
    BY <1>0, <1>4 DEF SaveOK, Settings!SaveFails
  <2>3. PageOK(q)
    BY <2>1 DEF SettingsInv
  <2>4. DOMAIN p = PageFields /\ p.heard = q.heard /\ p.ask = q.ask /\ p.unsaved = TRUE
    BY <2>3 DEF PageOK, PageFields
  <2> HIDE DEF p
  <2>5. PageOK(p) /\ ShowsOrOwes(p, Saving(t)')
    BY <2>3, <2>4 DEF PageOK, ShowsOrOwes
  <2> HIDE DEF t
  <2>6. \A u \in Tabs \ {t} : Saving(u) => Saving(u)'
    BY <1>1 DEF t
  <2> QED BY <1>0, <1>1, <2>1, <2>5, <2>6, OnePage
<1> QED BY <1>2, <1>3, <1>4

LEMMA SettingsNext ==
    ASSUME SettingsInv, [Settings!Next]_(Settings!vars)
    PROVE  SettingsInv'
<1>1. ASSUME NEW r \in saves, Settings!Save(r) PROVE SettingsInv'
  BY <1>1, ReadKeeps, WriteKeeps, AnswerKeeps DEF Settings!Save
<1>2. CASE Settings!Revalidate
  <2>1. /\ UNCHANGED <<stored, writes, saves, settingsPage>>
        /\ copy' \in {copy, Settings!GetSettings}
    BY <1>2 DEF Settings!Revalidate
  <2>2. (\A x \in saves' : SaveOK(x)) /\ \A u : Saving(u) => Saving(u)'
    BY <2>1 DEF SettingsInv, Saving
  <2>3. copy' # None => AskOK(copy') /\ copy'.st = "back"
    BY <2>1, GotIsCurrent DEF SettingsInv
  <2> QED BY <2>1, <2>2, <2>3, NoPage
<1>3. CASE UNCHANGED Settings!vars
  <2>1. UNCHANGED <<stored, writes, saves, settingsPage, copy>>
    BY <1>3 DEF Settings!vars
  <2>2. (\A x \in saves' : SaveOK(x)) /\ \A u : Saving(u) => Saving(u)'
    BY <2>1 DEF SettingsInv, Saving
  <2>3. copy' # None => AskOK(copy') /\ copy'.st = "back"
    BY <2>1 DEF SettingsInv
  <2> QED BY <2>1, <2>2, <2>3, NoPage
<1> QED BY <1>1, <1>2, <1>3, QueryKeeps, ChoiceKeeps DEF Settings!Next

(* ShownIsStored: a page with nothing to save, nothing under way and no     *)
(* failed save shows what is stored, if it heard of the last write.         *)
THEOREM ShownAlwaysStored == Settings!Spec => []ShownIsStored
<1>1. SettingsInv => ShownIsStored
  BY DEF SettingsInv, ShownIsStored, Settings!ShownIsStored, Settings!Quiet, Settings!Ready,
         ShowsOrOwes, Saving, StoredNow
<1> QED BY <1>1, SettingsBegin, SettingsNext, PTL DEF Settings!Spec

(* Only a write changes what is stored, and only of what it names or where  *)
(* it is not of the row it has read.                                        *)
LEMMA WriteSpares ==
    ASSUME SettingsInv, [Settings!Next]_(Settings!vars),
           NEW f \in Settings!Fields,
           Settings!MergeWithDefaults(stored')[f] # Settings!MergeWithDefaults(stored)[f]
    PROVE  \E r \in saves \ saves' : /\ r.step = "read"
                                     /\ f \in DOMAIN r.incoming \/ r.of # writes
<1>1. stored' # stored
  OBVIOUS
<1>2. PICK r \in saves : Settings!UpdatePreferences(r)
  BY <1>1 DEF Settings!Next, Settings!vars, Settings!Query, Settings!Mount, Settings!RefetchOnFocus,
     Settings!FetchSettings, Settings!Serve, Settings!Arrive, Settings!FetchFails, Settings!Choice,
     Settings!HandleThemeChange, Settings!HandlePageSizeChange, Settings!HandleNotificationsChange,
     Settings!HandleAutoMarkReadChange, Settings!HandleLater, Settings!TypeProfile,
     Settings!TimerFires, Settings!HandleSave, Settings!Reopen, Settings!Save,
     Settings!ReadExisting, Settings!SaveSucceeds, Settings!SaveFails, Settings!Revalidate
<1>3. r \notin saves' /\ r.step = "read"
  BY <1>2 DEF Settings!UpdatePreferences, Settings!Becomes, SettingsInv, SaveOK, SaveFields
<1>4. ASSUME f \notin DOMAIN r.incoming, r.of = writes PROVE FALSE
  <2>1. r.existing = stored
    BY <1>3, <1>4 DEF SettingsInv, SaveOK
  <2>2. stored' = Settings!Over(r.incoming, stored)
    BY <1>2, <2>1 DEF Settings!UpdatePreferences, Settings!Merged
  <2>3. stored'[f] = stored[f]
    BY <1>4, <2>2 DEF Settings!Over
  <2> QED BY <2>3 DEF Settings!MergeWithDefaults
<1> QED BY <1>3, <1>4

(* NeighboursKept: a save changes no setting that it does not name, unless  *)
(* another save wrote the row after it was read.                            *)
THEOREM NeighboursAlwaysKept == Settings!Spec => NeighboursKept
<1>1. SettingsInv /\ [Settings!Next]_(Settings!vars) =>
        [\A f \in Settings!Fields :
           Settings!MergeWithDefaults(stored')[f] # Settings!MergeWithDefaults(stored)[f] =>
           \E r \in saves \ saves' : /\ r.step = "read"
                                     /\ f \in DOMAIN r.incoming \/ r.of # writes]_(Settings!vars)
  BY WriteSpares
<1> QED BY <1>1, SettingsBegin, SettingsNext, PTL
        DEF Settings!Spec, NeighboursKept, Settings!NeighboursKept

-----------------------------------------------------------------------------
(* The run checks the two at once: a step of one is none of the other.      *)
LEMMA PagesApart == MCSpec => Spec /\ Settings!Spec
<1>1. [MCNext]_<<vars, prefs>> => [Next]_vars /\ [Settings!Next]_(Settings!vars)
  BY DEF MCNext, prefs, Settings!vars
<1>2. MCInit => Init /\ Settings!Init
  BY DEF MCInit
<1> QED BY <1>1, <1>2, PTL DEF MCSpec, Spec, Settings!Spec

(* What the run checks of the two pages holds of all that it could check.   *)
THEOREM ClientSafety ==
    MCSpec => /\ []OnePressNeverDestroys /\ []NoLeftovers
              /\ []ShownIsStored /\ NeighboursKept
BY PagesApart, OnePressSpares, NothingLeftOver, ShownAlwaysStored, NeighboursAlwaysKept, PTL
=============================================================================
