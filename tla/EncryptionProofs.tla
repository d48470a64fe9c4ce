-------------------------- MODULE EncryptionProofs --------------------------
(* Proofs about the keys of an account (Keys), for any number of dialogs,  *)
(* readers, mails, uploads, prekeys and failures; about the double ratchet *)
(* (Ratchet), for any size of the cache, any number of messages and        *)
(* whatever the network loses, repeats or reorders; and about the wizard   *)
(* that makes the first keys (Onboarding), for any number of tabs,         *)
(* accounts and domains.                                                   *)
EXTENDS Keys, Ratchet, Onboarding, FiniteSetTheorems, SequenceTheorems, TLAPS

(***************************************************************************)
(* Keys.  TypeCorrect: the types.  OneTimeAlways: a one-time prekey goes   *)
(* to one reader (OnceInv).  KeyAlwaysKept: every stored key is in a file  *)
(* (KeptInv).  FreshMailAlwaysOpens: a tab opens the mail of its own time  *)
(* (FreshInv).  Each strengthening holds with TypeInv, and is shown step   *)
(* by step from the frame of the actions that do not concern it.           *)
(***************************************************************************)

(***************************************************************************)
(* Types                                                                   *)
(***************************************************************************)
Names == Fresh \cup {First}
Row == [key : Names, pass : Passphrases, stamp : Nat, active : BOOLEAN]
PrekeyRow == [by : Flows, name : OneTimes \cup {None}, signed : BOOLEAN, stamp : Nat, used : BOOLEAN]
Copy == [key : Names, pass : Passphrases, seen : Nat]
Held == [key : Names \cup {None}, pass : Passphrases \cup {None}, seen : Nat,
         making : SUBSET Fresh, downloaded : BOOLEAN, confirmed : BOOLEAN,
         one : PrekeyRow \cup {None}]
UploadType == [by : Flows, key : Names, pass : Passphrases,
               phase : {"sent", "begun", "waiting", "locked"}, stamp : Nat, seen : Nat,
               took : SUBSET Row]

Points == {"idle", "passphrase", "generating", "export", "error",        \* the dialogs,
           "read", "processing", "success", "open",                      \* the readers,
           "encrypt", "stored", "signed", "candidate", "notfound", "claim", "bundle"}

(* The tables, requests and pages have the shape of the code's records.    *)
TypeOK ==
    /\ \E s \in Scenarios : kind = s.flows /\ sw = s.sw
    /\ cache \in Copy \cup {None} /\ asking \in BOOLEAN
    /\ faults \in Nat /\ clock \in Nat /\ version \in Nat
    /\ at \in [Flows -> Points]
    /\ mem \in [Flows -> Held]
    /\ rows \subseteq Row /\ prekeys \subseteq PrekeyRow /\ uploads \subseteq UploadType
    /\ raced \subseteq Nat /\ retired \subseteq Names
    /\ backups \subseteq Names \cup {None} /\ crossed \subseteq Names

(* What tabs and dialogs hold; what a reader has fetched has a key, and    *)
(* only rotations make keys.                                               *)
PagesTyped ==
    /\ at \in [Flows -> Points] /\ mem \in [Flows -> Held]
    /\ \A f \in Flows : at[f] = "read" => mem[f].key # None
    /\ \A f \in Flows : mem[f].making # {} => Rotates(f)

(* Only rotations and changes of the passphrase upload.                    *)
TypeInv == TypeOK /\ PagesTyped /\ \A u \in uploads : Rotates(u.by) \/ kind[u.by].op = "change"

LEMMA KindTyped ==
    ASSUME TypeOK
    PROVE  \A f \in Flows : kind[f].pass \in Passphrases
BY KeysAssumption DEF TypeOK, KeysAssumption

LEMMA BlankTyped == Blank \in Held
BY DEF Blank, Held

LEMMA InitTyped == Init => TypeInv
<1> SUFFICES ASSUME Init PROVE TypeInv
  OBVIOUS
<1>1. PagesTyped
  <2>1. at \in [Flows -> Points] /\ \A f \in Flows : at[f] # "read"
    BY DEF Init, Points
  <2>2. mem \in [Flows -> Held] /\ \A f \in Flows : mem[f] = Blank
    BY BlankTyped DEF Init
  <2>3. Blank.making = {}
    BY DEF Blank
  <2> QED BY <2>1, <2>2, <2>3 DEF PagesTyped
<1>2. rows \subseteq Row
  BY DEF Init, Row, Names, Passphrases
<1>3. TypeOK
  BY <1>1, <1>2, KeysAssumption DEF Init, TypeOK, PagesTyped, KeysAssumption, Names
<1> QED BY <1>1, <1>3 DEF Init, TypeInv

(* A step of one page.                                                     *)
LEMMA KeptFields ==
    ASSUME mem \in [Flows -> Held], NEW f \in Flows, NEW m \in Held, Keep(f, m)
    PROVE  mem' \in [Flows -> Held] /\ mem'[f] = m /\ \A g \in Flows \ {f} : mem'[g] = mem[g]
BY DEF Keep

LEMMA Moved ==
    ASSUME at \in [Flows -> Points], NEW f \in Flows, NEW q \in Points, Move(f, q)
    PROVE  at' \in [Flows -> Points] /\ at'[f] = q /\ \A g \in Flows \ {f} : at'[g] = at[g]
BY DEF Move

LEMMA PageStep ==
    ASSUME TypeInv, NEW f \in Flows, kind' = kind,
           mem' \in [Flows -> Held], at' \in [Flows -> Points],
           \A g \in Flows \ {f} : mem'[g] = mem[g] /\ at'[g] = at[g],
           at'[f] = "read" => mem'[f].key # None,
           mem'[f].making # {} => Rotates(f)
    PROVE  PagesTyped'
BY DEF TypeInv, PagesTyped, Rotates

(* The dialog of a rotation.                                               *)
LEMMA DialogTyped == ASSUME TypeInv, NEW f \in Flows, Dialog(f) PROVE TypeInv'
<1>0. /\ TypeOK /\ PagesTyped /\ Blank \in Held
      /\ at \in [Flows -> Points] /\ mem \in [Flows -> Held]
      /\ \A g \in Flows : mem[g] \in Held
  BY BlankTyped DEF TypeInv, TypeOK
<1>1. CASE ResetState(f)
  <2> DEFINE m == [Blank EXCEPT !.making = mem[f].making]
             q == "idle"
  <2>1. m \in Held /\ (m.making # {} => Rotates(f))
    BY <1>0, <1>1, KeysAssumption DEF Held, PagesTyped, ResetState, Names, Copy, KeysAssumption
  <2>2. Keep(f, m) /\ kind' = kind
    BY <1>1 DEF ResetState
  <2>3. q \in Points /\ Move(f, q) /\ q # "read"
    BY <1>1 DEF ResetState, Points
  <2> HIDE DEF m, q
  <2>4. PagesTyped'
    BY <1>0, <2>1, <2>2, <2>3, KeptFields, Moved, PageStep DEF PagesTyped
  <2>5. TypeOK'
    BY <1>0, <1>1, <2>4 DEF TypeOK, PagesTyped, ResetState, worker, server, Held, Fault, Names
  <2>6. QED
    BY <2>2, <2>4, <2>5, <1>1 DEF TypeInv, ResetState, Rotates
<1>2. CASE HandleGenerate(f)
  <2>1. PICK k \in Fresh : Keep(f, [mem[f] EXCEPT !.making = @ \cup {k}]) /\ Rotates(f)
    BY <1>2 DEF HandleGenerate
  <2> DEFINE m == [mem[f] EXCEPT !.making = @ \cup {k}]
             q == "generating"
  <2>2. m \in Held /\ (m.making # {} => Rotates(f))
    BY <1>0, <2>1, KeysAssumption DEF Held, PagesTyped, HandleGenerate, Names, Copy, KeysAssumption
  <2>3. Keep(f, m) /\ kind' = kind
    BY <1>2, <2>1 DEF HandleGenerate
  <2>4. q \in Points /\ Move(f, q) /\ q # "read"
    BY <1>2 DEF HandleGenerate, Points
  <2> HIDE DEF m, q
  <2>5. PagesTyped'
    BY <1>0, <2>2, <2>3, <2>4, KeptFields, Moved, PageStep DEF PagesTyped
  <2>6. TypeOK'
    BY <1>0, <1>2, <2>5, <2>1 DEF TypeOK, PagesTyped, HandleGenerate, worker, server, Held, Fault, Names
  <2>7. QED
    BY <2>3, <2>5, <2>6, <1>2 DEF TypeInv, HandleGenerate, Rotates
<1>3. ASSUME NEW k \in Fresh, Generated(f, k) PROVE TypeInv'
  <2> DEFINE m == [mem[f] EXCEPT !.key = k, !.making = @ \ {k}]
             q == "export"
  <2>1. m \in Held /\ (m.making # {} => Rotates(f))
    BY <1>0, <1>3, KeysAssumption DEF Held, PagesTyped, Generated, Names, Copy, KeysAssumption
  <2>2. Keep(f, m) /\ kind' = kind
    BY <1>3 DEF Generated
  <2>3. q \in Points /\ Move(f, q) /\ q # "read"
    BY <1>3 DEF Generated, Points
  <2> HIDE DEF m, q
  <2>4. PagesTyped'
    BY <1>0, <2>1, <2>2, <2>3, KeptFields, Moved, PageStep DEF PagesTyped
  <2>5. TypeOK'
    BY <1>0, <1>3, <2>4 DEF TypeOK, PagesTyped, Generated, worker, server, Held, Fault, Names
  <2>6. QED
    BY <2>2, <2>4, <2>5, <1>3 DEF TypeInv, Generated, Rotates
<1>4. ASSUME NEW k \in Fresh, GenerateFails(f, k) PROVE TypeInv'
  <2> DEFINE m == [mem[f] EXCEPT !.making = @ \ {k}]
             q == "error"
  <2>1. m \in Held /\ (m.making # {} => Rotates(f))
    BY <1>0, <1>4, KeysAssumption DEF Held, PagesTyped, GenerateFails, Names, Copy, KeysAssumption
  <2>2. Keep(f, m) /\ kind' = kind
    BY <1>4 DEF GenerateFails
  <2>3. q \in Points /\ Move(f, q) /\ q # "read"
    BY <1>4 DEF GenerateFails, Points
  <2> HIDE DEF m, q
  <2>4. PagesTyped'
    BY <1>0, <2>1, <2>2, <2>3, KeptFields, Moved, PageStep DEF PagesTyped
  <2>5. TypeOK'
    BY <1>0, <1>4, <2>4 DEF TypeOK, PagesTyped, GenerateFails, worker, server, Held, Fault, Names
  <2>6. QED
    BY <2>2, <2>4, <2>5, <1>4 DEF TypeInv, GenerateFails, Rotates
<1>5. CASE HandleDownloadNewKeys(f)
  <2> DEFINE m == [mem[f] EXCEPT !.downloaded = TRUE]
  <2>1. m \in Held /\ (m.making # {} => Rotates(f))
    BY <1>0, <1>5, KeysAssumption DEF Held, PagesTyped, HandleDownloadNewKeys, Names, Copy, KeysAssumption
  <2>2. Keep(f, m) /\ kind' = kind
    BY <1>5 DEF HandleDownloadNewKeys
  <2>3. at' = at /\ at[f] # "read"
    BY <1>5 DEF HandleDownloadNewKeys
  <2> HIDE DEF m
  <2>4. PagesTyped'
    BY <1>0, <2>1, <2>2, <2>3, KeptFields, PageStep DEF PagesTyped
  <2>5. TypeOK'
    BY <1>0, <1>5, <2>4 DEF TypeOK, PagesTyped, HandleDownloadNewKeys, worker, server, Held, Fault, Names
  <2>6. QED
    BY <2>2, <2>4, <2>5, <1>5 DEF TypeInv, HandleDownloadNewKeys, Rotates
<1>6. CASE TickBackup(f)
  <2> DEFINE m == [mem[f] EXCEPT !.confirmed = ~@]
  <2>1. m \in Held /\ (m.making # {} => Rotates(f))
    BY <1>0, <1>6, KeysAssumption DEF Held, PagesTyped, TickBackup, Names, Copy, KeysAssumption
  <2>2. Keep(f, m) /\ kind' = kind
    BY <1>6 DEF TickBackup
  <2>3. at' = at /\ at[f] # "read"
    BY <1>6 DEF TickBackup
  <2> HIDE DEF m
  <2>4. PagesTyped'
    BY <1>0, <2>1, <2>2, <2>3, KeptFields, PageStep DEF PagesTyped
  <2>5. TypeOK'
    BY <1>0, <1>6, <2>4 DEF TypeOK, PagesTyped, TickBackup, worker, server, Held, Fault, Names
  <2>6. QED
    BY <2>2, <2>4, <2>5, <1>6 DEF TypeInv, TickBackup, Rotates
<1>7. CASE HandleCompleteRotation(f)
  <2> DEFINE q == "generating"
  <2>1. mem' = mem /\ kind' = kind
    BY <1>7 DEF HandleCompleteRotation
  <2>2. q \in Points /\ Move(f, q) /\ q # "read"
    BY <1>7 DEF HandleCompleteRotation, Points
  <2> HIDE DEF q
  <2>3. PagesTyped'
    BY <1>0, <2>1, <2>2, Moved, PageStep DEF PagesTyped
  <2>4. uploads' \subseteq UploadType /\ \A u \in uploads' : u \in uploads \/ u.by = f
    BY <1>0, <1>7, KindTyped DEF HandleCompleteRotation, TypeOK, PagesTyped, Post, UploadType, Held, MayComplete, Rotates
  <2>5. TypeOK'
    BY <1>0, <1>7, <2>3, <2>4 DEF TypeOK, PagesTyped, HandleCompleteRotation, worker, server, Held, Fault, Names
  <2>6. QED
    BY <2>1, <2>3, <2>5, <1>7, <2>4 DEF TypeInv, HandleCompleteRotation, Rotates
<1>8. CASE TryAgain(f)
  <2> DEFINE q == IF Rotates(f) THEN IF mem[f].key # None THEN "export" ELSE "passphrase"
                  ELSE "idle"
  <2>1. mem' = mem /\ kind' = kind
    BY <1>8 DEF TryAgain
  <2>2. q \in Points /\ Move(f, q) /\ q # "read"
    BY <1>8 DEF TryAgain, Points
  <2> HIDE DEF q
  <2>3. PagesTyped'
    BY <1>0, <2>1, <2>2, Moved, PageStep DEF PagesTyped
  <2>4. TypeOK'
    BY <1>0, <1>8, <2>3 DEF TypeOK, PagesTyped, TryAgain, worker, server, Held, Fault, Names
  <2>5. QED
    BY <2>1, <2>3, <2>4, <1>8 DEF TypeInv, TryAgain, Rotates
<1> QED BY <1>1, <1>2, <1>3, <1>4, <1>5, <1>6, <1>7, <1>8 DEF Dialog

(* The readers of GET /keys/export.                                        *)
LEMMA ReaderTyped == ASSUME TypeInv, NEW f \in Flows, Reader(f) PROVE TypeInv'
<1>0. /\ TypeOK /\ PagesTyped /\ Blank \in Held
      /\ at \in [Flows -> Points] /\ mem \in [Flows -> Held]
      /\ \A g \in Flows : mem[g] \in Held
  BY BlankTyped DEF TypeInv, TypeOK
<1>1. CASE FetchEncryptedKeys(f)
  <2>a. Exported \subseteq Copy
    BY <1>0 DEF Exported, FetchActiveKeys, Newest, Active, TypeOK, Row, Copy
  <2>1. PICK e \in Copy :
               /\ Keep(f, [mem[f] EXCEPT !.key = e.key, !.pass = e.pass, !.seen = e.seen])
               /\ cache' = IF sw THEN e ELSE None
    BY <1>0, <1>1, <2>a DEF FetchEncryptedKeys, TypeOK
  <2> DEFINE m == [mem[f] EXCEPT !.key = e.key, !.pass = e.pass, !.seen = e.seen]
             q == "read"
  <2>2. m \in Held /\ (m.making # {} => Rotates(f)) /\ m.key # None
    BY <1>0, <2>1, KeysAssumption DEF Held, PagesTyped, FetchEncryptedKeys, Names, Copy, KeysAssumption
  <2>3. Keep(f, m) /\ kind' = kind
    BY <1>1, <2>1 DEF FetchEncryptedKeys
  <2>4. q \in Points /\ Move(f, q)
    BY <1>1 DEF FetchEncryptedKeys, Points
  <2> HIDE DEF m, q
  <2>5. PagesTyped'
    BY <1>0, <2>2, <2>3, <2>4, KeptFields, Moved, PageStep DEF PagesTyped
  <2>6. TypeOK'
    BY <1>0, <1>1, <2>5, <2>1 DEF TypeOK, PagesTyped, FetchEncryptedKeys, worker, server, Held, Fault, Names
  <2>7. QED
    BY <2>3, <2>5, <2>6, <1>1 DEF TypeInv, FetchEncryptedKeys, Rotates
<1>2. CASE FetchFails(f)
  <2> DEFINE q == IF kind[f].op = "unlock" THEN "open" ELSE "error"
  <2>1. mem' = mem /\ kind' = kind
    BY <1>2 DEF FetchFails
  <2>2. q \in Points /\ Move(f, q) /\ q # "read"
    BY <1>2 DEF FetchFails, Points
  <2> HIDE DEF q
  <2>3. PagesTyped'
    BY <1>0, <2>1, <2>2, Moved, PageStep DEF PagesTyped
  <2>4. TypeOK'
    BY <1>0, <1>2, <2>3 DEF TypeOK, PagesTyped, FetchFails, worker, server, Held, Fault, Names
  <2>5. QED
    BY <2>1, <2>3, <2>4, <1>2 DEF TypeInv, FetchFails, Rotates
<1>3. CASE HandleChangePassphrase(f)
  <2> DEFINE q == IF Opens(f) THEN "processing" ELSE "error"
  <2>1. mem' = mem /\ kind' = kind
    BY <1>3 DEF HandleChangePassphrase
  <2>2. q \in Points /\ Move(f, q) /\ q # "read"
    BY <1>3 DEF HandleChangePassphrase, Points
  <2> HIDE DEF q
  <2>3. PagesTyped'
    BY <1>0, <2>1, <2>2, Moved, PageStep DEF PagesTyped
  <2>4. uploads' \subseteq UploadType /\ \A u \in uploads' : u \in uploads \/ u.by = f
    BY <1>0, <1>3, KindTyped DEF HandleChangePassphrase, TypeOK, PagesTyped, Post, UploadType, Held, MayComplete, Rotates
  <2>5. TypeOK'
    BY <1>0, <1>3, <2>3, <2>4 DEF TypeOK, PagesTyped, HandleChangePassphrase, worker, server, Held, Fault, Names
  <2>6. QED
    BY <2>1, <2>3, <2>5, <1>3, <2>4 DEF TypeInv, HandleChangePassphrase, Rotates
<1>4. CASE HandleExport(f)
  <2> DEFINE q == IF Opens(f) THEN "success" ELSE "error"
  <2>1. mem' = mem /\ kind' = kind
    BY <1>4 DEF HandleExport
  <2>2. q \in Points /\ Move(f, q) /\ q # "read"
    BY <1>4 DEF HandleExport, Points
  <2> HIDE DEF q
  <2>3. PagesTyped'
    BY <1>0, <2>1, <2>2, Moved, PageStep DEF PagesTyped
  <2>4. TypeOK'
    BY <1>0, <1>4, <2>3 DEF TypeOK, PagesTyped, HandleExport, worker, server, Held, Fault, Names
  <2>5. QED
    BY <2>1, <2>3, <2>4, <1>4 DEF TypeInv, HandleExport, Rotates
<1>5. CASE Unlock(f)
  <2> DEFINE m == IF Opens(f) THEN mem[f] ELSE Blank
             q == "open"
  <2>1. m \in Held /\ (m.making # {} => Rotates(f))
    BY <1>0, <1>5, KeysAssumption DEF Held, PagesTyped, Unlock, Names, Copy, KeysAssumption, Blank
  <2>2. Keep(f, m) /\ kind' = kind
    BY <1>5 DEF Unlock
  <2>3. q \in Points /\ Move(f, q) /\ q # "read"
    BY <1>5 DEF Unlock, Points
  <2> HIDE DEF m, q
  <2>4. PagesTyped'
    BY <1>0, <2>1, <2>2, <2>3, KeptFields, Moved, PageStep DEF PagesTyped
  <2>5. TypeOK'
    BY <1>0, <1>5, <2>4 DEF TypeOK, PagesTyped, Unlock, worker, server, Held, Fault, Names
  <2>6. QED
    BY <2>2, <2>4, <2>5, <1>5 DEF TypeInv, Unlock, Rotates
<1> QED BY <1>1, <1>2, <1>3, <1>4, <1>5 DEF Reader

(* The inbound worker.                                                     *)
LEMMA DeliveryTyped == ASSUME TypeInv, NEW f \in Flows, Delivery(f) PROVE TypeInv'
<1>0. /\ TypeOK /\ PagesTyped /\ Blank \in Held
      /\ at \in [Flows -> Points] /\ mem \in [Flows -> Held]
      /\ \A g \in Flows : mem[g] \in Held
  BY BlankTyped DEF TypeInv, TypeOK
<1>1. CASE FindActiveX25519PublicKey(f)
  <2>1. PICK r \in Row : Keep(f, [Blank EXCEPT !.key = r.key, !.seen = version])
    BY <1>0, <1>1 DEF FindActiveX25519PublicKey, Active, TypeOK
  <2> DEFINE m == [Blank EXCEPT !.key = r.key, !.seen = version]
             q == "encrypt"
  <2>2. m \in Held /\ (m.making # {} => Rotates(f))
    BY <1>0, <2>1, KeysAssumption DEF Held, PagesTyped, FindActiveX25519PublicKey, Names, Copy, KeysAssumption, Blank, Row, TypeOK
  <2>3. Keep(f, m) /\ kind' = kind
    BY <1>1, <2>1 DEF FindActiveX25519PublicKey
  <2>4. q \in Points /\ Move(f, q) /\ q # "read"
    BY <1>1 DEF FindActiveX25519PublicKey, Points
  <2> HIDE DEF m, q
  <2>5. PagesTyped'
    BY <1>0, <2>2, <2>3, <2>4, KeptFields, Moved, PageStep DEF PagesTyped
  <2>6. TypeOK'
    BY <1>0, <1>1, <2>5, <2>1 DEF TypeOK, PagesTyped, FindActiveX25519PublicKey, worker, server, Held, Fault, Names
  <2>7. QED
    BY <2>3, <2>5, <2>6, <1>1 DEF TypeInv, FindActiveX25519PublicKey, Rotates
<1>2. CASE StoreMail(f)
  <2> DEFINE q == "stored"
  <2>1. mem' = mem /\ kind' = kind
    BY <1>2 DEF StoreMail
  <2>2. q \in Points /\ Move(f, q) /\ q # "read"
    BY <1>2 DEF StoreMail, Points
  <2> HIDE DEF q
  <2>3. PagesTyped'
    BY <1>0, <2>1, <2>2, Moved, PageStep DEF PagesTyped
  <2>4. TypeOK'
    BY <1>0, <1>2, <2>3 DEF TypeOK, PagesTyped, StoreMail, worker, server, Held, Fault, Names
  <2>5. QED
    BY <2>1, <2>3, <2>4, <1>2 DEF TypeInv, StoreMail, Rotates
<1> QED BY <1>1, <1>2 DEF Delivery

(* Uploads and readers of prekeys.                                         *)
LEMMA PrekeyingTyped == ASSUME TypeInv, NEW f \in Flows, Prekeying(f) PROVE TypeInv'
<1>0. /\ TypeOK /\ PagesTyped /\ Blank \in Held
      /\ at \in [Flows -> Points] /\ mem \in [Flows -> Held]
      /\ \A g \in Flows : mem[g] \in Held
  BY BlankTyped DEF TypeInv, TypeOK
<1>1. CASE InsertSigned(f)
  <2> DEFINE q == "signed"
  <2>1. mem' = mem /\ kind' = kind
    BY <1>1 DEF InsertSigned
  <2>2. q \in Points /\ Move(f, q) /\ q # "read"
    BY <1>1 DEF InsertSigned, Points
  <2> HIDE DEF q
  <2>3. PagesTyped'
    BY <1>0, <2>1, <2>2, Moved, PageStep DEF PagesTyped
  <2>4. prekeys' \subseteq PrekeyRow /\ clock' \in Nat
    <3>0. clock + 1 \in Nat
      BY <1>0 DEF TypeOK
    <3>1. Prekey(f, None, TRUE) \in PrekeyRow
      BY <3>0 DEF Prekey, PrekeyRow
    <3> QED BY <1>0, <1>1, <3>0, <3>1 DEF InsertSigned, TypeOK
  <2>5. TypeOK'
    BY <1>0, <1>1, <2>3, <2>4 DEF TypeOK, PagesTyped, InsertSigned, worker, server, Held, Fault, Names
  <2>6. QED
    BY <2>1, <2>3, <2>5, <1>1, <2>4 DEF TypeInv, InsertSigned, Rotates
<1>2. CASE InsertOneTimes(f)
  <2>1. clock + 1 \in Nat
    BY <1>0 DEF TypeOK
  <2>2. \A n \in OneTimes : Prekey(f, n, FALSE) \in PrekeyRow
    BY <2>1 DEF Prekey, PrekeyRow
  <2>3. prekeys' \subseteq PrekeyRow /\ clock' \in Nat /\ faults' \in Nat
    <3>1. prekeys' = prekeys \/ prekeys' = prekeys \cup {Prekey(f, n, FALSE) : n \in OneTimes}
      BY <1>2 DEF InsertOneTimes
    <3>2. prekeys \subseteq PrekeyRow /\ clock \in Nat /\ faults \in Nat
      BY <1>0 DEF TypeOK
    <3>3. {Prekey(f, n, FALSE) : n \in OneTimes} \subseteq PrekeyRow
      BY <2>2
    <3>4. prekeys' \subseteq PrekeyRow
      BY <3>1, <3>2, <3>3
    <3>5. faults' \in Nat
      <4>1. faults' = faults \/ Fault
        BY <1>2 DEF InsertOneTimes
      <4> QED BY <3>2, <4>1 DEF Fault
    <3>6. clock' \in Nat
      BY <1>2, <2>1, <3>2 DEF InsertOneTimes
    <3> QED BY <3>4, <3>5, <3>6
  <2>4. PICK q \in {"success", "error"} : Move(f, q)
    BY <1>2 DEF InsertOneTimes
  <2>5. q \in Points /\ q # "read"
    BY DEF Points
  <2>6. mem' = mem /\ kind' = kind
    BY <1>2 DEF InsertOneTimes
  <2>7. PagesTyped'
    BY <1>0, <2>4, <2>5, <2>6, Moved, PageStep DEF PagesTyped
  <2>8. TypeOK'
    BY <1>0, <1>2, <2>3, <2>7 DEF TypeOK, PagesTyped, InsertOneTimes, worker
  <2> QED BY <1>2, <2>6, <2>7, <2>8 DEF TypeInv, InsertOneTimes, Rotates
<1>3. CASE ReadSigned(f)
  <2> DEFINE q == IF Active = {} \/ Unused(TRUE) = {} THEN "notfound" ELSE "candidate"
  <2>1. mem' = mem /\ kind' = kind
    BY <1>3 DEF ReadSigned
  <2>2. q \in Points /\ Move(f, q) /\ q # "read"
    BY <1>3 DEF ReadSigned, Points
  <2> HIDE DEF q
  <2>3. PagesTyped'
    BY <1>0, <2>1, <2>2, Moved, PageStep DEF PagesTyped
  <2>4. TypeOK'
    BY <1>0, <1>3, <2>3 DEF TypeOK, PagesTyped, ReadSigned, worker, server, Held, Fault, Names
  <2>5. QED
    BY <2>1, <2>3, <2>4, <1>3 DEF TypeInv, ReadSigned, Rotates
<1>4. CASE ReadCandidate(f)
  <2>1. CASE Unused(FALSE) = {}
    <3>1. Move(f, "bundle") /\ "bundle" \in Points /\ "bundle" # "read"
      BY <1>4, <2>1 DEF ReadCandidate, Points
    <3>2. mem' = mem /\ kind' = kind
      BY <1>4, <2>1 DEF ReadCandidate
    <3>3. PagesTyped'
      BY <1>0, <3>1, <3>2, Moved, PageStep DEF PagesTyped
    <3>4. TypeOK'
      BY <1>0, <1>4, <3>3 DEF TypeOK, PagesTyped, ReadCandidate, worker, server
    <3> QED BY <1>4, <3>2, <3>3, <3>4 DEF TypeInv, ReadCandidate, Rotates
  <2>2. CASE Unused(FALSE) # {}
    <3>1. PICK p \in PrekeyRow : Keep(f, [mem[f] EXCEPT !.one = p])
      BY <1>0, <1>4, <2>2 DEF ReadCandidate, Oldest, Unused, TypeOK
    <3> DEFINE m == [mem[f] EXCEPT !.one = p]
    <3>2. m \in Held /\ (m.making # {} => Rotates(f))
      BY <1>0 DEF Held, PagesTyped
    <3>3. Keep(f, m) /\ kind' = kind
      BY <1>4, <3>1 DEF ReadCandidate
    <3> HIDE DEF m
    <3>4. Move(f, "claim") /\ "claim" \in Points /\ "claim" # "read"
      BY <1>4, <2>2 DEF ReadCandidate, Points
    <3>5. PagesTyped'
      BY <1>0, <3>2, <3>3, <3>4, KeptFields, Moved, PageStep DEF PagesTyped
    <3>6. TypeOK'
      BY <1>0, <1>4, <3>5 DEF TypeOK, PagesTyped, ReadCandidate, worker, server
    <3> QED BY <1>4, <3>3, <3>5, <3>6 DEF TypeInv, ReadCandidate, Rotates
  <2> QED BY <2>1, <2>2
<1>5. CASE Claim(f)
  <2>1. Move(f, "bundle") /\ "bundle" \in Points /\ "bundle" # "read" /\ kind' = kind
    BY <1>5 DEF Claim, Points
  <2>2. CASE Won(f)
    <3>1. mem' = mem
      BY <1>5, <2>2 DEF Claim
    <3>2. PagesTyped'
      BY <1>0, <2>1, <3>1, Moved, PageStep DEF PagesTyped
    <3>3. mem[f].one \in PrekeyRow
      BY <1>0, <2>2 DEF Won, TypeOK
    <3>4. [mem[f].one EXCEPT !.used = TRUE] \in PrekeyRow
      BY <3>3 DEF PrekeyRow
    <3>5. prekeys' \subseteq PrekeyRow
      BY <1>0, <1>5, <2>2, <3>4 DEF Claim, TypeOK
    <3>6. TypeOK'
      BY <1>0, <1>5, <3>2, <3>5 DEF TypeOK, PagesTyped, Claim, worker, server
    <3> QED BY <1>5, <2>1, <3>2, <3>6 DEF TypeInv, Claim, Rotates
  <2>3. CASE ~Won(f)
    <3>1. Keep(f, Blank) /\ Blank.making = {}
      BY <1>5, <2>3 DEF Claim, Blank
    <3>2. PagesTyped'
      BY <1>0, <2>1, <3>1, KeptFields, Moved, PageStep DEF PagesTyped
    <3>3. TypeOK'
      BY <1>0, <1>5, <2>3, <3>2 DEF TypeOK, PagesTyped, Claim, worker, server
    <3> QED BY <1>5, <2>1, <3>2, <3>3 DEF TypeInv, Claim, Rotates
  <2> QED BY <2>2, <2>3
<1> QED BY <1>1, <1>2, <1>3, <1>4, <1>5 DEF Prekeying

(* The uploads.                                                            *)
LEMMA UploadTyped ==
    ASSUME TypeInv, NEW u \in uploads, Upload(u)
    PROVE  TypeInv'
<1>0. /\ TypeOK /\ PagesTyped /\ u \in UploadType /\ u.by \in Flows
      /\ Rotates(u.by) \/ kind[u.by].op = "change"
  BY DEF TypeInv, TypeOK, UploadType
<1> DEFINE Rest == /\ kind' = kind /\ mem' = mem /\ worker' = worker
                   /\ backups' = backups /\ crossed' = crossed /\ prekeys' = prekeys
<1>1. ASSUME Rest, at' = at, faults' = faults, version' = version, rows' = rows,
             raced' = raced, retired' = retired, clock' \in Nat,
             NEW v \in UploadType, Replace(u, v), v.by = u.by
      PROVE  TypeInv'
  <2>1. PagesTyped'
    BY <1>0, <1>1 DEF PagesTyped, Rotates
  <2>2. uploads' \subseteq UploadType
    BY <1>0, <1>1 DEF Replace, TypeOK
  <2>3. TypeOK'
    BY <1>0, <1>1, <2>1, <2>2 DEF TypeOK, PagesTyped, worker
  <2> QED BY <1>0, <1>1, <2>1, <2>3 DEF TypeInv, Replace, Rotates
<1>2. ASSUME Rest, faults' \in Nat, version' \in Nat, clock' \in Nat, rows' \subseteq Row,
             raced' \subseteq Nat, retired' \subseteq Names,
             uploads' = uploads \ {u}, NEW q \in {"success", "error"}, Answer(u.by, q)
      PROVE  TypeInv'
  <2>1. Move(u.by, q) /\ q \in Points /\ q # "read"
    BY <1>2 DEF Answer, Move, Points
  <2>2. at' \in [Flows -> Points] /\ at'[u.by] = q /\ \A g \in Flows \ {u.by} : at'[g] = at[g]
    BY <1>0, <2>1, Moved DEF PagesTyped
  <2>3. PagesTyped'
    BY <1>0, <1>2, <2>1, <2>2 DEF PagesTyped, Rotates
  <2>4. TypeOK'
    BY <1>0, <1>2, <2>3 DEF TypeOK, PagesTyped, worker
  <2> QED BY <1>2, <2>3, <2>4 DEF TypeInv, Rotates
<1>3. CASE BeginUpload(u)
  <2> DEFINE v == [u EXCEPT !.phase = "begun", !.stamp = clock + 1]
  <2>0. clock + 1 \in Nat /\ clock' = clock + 1
    BY <1>0, <1>3 DEF TypeOK, BeginUpload
  <2>1. v \in UploadType /\ v.by = u.by
    BY <1>0, <2>0 DEF UploadType
  <2>2. Replace(u, v)
    BY <1>3 DEF BeginUpload
  <2> HIDE DEF v
  <2> QED BY <1>1, <1>3, <2>0, <2>1, <2>2 DEF BeginUpload
<1>4. CASE Deactivate(u)
  <2> DEFINE v == [u EXCEPT !.phase = "waiting", !.seen = version, !.took = Matched]
  <2>1. v \in UploadType /\ v.by = u.by /\ clock' \in Nat
    BY <1>0, <1>4 DEF UploadType, TypeOK, Deactivate, server, Matched, Active
  <2>2. Replace(u, v)
    BY <1>4 DEF Deactivate
  <2> HIDE DEF v
  <2> QED BY <1>1, <1>4, <2>1, <2>2 DEF Deactivate, server
<1>5. CASE Lock(u)
  <2> DEFINE v == [u EXCEPT !.phase = "locked", !.took = @ \cap rows]
  <2>1. v \in UploadType /\ v.by = u.by /\ clock' \in Nat
    BY <1>0, <1>5 DEF UploadType, TypeOK, Lock, server
  <2>2. Replace(u, v)
    BY <1>5 DEF Lock
  <2> HIDE DEF v
  <2> QED BY <1>1, <1>5, <2>1, <2>2 DEF Lock, server
<1>6. CASE CommitUpload(u)
  <2>1. \A r \in u.took : r \in Row /\ [r EXCEPT !.active = FALSE] \in Row
    BY <1>0 DEF UploadType, Row
  <2>2. [key |-> u.key, pass |-> u.pass, stamp |-> u.stamp, active |-> TRUE] \in Row
    BY <1>0 DEF UploadType, Row
  <2>3. rows' \subseteq Row
    BY <1>0, <1>6, <2>1, <2>2 DEF CommitUpload, TypeOK
  <2>4. retired' \subseteq Names
    <3>1. retired \subseteq Names
      BY <1>0 DEF TypeOK
    <3>2. {r.key : r \in u.took} \subseteq Names
      BY <2>1 DEF Row
    <3>3. retired' \in {retired, retired \cup {r.key : r \in u.took}}
      BY <1>6 DEF CommitUpload
    <3> QED BY <3>1, <3>2, <3>3
  <2>5. version' \in Nat /\ clock' \in Nat /\ raced' \subseteq Nat /\ faults' \in Nat
    BY <1>0, <1>6 DEF CommitUpload, TypeOK, Fault
  <2>6. PICK q \in {"success", "error"} : Answer(u.by, q)
    BY <1>6 DEF CommitUpload
  <2> QED BY <1>2, <1>6, <2>3, <2>4, <2>5, <2>6 DEF CommitUpload
<1>7. CASE RollBack(u)
  <2>1. faults' \in Nat
    BY <1>0, <1>7 DEF RollBack, Fault, TypeOK
  <2>2. /\ version' \in Nat /\ clock' \in Nat /\ rows' \subseteq Row
        /\ raced' \subseteq Nat /\ retired' \subseteq Names
    BY <1>0, <1>7 DEF RollBack, server, TypeOK
  <2> QED BY <1>2, <1>7, <2>1, <2>2 DEF RollBack
<1> QED BY <1>3, <1>4, <1>5, <1>6, <1>7 DEF Upload

LEMMA RevalidateTyped ==
    ASSUME TypeInv, Revalidate
    PROVE  TypeInv'
<1>1. Exported \subseteq Copy
  BY DEF TypeInv, TypeOK, Exported, FetchActiveKeys, Newest, Active, Row, Copy
<1>2. PagesTyped'
  BY DEF TypeInv, PagesTyped, Revalidate, Rotates
<1>3. cache' \in Copy \cup {None} /\ faults' \in Nat /\ asking' = FALSE
  BY <1>1 DEF TypeInv, TypeOK, Revalidate, Fault
<1>4. TypeOK'
  BY <1>2, <1>3 DEF TypeInv, TypeOK, PagesTyped, Revalidate, server
<1> QED BY <1>2, <1>4 DEF TypeInv, Revalidate, Rotates

LEMMA TypeStep == TypeInv /\ [Next]_vars => TypeInv'
<1> SUFFICES ASSUME TypeInv, [Next]_vars PROVE TypeInv'
  OBVIOUS
<1>1. ASSUME NEW f \in Flows, Dialog(f) \/ Reader(f) \/ Delivery(f) \/ Prekeying(f)
      PROVE  TypeInv'
  BY <1>1, DialogTyped, ReaderTyped, DeliveryTyped, PrekeyingTyped
<1>2. CASE UNCHANGED vars
  BY <1>2 DEF vars, server, worker, TypeInv, TypeOK, PagesTyped, Rotates
<1> QED BY <1>1, <1>2, UploadTyped, RevalidateTyped DEF Next

(* Type correctness: the tables, the requests under way, what the pages    *)
(* hold and the service worker's copy keep the shape of the code's records.*)
THEOREM TypeCorrect == Spec => []TypeOK
<1>1. TypeInv => TypeOK
  BY DEF TypeInv
<1> QED BY <1>1, InitTyped, TypeStep, PTL DEF Spec

(***************************************************************************)
(* A one-time prekey goes to one reader                                    *)
(***************************************************************************)
Bundle(f) == kind[f].op = "bundle"

(* A candidate was an unused row when it was read,                         *)
Dated(p) == p \in PrekeyRow /\ ~p.used /\ p.stamp <= clock

(* and what a reader has been given is no longer unused in the table.  A   *)
(* row that is inserted later carries a later stamp.                       *)
OnceInv ==
    /\ \A p \in prekeys : p.stamp <= clock
    /\ \A f \in Flows : Bundle(f) =>
          /\ at[f] \in {"idle", "candidate", "notfound"} => mem[f].one = None
          /\ at[f] = "claim" => Dated(mem[f].one)
          /\ at[f] = "bundle" /\ mem[f].one # None
                => Dated(mem[f].one) /\ mem[f].one \notin prekeys
    /\ OneTimeOnce

LEMMA OnceInit == Init => OnceInv
BY KeysAssumption DEF Init, OnceInv, OneTimeOnce, Blank, Bundle

(* What the other flows leave alone.                                       *)
BundlesApart ==
    /\ kind' = kind /\ prekeys' = prekeys /\ clock' \in Nat /\ clock <= clock'
    /\ \A f \in Flows : Bundle(f) => at'[f] = at[f] /\ mem'[f] = mem[f]

LEMMA OthersApart ==
    ASSUME TypeInv,
           \/ \E f \in Flows : Dialog(f) \/ Reader(f) \/ Delivery(f)
           \/ \E u \in uploads : Upload(u)
           \/ Revalidate \/ UNCHANGED vars
    PROVE  BundlesApart
<1>0. clock \in Nat /\ at \in [Flows -> Points] /\ mem \in [Flows -> Held]
  BY DEF TypeInv, TypeOK
<1>1. ASSUME NEW f \in Flows, Dialog(f) PROVE BundlesApart
  <2>1. ~Bundle(f) /\ kind' = kind /\ prekeys' = prekeys /\ clock' = clock
    BY <1>1 DEF Dialog, ResetState, HandleGenerate, Generated, GenerateFails, TypeInv, PagesTyped,
                HandleDownloadNewKeys, TickBackup, HandleCompleteRotation, TryAgain, Rotates, Reads,
                Bundle, server
  <2>2. \A g \in Flows \ {f} : at'[g] = at[g] /\ mem'[g] = mem[g]
    BY <1>0, <1>1 DEF Dialog, ResetState, HandleGenerate, Generated, GenerateFails,
                HandleDownloadNewKeys, TickBackup, HandleCompleteRotation, TryAgain, Move, Keep
  <2> QED BY <1>0, <2>1, <2>2 DEF BundlesApart
<1>2. ASSUME NEW f \in Flows, Reader(f) PROVE BundlesApart
  <2>1. ~Bundle(f) /\ kind' = kind /\ prekeys' = prekeys /\ clock' = clock
    BY <1>2 DEF Reader, FetchEncryptedKeys, FetchFails, HandleChangePassphrase, HandleExport,
                Unlock, Reads, Bundle, server
  <2>2. \A g \in Flows \ {f} : at'[g] = at[g] /\ mem'[g] = mem[g]
    BY <1>0, <1>2 DEF Reader, FetchEncryptedKeys, FetchFails, HandleChangePassphrase,
                HandleExport, Unlock, Move, Keep
  <2> QED BY <1>0, <2>1, <2>2 DEF BundlesApart
<1>3. ASSUME NEW f \in Flows, Delivery(f) PROVE BundlesApart
  <2>1. ~Bundle(f) /\ kind' = kind /\ prekeys' = prekeys /\ clock' = clock
    BY <1>3 DEF Delivery, FindActiveX25519PublicKey, StoreMail, Bundle, server
  <2>2. \A g \in Flows \ {f} : at'[g] = at[g] /\ mem'[g] = mem[g]
    BY <1>0, <1>3 DEF Delivery, FindActiveX25519PublicKey, StoreMail, Move, Keep
  <2> QED BY <1>0, <2>1, <2>2 DEF BundlesApart
<1>4. ASSUME NEW u \in uploads, Upload(u) PROVE BundlesApart
  <2>1. ~Bundle(u.by)
    BY <1>4 DEF TypeInv, Bundle, Rotates
  <2>2. /\ kind' = kind /\ prekeys' = prekeys /\ mem' = mem
        /\ clock' = clock \/ clock' = clock + 1
    BY <1>4 DEF Upload, BeginUpload, Deactivate, Lock, CommitUpload, RollBack, server
  <2>3. \A g \in Flows \ {u.by} : at'[g] = at[g]
    BY <1>0, <1>4 DEF Upload, BeginUpload, Deactivate, Lock, CommitUpload, RollBack, Answer
  <2> QED BY <1>0, <2>1, <2>2, <2>3 DEF BundlesApart
<1>5. CASE Revalidate
  BY <1>0, <1>5 DEF Revalidate, server, BundlesApart
<1>6. CASE UNCHANGED vars
  BY <1>0, <1>6 DEF vars, server, BundlesApart
<1> QED BY <1>1, <1>2, <1>3, <1>4, <1>5, <1>6

LEMMA OnceApart ==
    ASSUME TypeInv, OnceInv, BundlesApart
    PROVE  OnceInv'
<1>1. clock \in Nat /\ prekeys \subseteq PrekeyRow
  BY DEF TypeInv, TypeOK
<1>2. \A p : Dated(p) => Dated(p)'
  BY <1>1 DEF Dated, BundlesApart, PrekeyRow
<1>3. \A p \in prekeys' : p.stamp <= clock'
  BY <1>1 DEF OnceInv, BundlesApart, PrekeyRow
<1>4. \A f \in Flows : Bundle(f)' =>
          /\ at'[f] \in {"idle", "candidate", "notfound"} => mem'[f].one = None
          /\ at'[f] = "claim" => Dated(mem[f].one)'
          /\ at'[f] = "bundle" /\ mem'[f].one # None
                => Dated(mem[f].one)' /\ mem'[f].one \notin prekeys'
  BY <1>2 DEF OnceInv, BundlesApart, Bundle
<1>5. OneTimeOnce'
  BY DEF OnceInv, OneTimeOnce, BundlesApart, Bundle
<1> QED BY <1>3, <1>4, <1>5 DEF OnceInv

(* A step of one reader, after which it holds nothing, a dated candidate   *)
(* or a row that nobody else can claim.                                    *)
LEMMA OnceReader ==
    ASSUME TypeInv, OnceInv, NEW f \in Flows, Bundle(f), kind' = kind, clock' = clock,
           \A g \in Flows \ {f} : at'[g] = at[g] /\ mem'[g] = mem[g],
           \A p \in prekeys' : p \in prekeys \/ (p.used /\ p.stamp <= clock),
           at'[f] \in {"idle", "candidate", "notfound"} => mem'[f].one = None,
           at'[f] = "claim" => Dated(mem'[f].one),
           at'[f] = "bundle" /\ mem'[f].one # None
              => Dated(mem'[f].one) /\ mem'[f].one \in prekeys /\ mem'[f].one \notin prekeys'
    PROVE  OnceInv'
<1>1. \A p : Dated(p)' <=> Dated(p)
  BY DEF Dated
<1>2. \A p \in prekeys' : p.stamp <= clock'
  BY DEF OnceInv
<1>3. \A g \in Flows : Bundle(g)' =>
          /\ at'[g] \in {"idle", "candidate", "notfound"} => mem'[g].one = None
          /\ at'[g] = "claim" => Dated(mem[g].one)'
          /\ at'[g] = "bundle" /\ mem'[g].one # None
                => Dated(mem[g].one)' /\ mem'[g].one \notin prekeys'
  <2> SUFFICES ASSUME NEW g \in Flows, Bundle(g)'
      PROVE  /\ at'[g] \in {"idle", "candidate", "notfound"} => mem'[g].one = None
             /\ at'[g] = "claim" => Dated(mem[g].one)'
             /\ at'[g] = "bundle" /\ mem'[g].one # None
                   => Dated(mem[g].one)' /\ mem'[g].one \notin prekeys'
    OBVIOUS
  <2>1. CASE g = f
    BY <2>1 DEF Dated
  <2>2. CASE g # f
    <3>1. Bundle(g) /\ at'[g] = at[g] /\ mem'[g] = mem[g]
      BY <2>2 DEF Bundle
    <3>2. Dated(mem[g].one)' <=> Dated(mem[g].one)
      BY <3>1 DEF Dated
    <3> QED BY <3>1, <3>2 DEF OnceInv, Dated
  <2> QED BY <2>1, <2>2
<1>4. OneTimeOnce'
  <2> SUFFICES ASSUME NEW g \in Flows, NEW h \in Flows, Bundle(g), Bundle(h), g # h,
                      at'[g] = "bundle", at'[h] = "bundle", mem'[g].one # None
               PROVE  mem'[g].one # mem'[h].one
    BY DEF OneTimeOnce, Bundle
  <2>1. CASE g = f
    <3>1. at[h] = "bundle" /\ mem'[h] = mem[h]
      BY <2>1
    <3> QED BY <2>1, <3>1 DEF OnceInv
  <2>2. CASE h = f
    <3>1. at[g] = "bundle" /\ mem'[g] = mem[g]
      BY <2>2
    <3> QED BY <2>2, <3>1 DEF OnceInv
  <2>3. CASE g # f /\ h # f
    BY <2>3 DEF OnceInv, OneTimeOnce, Bundle
  <2> QED BY <2>1, <2>2, <2>3
<1> QED BY <1>2, <1>3, <1>4 DEF OnceInv

LEMMA OnceInsert ==
    ASSUME TypeInv, OnceInv, kind' = kind, mem' = mem, clock' = clock + 1,
           \A p \in prekeys' \ prekeys : p.stamp = clock + 1,
           NEW f \in Flows, ~Bundle(f), NEW q \in Points, Move(f, q)
    PROVE  OnceInv'
<1>0. clock \in Nat /\ prekeys \subseteq PrekeyRow
  BY DEF TypeInv, TypeOK
<1>1. \A g \in Flows : Bundle(g) => at'[g] = at[g]
  BY Moved DEF TypeInv, PagesTyped
<1>2. \A p : Dated(p) => Dated(p)'
  BY <1>0 DEF Dated, PrekeyRow
<1>3. \A p : Dated(p) /\ p \notin prekeys => p \notin prekeys'
  BY <1>0 DEF Dated
<1>4. \A p \in prekeys' : p.stamp <= clock'
  BY <1>0 DEF OnceInv, PrekeyRow
<1>5. \A g \in Flows : Bundle(g)' =>
          /\ at'[g] \in {"idle", "candidate", "notfound"} => mem'[g].one = None
          /\ at'[g] = "claim" => Dated(mem[g].one)'
          /\ at'[g] = "bundle" /\ mem'[g].one # None
                => Dated(mem[g].one)' /\ mem'[g].one \notin prekeys'
  BY <1>1, <1>2, <1>3 DEF OnceInv, Bundle
<1>6. OneTimeOnce'
  BY <1>1 DEF OnceInv, OneTimeOnce, Bundle
<1> QED BY <1>4, <1>5, <1>6 DEF OnceInv

LEMMA OncePrekeying ==
    ASSUME TypeInv, OnceInv, NEW f \in Flows, Prekeying(f)
    PROVE  OnceInv'
<1>0. /\ at \in [Flows -> Points] /\ mem \in [Flows -> Held]
      /\ prekeys \subseteq PrekeyRow /\ clock \in Nat
  BY DEF TypeInv, TypeOK
<1>1. CASE InsertSigned(f)
  <2>1. ~Bundle(f) /\ Move(f, "signed") /\ "signed" \in Points
    BY <1>1 DEF InsertSigned, Bundle, Points
  <2>2. \A p \in prekeys' \ prekeys : p.stamp = clock + 1
    BY <1>1 DEF InsertSigned, Prekey
  <2> QED BY <1>1, <2>1, <2>2, OnceInsert DEF InsertSigned
<1>2. CASE InsertOneTimes(f)
  <2>1. ~Bundle(f) /\ kind' = kind /\ mem' = mem
    BY <1>2 DEF InsertOneTimes, Bundle
  <2>2. CASE Move(f, "success") /\ clock' = clock + 1
             /\ prekeys' = prekeys \cup {Prekey(f, n, FALSE) : n \in OneTimes}
    <3>1. \A p \in prekeys' \ prekeys : p.stamp = clock + 1
      BY <2>2 DEF Prekey
    <3>2. "success" \in Points
      BY DEF Points
    <3> QED BY <2>1, <2>2, <3>1, <3>2, OnceInsert
  <2>3. CASE Move(f, "error") /\ prekeys' = prekeys /\ clock' = clock
    <3>1. BundlesApart
      BY <1>0, <2>1, <2>3 DEF BundlesApart, Move
    <3> QED BY <3>1, OnceApart
  <2> QED BY <1>2, <2>2, <2>3 DEF InsertOneTimes
<1>3. CASE ReadSigned(f)
  <2>1. /\ Bundle(f) /\ kind' = kind /\ clock' = clock /\ prekeys' = prekeys /\ mem' = mem
        /\ at[f] = "idle"
    BY <1>3 DEF ReadSigned, Bundle, server
  <2>2. at'[f] \in {"candidate", "notfound"} /\ \A g \in Flows \ {f} : at'[g] = at[g]
    BY <1>0, <1>3 DEF ReadSigned, Move
  <2>3. mem[f].one = None
    BY <2>1 DEF OnceInv
  <2> QED BY <2>1, <2>2, <2>3, OnceReader
<1>4. CASE ReadCandidate(f)
  <2>1. /\ Bundle(f) /\ kind' = kind /\ clock' = clock /\ prekeys' = prekeys
        /\ at[f] = "candidate"
    BY <1>4 DEF ReadCandidate, Bundle, server
  <2>2. mem[f].one = None
    BY <2>1 DEF OnceInv
  <2>3. CASE Unused(FALSE) = {}
    <3>1. mem' = mem /\ at'[f] = "bundle" /\ \A g \in Flows \ {f} : at'[g] = at[g]
      BY <1>0, <1>4, <2>3 DEF ReadCandidate, Move
    <3> QED BY <2>1, <2>2, <3>1, OnceReader
  <2>4. CASE Unused(FALSE) # {}
    <3>1. PICK p \in prekeys : ~p.used /\ Keep(f, [mem[f] EXCEPT !.one = p])
      BY <1>4, <2>4 DEF ReadCandidate, Oldest, Unused
    <3>2. Dated(p)
      BY <1>0, <3>1 DEF OnceInv, Dated
    <3>3. mem'[f].one = p /\ \A g \in Flows \ {f} : mem'[g] = mem[g]
      BY <1>0, <3>1 DEF Keep, Held
    <3>4. at'[f] = "claim" /\ \A g \in Flows \ {f} : at'[g] = at[g]
      BY <1>0, <1>4, <2>4 DEF ReadCandidate, Move
    <3> QED BY <2>1, <3>2, <3>3, <3>4, OnceReader
  <2> QED BY <2>3, <2>4
<1>5. CASE Claim(f)
  <2>1. Bundle(f) /\ kind' = kind /\ clock' = clock /\ at[f] = "claim"
    BY <1>5 DEF Claim, Bundle, server
  <2>2. Dated(mem[f].one)
    BY <2>1 DEF OnceInv
  <2>3. at'[f] = "bundle" /\ \A g \in Flows \ {f} : at'[g] = at[g]
    BY <1>0, <1>5 DEF Claim, Move
  <2>4. CASE Won(f)
    <3> DEFINE p == mem[f].one
               r == [p EXCEPT !.used = TRUE]
    <3>1. mem' = mem /\ p \in prekeys /\ prekeys' = (prekeys \ {p}) \cup {r}
      BY <1>5, <2>4 DEF Claim, Won
    <3>2. r.used /\ r.stamp <= clock /\ r # p
      BY <2>2 DEF Dated, PrekeyRow
    <3> HIDE DEF r
    <3>3. p \notin prekeys' /\ \A x \in prekeys' : x \in prekeys \/ (x.used /\ x.stamp <= clock)
      BY <3>1, <3>2
    <3> QED BY <2>1, <2>2, <2>3, <3>1, <3>3, OnceReader
  <2>5. CASE ~Won(f)
    <3>1. prekeys' = prekeys /\ mem'[f].one = None /\ \A g \in Flows \ {f} : mem'[g] = mem[g]
      BY <1>0, <1>5, <2>5 DEF Claim, Keep, Blank
    <3> QED BY <2>1, <2>3, <3>1, OnceReader
  <2> QED BY <2>4, <2>5
<1> QED BY <1>1, <1>2, <1>3, <1>4, <1>5 DEF Prekeying

(* A one-time prekey goes to at most one reader of the bundle, whatever    *)
(* the number of readers, of uploads and of prekeys in one.                *)
THEOREM OneTimeAlways == Spec => []OneTimeOnce
<1>1. TypeInv /\ OnceInv /\ [Next]_vars => OnceInv'
  <2> SUFFICES ASSUME TypeInv, OnceInv, [Next]_vars PROVE OnceInv'
    OBVIOUS
  <2>1. ASSUME NEW f \in Flows, Prekeying(f) PROVE OnceInv'
    BY <2>1, OncePrekeying
  <2> QED BY <2>1, OthersApart, OnceApart DEF Next
<1>2. OnceInv => OneTimeOnce
  BY DEF OnceInv
<1> QED BY <1>1, <1>2, InitTyped, TypeStep, OnceInit, PTL DEF Spec

(***************************************************************************)
(* Every key is in a file the person has                                   *)
(***************************************************************************)
Safe == backups \cup crossed

(* A page that may upload the key it holds: a reader that has opened what  *)
(* it fetched, or a dialog whose file was downloaded.                      *)
Vouches(f) == mem[f].key # None /\ (Reads(f) \/ (Rotates(f) /\ mem[f].downloaded))

KeptInv ==
    /\ \A r \in rows : r.key \in Safe
    /\ \A u \in uploads : u.key \in Safe /\ \A r \in u.took : r.key \in Safe
    /\ cache # None => cache.key \in Safe
    /\ \A f \in Flows : Vouches(f) => mem[f].key \in Safe
    /\ \A f \in Flows : Rotates(f) /\ mem[f].confirmed => mem[f].downloaded

LEMMA KeptInit == Init => KeptInv
BY KeysAssumption DEF Init, KeptInv, Safe, Vouches, Blank, KeysAssumption

(* A step that only adds files, and after which what a page may upload, a  *)
(* table or a copy holds is in one of them.                                *)
LEMMA KeptStep ==
    ASSUME KeptInv, kind' = kind, Safe \subseteq Safe',
           rows' = rows \/ \A r \in rows' : r.key \in Safe,
           uploads' = uploads \/ \A u \in uploads' : u.key \in Safe /\ \A r \in u.took : r.key \in Safe,
           cache' = cache \/ (cache' # None => cache'.key \in Safe),
           mem' = mem \/ \E f \in Flows :
                /\ \A g \in Flows \ {f} : mem'[g] = mem[g]
                /\ Vouches(f)' => mem'[f].key \in Safe'
                /\ Rotates(f) /\ mem'[f].confirmed => mem'[f].downloaded
    PROVE  KeptInv'
<1>1. /\ \A r \in rows' : r.key \in Safe'
      /\ \A u \in uploads' : u.key \in Safe' /\ \A r \in u.took : r.key \in Safe'
      /\ cache' # None => cache'.key \in Safe'
  BY DEF KeptInv
<1>2. ASSUME NEW f \in Flows, \A g \in Flows \ {f} : mem'[g] = mem[g],
             Vouches(f)' => mem'[f].key \in Safe',
             Rotates(f) /\ mem'[f].confirmed => mem'[f].downloaded
      PROVE  \A g \in Flows : /\ Vouches(g)' => mem'[g].key \in Safe'
                              /\ Rotates(g)' /\ mem'[g].confirmed => mem'[g].downloaded
  BY <1>2 DEF KeptInv, Vouches, Rotates, Reads
<1>3. CASE mem' = mem
  BY <1>1, <1>3 DEF KeptInv, Vouches, Rotates, Reads
<1> QED BY <1>1, <1>2, <1>3 DEF KeptInv

LEMMA KeptDialog ==
    ASSUME TypeInv, KeptInv, NEW f \in Flows, Dialog(f)
    PROVE  KeptInv'
<1>0. /\ mem \in [Flows -> Held] /\ mem[f] \in Held
      /\ Rotates(f) => ~Reads(f)
  BY DEF TypeInv, TypeOK, Rotates, Reads
<1>1. CASE ResetState(f)
  <2>1. mem'[f].key = None /\ ~mem'[f].confirmed /\ \A g \in Flows \ {f} : mem'[g] = mem[g]
    BY <1>0, <1>1 DEF ResetState, Keep, Blank
  <2>2. /\ kind' = kind /\ Safe' = Safe /\ rows' = rows /\ uploads' = uploads /\ cache' = cache
    BY <1>1 DEF ResetState, Safe, server, worker
  <2> QED BY <2>1, <2>2, KeptStep DEF Vouches
<1>2. CASE HandleGenerate(f)
  <2>1. PICK k \in Fresh : Keep(f, [mem[f] EXCEPT !.making = @ \cup {k}])
    BY <1>2 DEF HandleGenerate
  <2>2. /\ mem'[f].key = mem[f].key /\ mem'[f].downloaded = mem[f].downloaded
        /\ mem'[f].confirmed = mem[f].confirmed /\ \A g \in Flows \ {f} : mem'[g] = mem[g]
    BY <1>0, <2>1 DEF Keep, Held
  <2>3. /\ kind' = kind /\ Safe' = Safe /\ rows' = rows /\ uploads' = uploads /\ cache' = cache
    BY <1>2 DEF HandleGenerate, Safe, server, worker
  <2>4. Vouches(f)' => mem'[f].key \in Safe'
    BY <2>2, <2>3 DEF Vouches, KeptInv, Rotates, Reads
  <2>5. Rotates(f) /\ mem'[f].confirmed => mem'[f].downloaded
    BY <2>2 DEF KeptInv
  <2> QED BY <2>2, <2>3, <2>4, <2>5, KeptStep
<1>3. ASSUME NEW k \in Fresh, Generated(f, k) PROVE KeptInv'
  <2>1. /\ mem'[f].key = k /\ mem'[f].downloaded = mem[f].downloaded
        /\ mem'[f].confirmed = mem[f].confirmed /\ \A g \in Flows \ {f} : mem'[g] = mem[g]
    BY <1>0, <1>3 DEF Generated, Keep, Held
  <2>2. /\ kind' = kind /\ rows' = rows /\ uploads' = uploads /\ cache' = cache
        /\ Safe \subseteq Safe' /\ (mem[f].downloaded => k \in Safe')
    BY <1>3 DEF Generated, Safe, server, worker
  <2>3. Rotates(f) /\ ~Reads(f)
    BY <1>0, <1>3 DEF Generated, TypeInv, PagesTyped
  <2>4. Vouches(f)' => mem'[f].key \in Safe'
    BY <2>1, <2>2, <2>3 DEF Vouches, Reads
  <2>5. Rotates(f) /\ mem'[f].confirmed => mem'[f].downloaded
    BY <2>1 DEF KeptInv
  <2> QED BY <2>1, <2>2, <2>4, <2>5, KeptStep
<1>4. ASSUME NEW k \in Fresh, GenerateFails(f, k) PROVE KeptInv'
  <2>1. /\ mem'[f].key = mem[f].key /\ mem'[f].downloaded = mem[f].downloaded
        /\ mem'[f].confirmed = mem[f].confirmed /\ \A g \in Flows \ {f} : mem'[g] = mem[g]
    BY <1>0, <1>4 DEF GenerateFails, Keep, Held
  <2>2. /\ kind' = kind /\ Safe' = Safe /\ rows' = rows /\ uploads' = uploads /\ cache' = cache
    BY <1>4 DEF GenerateFails, Safe, server, worker
  <2>3. Vouches(f)' => mem'[f].key \in Safe'
    BY <2>1, <2>2 DEF Vouches, KeptInv, Rotates, Reads
  <2>4. Rotates(f) /\ mem'[f].confirmed => mem'[f].downloaded
    BY <2>1 DEF KeptInv
  <2> QED BY <2>1, <2>2, <2>3, <2>4, KeptStep
<1>5. CASE HandleDownloadNewKeys(f)
  <2>1. /\ mem'[f].key = mem[f].key /\ mem'[f].downloaded
        /\ \A g \in Flows \ {f} : mem'[g] = mem[g]
    BY <1>0, <1>5 DEF HandleDownloadNewKeys, Keep, Held
  <2>2. /\ kind' = kind /\ rows' = rows /\ uploads' = uploads /\ cache' = cache
        /\ Safe \subseteq Safe' /\ mem[f].key \in Safe'
    BY <1>5 DEF HandleDownloadNewKeys, Safe, server, worker
  <2> QED BY <2>1, <2>2, KeptStep
<1>6. CASE TickBackup(f)
  <2>1. /\ mem'[f].key = mem[f].key /\ mem'[f].downloaded = mem[f].downloaded
        /\ mem[f].downloaded /\ \A g \in Flows \ {f} : mem'[g] = mem[g]
    BY <1>0, <1>6 DEF TickBackup, Keep, Held
  <2>2. /\ kind' = kind /\ Safe' = Safe /\ rows' = rows /\ uploads' = uploads /\ cache' = cache
    BY <1>6 DEF TickBackup, Safe, server, worker
  <2>3. Vouches(f)' => mem'[f].key \in Safe'
    BY <2>1, <2>2 DEF Vouches, KeptInv, Rotates, Reads
  <2> QED BY <2>1, <2>2, <2>3, KeptStep
<1>7. CASE HandleCompleteRotation(f)
  <2>1. mem[f].key \in Safe
    BY <1>7 DEF HandleCompleteRotation, MayComplete, KeptInv, Vouches
  <2>2. \A u \in uploads' : u.key \in Safe /\ \A r \in u.took : r.key \in Safe
    BY <1>7, <2>1 DEF HandleCompleteRotation, Post, KeptInv
  <2>3. /\ kind' = kind /\ Safe' = Safe /\ rows' = rows /\ mem' = mem /\ cache' = cache
    BY <1>7 DEF HandleCompleteRotation, Safe, server, worker
  <2> QED BY <2>2, <2>3, KeptStep
<1>8. CASE TryAgain(f)
  BY <1>8, KeptStep DEF TryAgain, Safe, server, worker
<1> QED BY <1>1, <1>2, <1>3, <1>4, <1>5, <1>6, <1>7, <1>8 DEF Dialog

LEMMA ExportedKept ==
    ASSUME KeptInv
    PROVE  \A e \in Exported : e.key \in Safe
BY DEF KeptInv, Exported, FetchActiveKeys, Newest, Active

LEMMA KeptReader ==
    ASSUME TypeInv, KeptInv, NEW f \in Flows, Reader(f)
    PROVE  KeptInv'
<1>0. mem \in [Flows -> Held] /\ mem[f] \in Held /\ (Reads(f) => ~Rotates(f))
  BY DEF TypeInv, TypeOK, Rotates, Reads
<1>1. CASE FetchEncryptedKeys(f)
  <2>1. PICK e \in IF cache = None THEN Exported ELSE {cache} :
              /\ Keep(f, [mem[f] EXCEPT !.key = e.key, !.pass = e.pass, !.seen = e.seen])
              /\ cache' = IF sw THEN e ELSE None
    BY <1>1 DEF FetchEncryptedKeys
  <2>2. e.key \in Safe
    BY <2>1, ExportedKept DEF KeptInv
  <2>3. mem'[f].key = e.key /\ \A g \in Flows \ {f} : mem'[g] = mem[g]
    BY <1>0, <2>1 DEF Keep, Held
  <2>4. /\ kind' = kind /\ Safe' = Safe /\ rows' = rows /\ uploads' = uploads
        /\ ~Rotates(f) /\ (cache' # None => cache'.key \in Safe)
    BY <1>0, <1>1, <2>1, <2>2 DEF FetchEncryptedKeys, Safe, server
  <2> QED BY <2>2, <2>3, <2>4, KeptStep
<1>2. CASE FetchFails(f)
  BY <1>2, KeptStep DEF FetchFails, Safe, server, worker
<1>3. CASE HandleChangePassphrase(f)
  <2>1. mem[f].key \in Safe
    BY <1>3 DEF HandleChangePassphrase, KeptInv, Vouches, Reads, TypeInv, PagesTyped
  <2>2. \A u \in uploads' : u.key \in Safe /\ \A r \in u.took : r.key \in Safe
    BY <1>3, <2>1 DEF HandleChangePassphrase, Post, KeptInv
  <2>3. /\ kind' = kind /\ Safe' = Safe /\ rows' = rows /\ mem' = mem /\ cache' = cache
    BY <1>3 DEF HandleChangePassphrase, Safe, server, worker
  <2> QED BY <2>2, <2>3, KeptStep
<1>4. CASE HandleExport(f)
  <2>1. /\ kind' = kind /\ Safe \subseteq Safe' /\ rows' = rows /\ mem' = mem /\ cache' = cache
        /\ uploads' = uploads
    BY <1>4 DEF HandleExport, Safe, server, worker
  <2> QED BY <2>1, KeptStep
<1>5. CASE Unlock(f)
  <2>1. /\ kind' = kind /\ Safe' = Safe /\ rows' = rows /\ cache' = cache /\ uploads' = uploads
        /\ ~Rotates(f)
    BY <1>5 DEF Unlock, Safe, server, worker, Rotates
  <2>2. /\ mem'[f].key \in {mem[f].key, None} /\ \A g \in Flows \ {f} : mem'[g] = mem[g]
    BY <1>0, <1>5 DEF Unlock, Keep, Blank
  <2>3. Vouches(f)' => mem'[f].key \in Safe'
    BY <2>1, <2>2 DEF Vouches, KeptInv, Rotates, Reads
  <2> QED BY <2>1, <2>2, <2>3, KeptStep
<1> QED BY <1>1, <1>2, <1>3, <1>4, <1>5 DEF Reader

LEMMA KeptOthers ==
    ASSUME TypeInv, KeptInv, NEW f \in Flows, Delivery(f) \/ Prekeying(f)
    PROVE  KeptInv'
<1>1. /\ kind' = kind /\ Safe' = Safe /\ rows' = rows /\ cache' = cache /\ uploads' = uploads
      /\ ~Rotates(f) /\ ~Reads(f)
  BY DEF Delivery, FindActiveX25519PublicKey, StoreMail, Prekeying, InsertSigned, InsertOneTimes,
         ReadSigned, ReadCandidate, Claim, Safe, server, worker, Rotates, Reads
<1>2. mem \in [Flows -> Held]
  BY DEF TypeInv, TypeOK
<1>3. \A g \in Flows \ {f} : mem'[g] = mem[g]
  BY <1>2 DEF Delivery, FindActiveX25519PublicKey, StoreMail, Prekeying, InsertSigned,
              InsertOneTimes, ReadSigned, ReadCandidate, Claim, Keep
<1> QED BY <1>1, <1>3, KeptStep DEF Vouches, Rotates, Reads

LEMMA KeptUpload ==
    ASSUME TypeInv, KeptInv, NEW u \in uploads, Upload(u)
    PROVE  KeptInv'
<1>0. /\ kind' = kind /\ Safe' = Safe /\ mem' = mem /\ cache' = cache
      /\ u \in UploadType /\ u.key \in Safe /\ \A r \in u.took : r.key \in Safe /\ r \in Row
  BY DEF Upload, BeginUpload, Deactivate, Lock, CommitUpload, RollBack, server, worker, Safe,
         KeptInv, TypeInv, TypeOK, UploadType
<1>1. ASSUME NEW v, Replace(u, v), rows' = rows, v.key \in Safe, \A r \in v.took : r.key \in Safe
      PROVE  KeptInv'
  <2>1. \A w \in uploads' : w.key \in Safe /\ \A r \in w.took : r.key \in Safe
    BY <1>1 DEF Replace, KeptInv
  <2> QED BY <1>0, <1>1, <2>1, KeptStep
<1>2. CASE BeginUpload(u)
  <2> DEFINE v == [u EXCEPT !.phase = "begun", !.stamp = clock + 1]
  <2>1. v.key \in Safe /\ v.took = u.took
    BY <1>0 DEF UploadType
  <2>2. Replace(u, v)
    BY <1>2 DEF BeginUpload
  <2> HIDE DEF v
  <2> QED BY <1>0, <1>1, <1>2, <2>1, <2>2 DEF BeginUpload
<1>3. CASE Deactivate(u)
  <2> DEFINE v == [u EXCEPT !.phase = "waiting", !.seen = version, !.took = Matched]
  <2>1. v.key \in Safe /\ v.took = Active
    BY <1>0 DEF UploadType, Matched
  <2>2. Replace(u, v)
    BY <1>3 DEF Deactivate
  <2>3. \A r \in v.took : r.key \in Safe
    BY <2>1 DEF Active, KeptInv
  <2> HIDE DEF v
  <2> QED BY <1>1, <1>3, <2>1, <2>2, <2>3 DEF Deactivate, server
<1>4. CASE Lock(u)
  <2> DEFINE v == [u EXCEPT !.phase = "locked", !.took = @ \cap rows]
  <2>1. v.key \in Safe /\ v.took \subseteq u.took
    BY <1>0 DEF UploadType
  <2>2. Replace(u, v)
    BY <1>4 DEF Lock
  <2> HIDE DEF v
  <2> QED BY <1>0, <1>1, <1>4, <2>1, <2>2 DEF Lock, server
<1>5. CASE CommitUpload(u)
  <2>1. \A r \in u.took : [r EXCEPT !.active = FALSE].key = r.key
    BY <1>0 DEF Row
  <2>2. \A r \in rows' : r.key \in Safe
    <3>1. PICK n : n.key = u.key /\ rows' = (rows \ u.took)
                      \cup {[r EXCEPT !.active = FALSE] : r \in u.took} \cup {n}
      <4> DEFINE n == [key |-> u.key, pass |-> u.pass, stamp |-> u.stamp, active |-> TRUE]
      <4>1. n.key = u.key
        OBVIOUS
      <4> QED BY <1>5, <4>1 DEF CommitUpload
    <3> QED BY <1>0, <2>1, <3>1 DEF KeptInv
  <2>3. \A w \in uploads' : w.key \in Safe /\ \A r \in w.took : r.key \in Safe
    BY <1>5 DEF CommitUpload, KeptInv
  <2> QED BY <1>0, <2>2, <2>3, KeptStep
<1>6. CASE RollBack(u)
  <2>1. rows' = rows /\ \A w \in uploads' : w.key \in Safe /\ \A r \in w.took : r.key \in Safe
    BY <1>6 DEF RollBack, KeptInv, server
  <2> QED BY <1>0, <2>1, KeptStep
<1> QED BY <1>2, <1>3, <1>4, <1>5, <1>6 DEF Upload

LEMMA KeptRevalidate ==
    ASSUME KeptInv, Revalidate
    PROVE  KeptInv'
<1>1. cache' = cache \/ cache'.key \in Safe
  BY ExportedKept DEF Revalidate
<1> QED BY <1>1, KeptStep DEF Revalidate, Safe, server

(* Every key the server ever stored is in a file the person downloaded, or *)
(* came to a dialog in which another one was: for every number of dialogs, *)
(* readers, uploads and failures.                                          *)
THEOREM KeyAlwaysKept == Spec => []KeyKept
<1>1. TypeInv /\ KeptInv /\ [Next]_vars => KeptInv'
  <2> SUFFICES ASSUME TypeInv, KeptInv, [Next]_vars PROVE KeptInv'
    OBVIOUS
  <2>1. ASSUME NEW f \in Flows, Dialog(f) \/ Reader(f) \/ Delivery(f) \/ Prekeying(f)
        PROVE  KeptInv'
    BY <2>1, KeptDialog, KeptReader, KeptOthers
  <2>2. CASE UNCHANGED vars
    BY <2>2, KeptStep DEF vars, server, worker, Safe
  <2> QED BY <2>1, <2>2, KeptUpload, KeptRevalidate DEF Next
<1>2. KeptInv => KeyKept
  BY DEF KeptInv, KeyKept, Safe
<1> QED BY <1>1, <1>2, InitTyped, TypeStep, KeptInit, PTL DEF Spec

(***************************************************************************)
(* A tab opens the mail of its own time                                    *)
(***************************************************************************)
Looked(f) == kind[f].op = "mail" /\ at[f] # "idle"
Holds(f) == (Reads(f) /\ mem[f].key # None) \/ Looked(f)

(* The keys that readers, mail and the service worker hold, and the upload *)
(* after which each was looked up.                                         *)
Copies == {[key |-> mem[f].key, seen |-> mem[f].seen] : f \in {g \in Flows : Holds(g)}}
          \cup IF cache = None THEN {} ELSE {[key |-> cache.key, seen |-> cache.seen]}

Current(c) == c.seen = version /\ \E r \in Active : r.key = c.key

(* After an upload that no other one crossed, one key is active: the       *)
(* upload has found every row that is active when it commits.  What was    *)
(* looked up since is that key.                                            *)
OneActive == version \notin raced => \A r, s \in Active : r.key = s.key
UploadsFindAll ==
    \A u \in uploads : /\ u.seen <= version
                       /\ u.phase \in {"waiting", "locked"} /\ u.seen = version => Active \subseteq u.took
CopiesCurrent ==
    \A c \in Copies : /\ c.seen \in Nat /\ c.seen <= version
                      /\ c.seen = version /\ version \notin raced => \A r \in Active : r.key = c.key
CopiesAgree == \A c, d \in Copies : c.seen = d.seen /\ c.seen \notin raced => c.key = d.key

FreshInv == OneActive /\ UploadsFindAll /\ CopiesCurrent /\ CopiesAgree

LEMMA FreshInit == Init => FreshInv
<1> SUFFICES ASSUME Init PROVE FreshInv
  OBVIOUS
<1>1. Copies = {} /\ uploads = {}
  BY DEF Init, Copies, Holds, Looked, Blank
<1>2. OneActive
  BY DEF Init, OneActive, Active
<1> QED BY <1>1, <1>2 DEF FreshInv, UploadsFindAll, CopiesCurrent, CopiesAgree

(* A step between two uploads: whoever gets a key gets an active one, or a *)
(* copy of what another holds.                                             *)
LEMMA FreshStep ==
    ASSUME TypeInv, FreshInv, rows' = rows, version' = version, raced' = raced,
           \A u \in uploads' : u \in uploads \/ (u.seen = 0 /\ u.phase \notin {"waiting", "locked"}),
           \A c \in Copies' : c \in Copies \/ Current(c)
    PROVE  FreshInv'
<1>0. version \in Nat /\ Active' = Active
  BY DEF TypeInv, TypeOK, Active
<1>1. OneActive'
  BY <1>0 DEF FreshInv, OneActive
<1>2. UploadsFindAll'
  BY <1>0 DEF FreshInv, UploadsFindAll
<1>3. CopiesCurrent'
  <2> SUFFICES ASSUME NEW c \in Copies'
               PROVE  /\ c.seen \in Nat /\ c.seen <= version
                      /\ c.seen = version /\ version \notin raced => \A r \in Active : r.key = c.key
    BY <1>0 DEF CopiesCurrent
  <2>1. CASE c \in Copies
    BY <2>1 DEF FreshInv, CopiesCurrent
  <2>2. CASE Current(c)
    BY <1>0, <2>2 DEF Current, FreshInv, OneActive
  <2> QED BY <2>1, <2>2
<1>4. CopiesAgree'
  <2> SUFFICES ASSUME NEW c \in Copies', NEW d \in Copies', c.seen = d.seen, c.seen \notin raced
               PROVE  c.key = d.key
    BY DEF CopiesAgree
  <2>1. CASE c \in Copies /\ d \in Copies
    BY <2>1 DEF FreshInv, CopiesAgree
  <2>2. CASE c \in Copies /\ Current(d)
    BY <2>2 DEF FreshInv, CopiesCurrent, Current
  <2>3. CASE Current(c) /\ d \in Copies
    BY <2>3 DEF FreshInv, CopiesCurrent, Current
  <2>4. CASE Current(c) /\ Current(d)
    BY <2>4 DEF FreshInv, OneActive, Current
  <2> QED BY <2>1, <2>2, <2>3, <2>4
<1> QED BY <1>1, <1>2, <1>3, <1>4 DEF FreshInv

LEMMA CopiesApart ==
    ASSUME kind' = kind, cache' = cache,
           \A g \in Flows : Reads(g) => mem'[g] = mem[g] \/ mem'[g].key = None,
           \A g \in Flows : Looked(g)' => Looked(g) /\ mem'[g] = mem[g]
    PROVE  \A c \in Copies' : c \in Copies
<1>1. \A g \in Flows : Holds(g)' => Holds(g) /\ mem'[g] = mem[g]
  BY DEF Holds, Reads, Looked
<1> QED BY <1>1 DEF Copies

LEMMA FreshDialog ==
    ASSUME TypeInv, FreshInv, NEW f \in Flows, Dialog(f) \/ Prekeying(f)
    PROVE  FreshInv'
<1>0. at \in [Flows -> Points] /\ mem \in [Flows -> Held]
  BY DEF TypeInv, TypeOK
<1>1. /\ kind' = kind /\ cache' = cache /\ rows' = rows /\ version' = version /\ raced' = raced
      /\ mem' = mem \/ (~Reads(f) /\ kind[f].op # "mail")
  BY DEF Dialog, ResetState, HandleGenerate, Generated, GenerateFails, HandleDownloadNewKeys,
         TickBackup, HandleCompleteRotation, TryAgain, TypeInv, PagesTyped, server, worker,
         Prekeying, InsertSigned, InsertOneTimes, ReadSigned, ReadCandidate, Claim, Rotates, Reads
<1>2. \A g \in Flows \ {f} : mem'[g] = mem[g]
  BY <1>0 DEF Dialog, ResetState, HandleGenerate, Generated, GenerateFails, HandleDownloadNewKeys,
         TickBackup, HandleCompleteRotation, TryAgain, Keep,
         Prekeying, InsertSigned, InsertOneTimes, ReadSigned, ReadCandidate, Claim
<1>3. \A u \in uploads' : u \in uploads \/ (u.seen = 0 /\ u.phase \notin {"waiting", "locked"})
  <2>1. uploads' = uploads \/ Post(f, mem[f].key)
    BY DEF Dialog, ResetState, HandleGenerate, Generated, GenerateFails, HandleDownloadNewKeys,
           TickBackup, HandleCompleteRotation, TryAgain,
           Prekeying, InsertSigned, InsertOneTimes, ReadSigned, ReadCandidate, Claim
  <2> QED BY <2>1 DEF Post
<1>4. /\ kind[f].op = "mail" => mem' = mem /\ at' = at
      /\ \A g \in Flows \ {f} : at'[g] = at[g]
  BY <1>0 DEF Dialog, ResetState, HandleGenerate, Generated, GenerateFails, HandleDownloadNewKeys,
         TickBackup, HandleCompleteRotation, TryAgain, TypeInv, PagesTyped, Rotates, Reads, Move,
         Prekeying, InsertSigned, InsertOneTimes, ReadSigned, ReadCandidate, Claim
<1>5. \A g \in Flows : Looked(g)' => Looked(g) /\ mem'[g] = mem[g]
  BY <1>1, <1>2, <1>4 DEF Looked
<1> QED BY <1>1, <1>2, <1>3, <1>5, CopiesApart, FreshStep

LEMMA FreshReader ==
    ASSUME TypeInv, FreshInv, NEW f \in Flows, Reader(f)
    PROVE  FreshInv'
<1>0. mem \in [Flows -> Held] /\ mem[f] \in Held /\ at \in [Flows -> Points]
  BY DEF TypeInv, TypeOK
<1>1. kind' = kind /\ kind[f].op # "mail"
  BY DEF Reader, FetchEncryptedKeys, FetchFails, HandleChangePassphrase, HandleExport, Unlock, Reads
<1>2. \A g \in Flows \ {f} : at'[g] = at[g] /\ mem'[g] = mem[g]
  BY <1>0 DEF Reader, FetchEncryptedKeys, FetchFails, HandleChangePassphrase, HandleExport, Unlock,
              Move, Keep
<1>3. \A g \in Flows : Looked(g)' => Looked(g) /\ mem'[g] = mem[g]
  BY <1>1, <1>2 DEF Looked
<1>4. CASE FetchEncryptedKeys(f)
  <2>1. PICK e \in IF cache = None THEN Exported ELSE {cache} :
              /\ Keep(f, [mem[f] EXCEPT !.key = e.key, !.pass = e.pass, !.seen = e.seen])
              /\ cache' = IF sw THEN e ELSE None
    BY <1>4 DEF FetchEncryptedKeys
  <2> DEFINE c == [key |-> e.key, seen |-> e.seen]
  <2>2. c \in Copies \/ Current(c)
    BY <2>1 DEF Copies, Current, Exported, FetchActiveKeys, Newest
  <2>3. /\ mem'[f].key = e.key /\ mem'[f].seen = e.seen
        /\ \A g \in Flows \ {f} : mem'[g] = mem[g]
    BY <1>0, <2>1 DEF Keep, Held
  <2>4. kind' = kind
    BY <1>4 DEF FetchEncryptedKeys
  <2>5. \A d \in Copies' : d \in Copies \/ d = c
    <3>1. \A g \in Flows \ {f} : Holds(g)' => Holds(g)
      BY <1>3, <2>3, <2>4 DEF Holds, Reads
    <3> QED BY <2>1, <2>3, <3>1 DEF Copies
  <2> HIDE DEF c
  <2> QED BY <1>4, <2>2, <2>5, FreshStep DEF FetchEncryptedKeys, server
<1>5. CASE FetchFails(f)
  BY <1>3, <1>5, CopiesApart, FreshStep DEF FetchFails, server, worker
<1>6. CASE HandleChangePassphrase(f)
  <2>1. \A u \in uploads' : u \in uploads \/ (u.seen = 0 /\ u.phase \notin {"waiting", "locked"})
    BY <1>6 DEF HandleChangePassphrase, Post
  <2> QED BY <1>3, <1>6, <2>1, CopiesApart, FreshStep DEF HandleChangePassphrase, server, worker
<1>7. CASE HandleExport(f)
  BY <1>3, <1>7, CopiesApart, FreshStep DEF HandleExport, server, worker
<1>8. CASE Unlock(f)
  <2>1. \A g \in Flows : mem'[g] = mem[g] \/ mem'[g].key = None
    BY <1>0, <1>8 DEF Unlock, Keep, Blank
  <2> QED BY <1>3, <1>8, <2>1, CopiesApart, FreshStep DEF Unlock, server, worker
<1> QED BY <1>4, <1>5, <1>6, <1>7, <1>8 DEF Reader

LEMMA FreshDelivery ==
    ASSUME TypeInv, FreshInv, NEW f \in Flows, Delivery(f)
    PROVE  FreshInv'
<1>1. CASE FindActiveX25519PublicKey(f)
  <2>1. PICK r \in Active : Keep(f, [Blank EXCEPT !.key = r.key, !.seen = version])
    BY <1>1 DEF FindActiveX25519PublicKey
  <2> DEFINE c == [key |-> r.key, seen |-> version]
  <2>2. Current(c)
    BY DEF Current
  <2>3. /\ mem'[f].key = r.key /\ mem'[f].seen = version
        /\ \A g \in Flows \ {f} : mem'[g] = mem[g]
    BY <2>1 DEF Keep, Blank, TypeInv, TypeOK
  <2>4. kind' = kind /\ cache' = cache /\ \A g \in Flows \ {f} : at'[g] = at[g]
    BY <1>1 DEF FindActiveX25519PublicKey, worker, Move, TypeInv, TypeOK
  <2>5. \A d \in Copies' : d \in Copies \/ d = c
    <3>1. \A g \in Flows \ {f} : Holds(g)' => Holds(g)
      BY <2>3, <2>4 DEF Holds, Reads, Looked
    <3> QED BY <2>3, <2>4, <3>1 DEF Copies
  <2> HIDE DEF c
  <2> QED BY <1>1, <2>2, <2>5, FreshStep DEF FindActiveX25519PublicKey, server
<1>2. CASE StoreMail(f)
  <2>1. \A g \in Flows : Looked(g)' => Looked(g) /\ mem'[g] = mem[g]
    BY <1>2 DEF StoreMail, Looked, Move, TypeInv, TypeOK
  <2> QED BY <1>2, <2>1, CopiesApart, FreshStep DEF StoreMail, server, worker
<1> QED BY <1>1, <1>2 DEF Delivery

LEMMA FreshRevalidate ==
    ASSUME TypeInv, FreshInv, Revalidate
    PROVE  FreshInv'
<1>1. CASE cache' = cache
  BY <1>1, CopiesApart, FreshStep DEF Revalidate, server, Looked
<1>2. CASE cache' \in Exported
  <2> DEFINE c == [key |-> cache'.key, seen |-> cache'.seen]
  <2>1. Current(c)
    BY <1>2 DEF Current, Exported, FetchActiveKeys, Newest
  <2>2. \A g \in Flows : Holds(g)' => Holds(g) /\ mem'[g] = mem[g]
    BY DEF Revalidate, Holds, Reads, Looked
  <2>3. \A d \in Copies' : d \in Copies \/ d = c
    BY <2>2 DEF Copies
  <2> HIDE DEF c
  <2> QED BY <2>1, <2>3, FreshStep DEF Revalidate, server
<1> QED BY <1>1, <1>2 DEF Revalidate

LEMMA FreshUpload ==
    ASSUME TypeInv, FreshInv, NEW u \in uploads, Upload(u)
    PROVE  FreshInv'
<1>0. /\ u \in UploadType /\ u.seen \in Nat /\ version \in Nat /\ rows \subseteq Row
      /\ \A v \in uploads : v.seen \in Nat
  BY DEF TypeInv, TypeOK, UploadType
<1>1. /\ kind' = kind /\ cache' = cache /\ mem' = mem
  BY DEF Upload, BeginUpload, Deactivate, Lock, CommitUpload, RollBack, server, worker
<1>2. \A c \in Copies' : c \in Copies
  <2>1. kind[u.by].op # "mail"
    BY DEF TypeInv, Rotates
  <2>2. \A g \in Flows \ {u.by} : at'[g] = at[g]
    BY DEF Upload, BeginUpload, Deactivate, Lock, CommitUpload, RollBack, Answer, TypeInv, TypeOK
  <2> QED BY <1>1, <2>1, <2>2, CopiesApart DEF Looked
<1>3. ASSUME rows' = rows, version' = version, raced' = raced,
             NEW v, Replace(u, v), v.seen <= version,
             v.phase \in {"waiting", "locked"} /\ v.seen = version => Active \subseteq v.took
      PROVE  FreshInv'
  <2>1. Active' = Active
    BY <1>3 DEF Active
  <2>2. UploadsFindAll'
    BY <1>3, <2>1 DEF Replace, FreshInv, UploadsFindAll
  <2> QED BY <1>2, <1>3, <2>1, <2>2 DEF FreshInv, OneActive, CopiesCurrent, CopiesAgree
<1>4. CASE BeginUpload(u)
  <2> DEFINE v == [u EXCEPT !.phase = "begun", !.stamp = clock + 1]
  <2>1. v.seen = u.seen /\ v.phase = "begun"
    BY <1>0 DEF UploadType
  <2>2. Replace(u, v)
    BY <1>4 DEF BeginUpload
  <2> HIDE DEF v
  <2> QED BY <1>3, <1>4, <2>1, <2>2 DEF BeginUpload, FreshInv, UploadsFindAll
<1>5. CASE Deactivate(u)
  <2> DEFINE v == [u EXCEPT !.phase = "waiting", !.seen = version, !.took = Matched]
  <2>1. v.seen = version /\ v.took = Active
    BY <1>0 DEF UploadType, Matched
  <2>2. Replace(u, v)
    BY <1>5 DEF Deactivate
  <2> HIDE DEF v
  <2> QED BY <1>0, <1>3, <1>5, <2>1, <2>2 DEF Deactivate, server
<1>6. CASE Lock(u)
  <2> DEFINE v == [u EXCEPT !.phase = "locked", !.took = @ \cap rows]
  <2>1. v.seen = u.seen /\ v.took = u.took \cap rows
    BY <1>0 DEF UploadType
  <2>2. Replace(u, v) /\ u.phase = "waiting"
    BY <1>6 DEF Lock
  <2>3. u.seen <= version /\ (u.seen = version => Active \subseteq u.took \cap rows)
    BY <2>2 DEF FreshInv, UploadsFindAll, Active
  <2> HIDE DEF v
  <2> QED BY <1>3, <1>6, <2>1, <2>2, <2>3 DEF Lock, server
<1>7. CASE CommitUpload(u)
  <2> DEFINE n == [key |-> u.key, pass |-> u.pass, stamp |-> u.stamp, active |-> TRUE]
  <2>1. /\ version' = version + 1 /\ uploads' = uploads \ {u} /\ u.phase = "locked"
        /\ rows' = (rows \ u.took) \cup {[r EXCEPT !.active = FALSE] : r \in u.took} \cup {n}
        /\ raced' = IF u.seen = version THEN raced ELSE raced \cup {version + 1}
    BY <1>7 DEF CommitUpload
  <2>2. \A r \in u.took : ~[r EXCEPT !.active = FALSE].active
    BY <1>0 DEF UploadType, Row
  <2> HIDE DEF n
  <2>3. ASSUME u.seen = version PROVE Active' \subseteq {n}
    <3>1. Active \subseteq u.took
      BY <2>1, <2>3 DEF FreshInv, UploadsFindAll
    <3> QED BY <2>1, <2>2, <3>1 DEF Active
  <2>4. OneActive'
    <3>1. CASE u.seen = version
      BY <2>3, <3>1 DEF OneActive
    <3>2. CASE u.seen # version
      BY <2>1, <3>2 DEF OneActive
    <3> QED BY <3>1, <3>2
  <2>5. UploadsFindAll'
    BY <1>0, <2>1 DEF UploadsFindAll, FreshInv
  <2>6. CopiesCurrent'
    BY <1>0, <1>2, <2>1 DEF CopiesCurrent, FreshInv
  <2>7. CopiesAgree'
    BY <1>2, <2>1 DEF CopiesAgree, FreshInv
  <2> QED BY <2>4, <2>5, <2>6, <2>7 DEF FreshInv
<1>8. CASE RollBack(u)
  BY <1>2, <1>8, FreshStep DEF RollBack, server
<1> QED BY <1>4, <1>5, <1>6, <1>7, <1>8 DEF Upload

(* A tab and a mail whose keys were looked up between the same two uploads *)
(* have the same key, unless the first of them was committed across        *)
(* another one: for every number of dialogs, tabs, mails and uploads, and  *)
(* with the service worker's copies.                                       *)
THEOREM FreshMailAlwaysOpens == Spec => []FreshMailOpens
<1>1. TypeInv /\ FreshInv /\ [Next]_vars => FreshInv'
  <2> SUFFICES ASSUME TypeInv, FreshInv, [Next]_vars PROVE FreshInv'
    OBVIOUS
  <2>1. ASSUME NEW f \in Flows, Dialog(f) \/ Reader(f) \/ Delivery(f) \/ Prekeying(f)
        PROVE  FreshInv'
    BY <2>1, FreshDialog, FreshReader, FreshDelivery
  <2>2. CASE UNCHANGED vars
    BY <2>2, CopiesApart, FreshStep DEF vars, server, worker, Looked
  <2> QED BY <2>1, <2>2, FreshUpload, FreshRevalidate DEF Next
<1>2. FreshInv /\ TypeInv => FreshMailOpens
  <2> SUFFICES ASSUME FreshInv, TypeInv, NEW t \in Tabs, NEW m \in Mails, mem[t].key # None,
                      mem[t].seen = mem[m].seen, mem[m].seen \notin raced
               PROVE  Decrypted(t, m)
    BY DEF FreshMailOpens
  <2> DEFINE c == [key |-> mem[t].key, seen |-> mem[t].seen]
             d == [key |-> mem[m].key, seen |-> mem[m].seen]
  <2>1. c \in Copies /\ d \in Copies
    BY DEF Copies, Holds, Looked, Reads, Tabs, Mails
  <2>2. c.key = d.key
    BY <2>1 DEF FreshInv, CopiesAgree
  <2> QED BY <2>2 DEF Decrypted, KeyMaterial, DecryptWithX25519
<1> QED BY <1>1, <1>2, InitTyped, TypeStep, FreshInit, PTL DEF Spec

-----------------------------------------------------------------------------
(***************************************************************************)
(* Ratchet.  An opened message cannot be opened again, and a late one      *)
(* opens.  The proof gives every key pair, root and message the number of  *)
(* its turn, so that a session is determined by its turn and a few         *)
(* counters (SideOk), and then accounts for each message that the          *)
(* receiver's chain has gone over (CacheOk).                               *)
(***************************************************************************)

(***************************************************************************)
(* Key pair n is the n-th that the two sides ever ratchet with; the chain  *)
(* sealed with it is derived from root n, which all pairs up to it went    *)
(* into.                                                                   *)
(***************************************************************************)
Owner(n) == IF n % 2 = 0 THEN "alice" ELSE "bob"
KeyPair(n) == IF n = 1 THEN SignedPreKey ELSE Pair(Owner(n), "ratchet", n - 2)
Secret(h) == DhValues(h.eph, h.oneTime)
Root(h, n) == [i \in 1..n |-> IF i = 1 THEN Secret(h) ELSE ComputeDh(KeyPair(i - 1), KeyPair(i))]

Turn(s) == Len(s.root)
Age(m) == Len(m.key.of)
Entry(m) == [dh |-> m.dh, no |-> m.no, key |-> m.key]
Entries(M) == {Entry(m) : m \in M}

(* The session of p.                                                       *)
SideOk(h, p, s) ==
    LET n == Turn(s) IN
    /\ n \in Nat \ {0} /\ Owner(n) = p
    /\ s = [own |-> KeyPair(n), their |-> IF n = 1 THEN NoPair ELSE KeyPair(n - 1),
            root |-> Root(h, n),
            sending |-> IF n = 1 THEN NoChain ELSE [of |-> Root(h, n), step |-> s.sendNo],
            receiving |-> IF n <= 2 THEN NoChain ELSE [of |-> Root(h, n - 1), step |-> s.recvNo],
            sendNo |-> s.sendNo, recvNo |-> s.recvNo, previous |-> s.previous,
            skipped |-> s.skipped]
    /\ s.sendNo \in Nat /\ s.recvNo \in Nat /\ s.previous \in Nat

(* Those of M that were sent after m.                                     *)
After(M, m) == {n \in M : n.nth > m.nth}

(* All messages M of one side p.                                           *)
MessagesOk(h, p, M) ==
    /\ IsFiniteSet(M)
    /\ \A m \in M :
          /\ Age(m) \in Nat /\ Age(m) >= 2 /\ Owner(Age(m)) = p
          /\ m.dh = KeyPair(Age(m)) /\ m.key = [of |-> Root(h, Age(m)), step |-> m.no]
          /\ m.no \in Nat /\ m.previous \in Nat
          /\ m.nth \in 1..Cardinality(M)
          /\ Cardinality(After(M, m)) = Cardinality(M) - m.nth
    /\ \A m, n \in M :
          /\ m.nth = n.nth => m = n
          /\ Age(m) = Age(n) => m.nth + n.no = n.nth + m.no
          /\ Age(m) < Age(n) => m.nth + n.no < n.nth
          /\ Age(m) = Age(n) - 2 => m.no < n.previous
    /\ \A m \in M : \A j \in 0..(m.no - 1) :
          \E n \in M : Age(n) = Age(m) /\ n.no = j
    /\ \A m \in M : \A j \in 0..(m.previous - 1) :
          \E n \in M : Age(n) = Age(m) - 2 /\ n.no = j

(* How they stand to the sender's session.                                 *)
SenderOk(s, M) ==
    /\ \A m \in M :
          /\ Age(m) <= Turn(s)
          /\ Age(m) = Turn(s) => m.no < s.sendNo /\ m.nth = Cardinality(M) - s.sendNo + m.no + 1
          /\ Age(m) < Turn(s) => m.nth <= Cardinality(M) - s.sendNo
          /\ Age(m) = Turn(s) - 2 => m.no < s.previous
    /\ \A j \in 0..(s.sendNo - 1) : \E n \in M : Age(n) = Turn(s) /\ n.no = j
    /\ \A j \in 0..(s.previous - 1) : \E n \in M : Age(n) = Turn(s) - 2 /\ n.no = j

(* The receiver's chain has gone over the message or entry.                *)
Past(s, e) == Age(e) < Turn(s) - 1 \/ (Age(e) = Turn(s) - 1 /\ e.no < s.recvNo)

(* Entries are in the order of their messages, and at least as far apart.  *)
Spread(M, q) ==
    \A i, j \in 1..Len(q) : i < j =>
        \A x, y \in M : q[i] = Entry(x) /\ q[j] = Entry(y) => y.nth >= x.nth + (j - i)

(* The cache of a receiver that has read R of the messages M.              *)
CacheOk(M, R, s) ==
    /\ R \subseteq M
    /\ \A m \in R : Past(s, m)
    /\ s.skipped \in Seq(Entries(M \ R))
    /\ Len(s.skipped) <= MaxSkippedKeys
    /\ \A i \in 1..Len(s.skipped) : Past(s, s.skipped[i])
    /\ Spread(M, s.skipped)
    /\ \A m \in M \ R : Past(s, m) =>
          \/ \E i \in 1..Len(s.skipped) : s.skipped[i] = Entry(m)
          \/ \E n \in M : n.nth > m.nth + MaxSkippedKeys

(* A receiver is at most one turn ahead, and then not past what was sent.  *)
InStep(r, s) == Turn(r) <= Turn(s) + 1 /\ (Turn(r) = Turn(s) + 1 => r.recvNo <= s.sendNo)

There(p) == session[p] # NoSession

SideInv(p) ==
    /\ MessagesOk(hello, p, By(p))
    /\ ~There(p) => By(p) = {} /\ opened[p] = {}
    /\ There(p) => /\ SideOk(hello, p, session[p])
                   /\ SenderOk(session[p], By(p))
                   /\ CacheOk(By(Other(p)), opened[p], session[p])

RatchetInv ==
    /\ DOMAIN session = Sides /\ DOMAIN opened = Sides
    /\ \A m \in sent : m.from \in Sides
    /\ There("alice") <=> hello # NoHello
    /\ There("bob") => There("alice")
    /\ There("alice") /\ ~There("bob") => Turn(session["alice"]) = 2 /\ session["alice"].recvNo = 0
    /\ There("bob") => \A p \in Sides : InStep(session[p], session[Other(p)])
    /\ \A p \in Sides : SideInv(p)
-----------------------------------------------------------------------------
(* The key pairs and roots.                                                *)

LEMMA Turns ==
    ASSUME NEW a \in Nat, NEW b \in Nat
    PROVE  /\ Owner(a) \in Sides
           /\ Owner(a + 1) = Other(Owner(a))
           /\ Owner(a) = Owner(b) /\ a < b => a + 2 <= b
           /\ Owner(a) = Other(Owner(b)) => a # b
           /\ Owner(a + 2) = Owner(a)
BY SMT DEF Owner, Other, Sides

LEMMA KeyPairs ==
    ASSUME NEW a \in Nat \ {0}, NEW b \in Nat \ {0}
    PROVE  /\ KeyPair(a) = KeyPair(b) => a = b
           /\ KeyPair(a) # NoPair
<1>1. CASE a = 1 /\ b = 1
  BY <1>1 DEF KeyPair, SignedPreKey, NoPair, Pair
<1>2. CASE a = 1 /\ b # 1
  BY <1>2 DEF KeyPair, SignedPreKey, NoPair, Pair
<1>3. CASE a # 1 /\ b = 1
  BY <1>3 DEF KeyPair, SignedPreKey, NoPair, Pair
<1>4. CASE a # 1 /\ b # 1
  BY <1>4 DEF KeyPair, SignedPreKey, NoPair, Pair
<1> QED BY <1>1, <1>2, <1>3, <1>4

LEMMA Roots ==
    ASSUME NEW h, NEW n \in Nat \ {0}
    PROVE  /\ Len(Root(h, n)) = n
           /\ KdfRoot(Root(h, n), ComputeDh(KeyPair(n), KeyPair(n + 1))) = Root(h, n + 1)
           /\ KdfRoot(Root(h, n), ComputeDh(KeyPair(n + 1), KeyPair(n))) = Root(h, n + 1)
           /\ Len(KdfRoot(Root(h, n), ComputeDh(KeyPair(n), KeyPair(n + 1)))) = n + 1
<1> DEFINE T == {Secret(h)} \cup {ComputeDh(KeyPair(i), KeyPair(i + 1)) : i \in Nat}
           e == ComputeDh(KeyPair(n), KeyPair(n + 1))
           r == Root(h, n)
<1>1. \A i \in Nat \ {0} : Root(h, i) \in Seq(T) /\ Len(Root(h, i)) = i
  <2> TAKE i \in Nat \ {0}
  <2>1. \A k \in 1..i : (IF k = 1 THEN Secret(h) ELSE ComputeDh(KeyPair(k - 1), KeyPair(k))) \in T
    <3> TAKE k \in 1..i
    <3>1. CASE k # 1
      <4>1. k - 1 \in Nat /\ (k - 1) + 1 = k
        BY <3>1
      <4> QED BY <3>1, <4>1
    <3> QED BY <3>1
  <2> DEFINE f == Root(h, i)
  <2>2. f \in [1..i -> T]
    BY <2>1 DEF Root
  <2> HIDE DEF T, f
  <2>3. f \in Seq(T) /\ Len(f) = i
    BY <2>2
  <2> QED BY <2>3 DEF f
<1>2. e \in T /\ ComputeDh(KeyPair(n + 1), KeyPair(n)) = e
  BY DEF ComputeDh
<1>3. Root(h, n + 1)[n + 1] = e /\ \A i \in 1..n : Root(h, n + 1)[i] = r[i]
  BY DEF Root
<1>4. /\ Append(r, e) \in Seq(T) /\ Len(Append(r, e)) = n + 1
      /\ Append(r, e)[n + 1] = e /\ \A i \in 1..n : Append(r, e)[i] = r[i]
  <2> HIDE DEF T, e, r
  <2>1. r \in Seq(T) /\ Len(r) = n
    BY <1>1 DEF r
  <2> QED BY <2>1, <1>2, AppendProperties
<1>5. Append(r, e) = Root(h, n + 1)
  <2> DEFINE w == Append(r, e)
             x == Root(h, n + 1)
  <2>1. x \in Seq(T) /\ Len(x) = n + 1
    BY <1>1
  <2>2. \A i \in 1..(n + 1) : w[i] = x[i]
    BY <1>3, <1>4
  <2> HIDE DEF w, x, T
  <2>3. w \in Seq(T) /\ Len(w) = n + 1
    BY <1>4 DEF w
  <2>4. w = x
    BY <2>1, <2>2, <2>3, SeqEqual
  <2> QED BY <2>4 DEF w, x
<1> QED BY <1>1, <1>2, <1>4, <1>5 DEF KdfRoot

LEMMA ChainsDiffer ==
    ASSUME NEW h, NEW n \in Nat \ {0}, NEW k
    PROVE  [of |-> Root(h, n), step |-> k] # NoChain
BY Roots DEF NoChain, Chain
-----------------------------------------------------------------------------
(* Messages and the entries of the cache.                                  *)

LEMMA Fields ==
    ASSUME NEW h, NEW o, NEW M, MessagesOk(h, o, M), NEW x \in M
    PROVE  /\ Cardinality(M) \in Nat
           /\ Age(x) \in Nat \ {0} /\ Age(x) >= 2 /\ Owner(Age(x)) = o
           /\ x.dh = KeyPair(Age(x)) /\ x.key = [of |-> Root(h, Age(x)), step |-> x.no]
           /\ x.no \in Nat /\ x.previous \in Nat
           /\ x.nth \in Nat /\ x.nth <= Cardinality(M)
<1>1. Cardinality(M) \in Nat
  BY FS_CardinalityType DEF MessagesOk
<1>2. /\ Age(x) \in Nat /\ Age(x) >= 2 /\ Owner(Age(x)) = o
      /\ x.dh = KeyPair(Age(x)) /\ x.key = [of |-> Root(h, Age(x)), step |-> x.no]
      /\ x.no \in Nat /\ x.previous \in Nat
      /\ x.nth \in 1..Cardinality(M)
  BY Zenon DEF MessagesOk
<1> QED BY <1>1, <1>2

LEMMA Order ==
    ASSUME NEW h, NEW o, NEW M, MessagesOk(h, o, M), NEW x \in M, NEW y \in M
    PROVE  /\ x.nth = y.nth => x = y
           /\ Age(x) = Age(y) => x.nth + y.no = y.nth + x.no
           /\ Age(x) < Age(y) => x.nth + y.no < y.nth
           /\ Age(x) = Age(y) - 2 => x.no < y.previous
BY Zenon DEF MessagesOk

LEMMA Distinct ==
    ASSUME NEW h, NEW o, NEW M, MessagesOk(h, o, M), NEW x \in M, NEW y \in M
    PROVE  /\ x.dh = y.dh /\ x.no = y.no => x = y
           /\ Entry(x) = Entry(y) => x = y
           /\ Entry(x).no = x.no /\ Entry(x).dh = x.dh /\ Entry(x).key = x.key
           /\ Age(Entry(x)) = Age(x)
<1>1. /\ Age(x) \in Nat \ {0} /\ x.dh = KeyPair(Age(x)) /\ x.no \in Nat
      /\ Age(y) \in Nat \ {0} /\ y.dh = KeyPair(Age(y)) /\ y.no \in Nat
      /\ x.nth \in Int /\ y.nth \in Int
      /\ x.nth = y.nth => x = y
      /\ Age(x) = Age(y) => x.nth + y.no = y.nth + x.no
  <2>1. Age(x) \in Nat \ {0} /\ x.dh = KeyPair(Age(x)) /\ x.no \in Nat /\ x.nth \in Nat
    BY Fields, Zenon
  <2>2. Age(y) \in Nat \ {0} /\ y.dh = KeyPair(Age(y)) /\ y.no \in Nat /\ y.nth \in Nat
    BY Fields, Zenon
  <2>3. /\ x.nth = y.nth => x = y
        /\ Age(x) = Age(y) => x.nth + y.no = y.nth + x.no
    BY Order
  <2> QED BY <2>1, <2>2, <2>3
<1>2. x.dh = y.dh => Age(x) = Age(y)
  BY <1>1, KeyPairs
<1>3. x.dh = y.dh /\ x.no = y.no => x = y
  BY <1>1, <1>2
<1>4. Entry(x).no = x.no /\ Entry(x).dh = x.dh /\ Entry(x).key = x.key
  BY DEF Entry
<1>5. Entry(y).no = y.no /\ Entry(y).dh = y.dh
  BY DEF Entry
<1> QED BY <1>3, <1>4, <1>5 DEF Age

LEMMA PastOrder ==
    ASSUME NEW h, NEW o, NEW M, MessagesOk(h, o, M), NEW s,
           Turn(s) \in Nat, s.recvNo \in Nat,
           NEW x \in M, NEW m \in M, Past(s, x), ~Past(s, m)
    PROVE  x.nth < m.nth
<1>1. /\ Age(x) \in Nat /\ x.no \in Nat /\ Age(m) \in Nat /\ m.no \in Nat
      /\ x.nth \in Int /\ m.nth \in Int
      /\ Age(x) = Age(m) => x.nth + m.no = m.nth + x.no
      /\ Age(x) < Age(m) => x.nth + m.no < m.nth
  <2>1. Age(x) \in Nat /\ x.no \in Nat /\ x.nth \in Nat
    BY Fields, Zenon
  <2>2. Age(m) \in Nat /\ m.no \in Nat /\ m.nth \in Nat
    BY Fields, Zenon
  <2>3. /\ Age(x) = Age(m) => x.nth + m.no = m.nth + x.no
        /\ Age(x) < Age(m) => x.nth + m.no < m.nth
    BY Order
  <2> QED BY <2>1, <2>2, <2>3
<1> QED BY <1>1 DEF Past

LEMMA BoundedKeys ==
    ASSUME NEW S, NEW q \in Seq(S)
    PROVE  LET t == WithBoundedSkippedKeys(q) IN
           /\ t \in Seq(S) /\ Len(t) \in Nat /\ Len(t) <= MaxSkippedKeys /\ Len(t) <= Len(q)
           /\ \A i \in 1..Len(t) : t[i] = q[i + (Len(q) - Len(t))]
           /\ Len(q) > MaxSkippedKeys => Len(t) = MaxSkippedKeys
           /\ Len(q) <= MaxSkippedKeys => Len(t) = Len(q)
<1> DEFINE a == Len(q) - MaxSkippedKeys + 1
           u == SubSeq(q, a, Len(q))
<1>1. MaxSkippedKeys \in Nat \ {0}
  BY RatchetAssumption
<1>2. CASE Len(q) <= MaxSkippedKeys
  BY <1>1, <1>2 DEF WithBoundedSkippedKeys
<1>3. CASE Len(q) > MaxSkippedKeys
  <2>1. a \in Int /\ Len(q) \in Int /\ a >= 1 /\ Len(q) - a + 1 = MaxSkippedKeys /\ a <= Len(q)
    BY <1>1, <1>3
  <2>2. \A i \in a .. Len(q) : q[i] \in S
    BY <2>1
  <2>3. /\ u \in Seq(S) /\ Len(u) = MaxSkippedKeys
        /\ \A i \in 1..MaxSkippedKeys : u[i] = q[a + i - 1]
    <3> HIDE DEF a
    <3> QED BY <2>1, <2>2, SubSeqProperties
  <2>4. WithBoundedSkippedKeys(q) = u
    BY <1>1, <1>3 DEF WithBoundedSkippedKeys
  <2>5. \A i \in 1..MaxSkippedKeys : a + i - 1 = i + (Len(q) - MaxSkippedKeys)
    BY <1>1
  <2> DEFINE t == WithBoundedSkippedKeys(q)
  <2>6. /\ t \in Seq(S) /\ Len(t) = MaxSkippedKeys /\ Len(q) \in Nat
        /\ \A i \in 1..MaxSkippedKeys : t[i] = q[i + (Len(q) - MaxSkippedKeys)]
    <3> HIDE DEF u, a
    <3> QED BY <2>3, <2>4, <2>5
  <2> HIDE DEF t
  <2>7. /\ t \in Seq(S) /\ Len(t) \in Nat /\ Len(t) <= MaxSkippedKeys /\ Len(t) <= Len(q)
        /\ \A i \in 1..Len(t) : t[i] = q[i + (Len(q) - Len(t))]
        /\ Len(q) > MaxSkippedKeys => Len(t) = MaxSkippedKeys
        /\ Len(q) <= MaxSkippedKeys => Len(t) = Len(q)
    BY <1>1, <1>3, <2>6
  <2> QED BY <2>7 DEF t
<1> QED BY <1>1, <1>2, <1>3

LEMMA BoundedSpread ==
    ASSUME NEW S, NEW q \in Seq(S), NEW M, Spread(M, q)
    PROVE  Spread(M, WithBoundedSkippedKeys(q))
<1> DEFINE t == WithBoundedSkippedKeys(q)
           d == Len(q) - Len(t)
<1>1. /\ t \in Seq(S) /\ Len(t) \in Nat /\ Len(t) <= Len(q)
      /\ \A i \in 1..Len(t) : t[i] = q[i + d]
  BY BoundedKeys
<1>2. d \in Nat /\ \A i \in 1..Len(t) : i + d \in 1..Len(q)
  BY <1>1
<1> HIDE DEF t, d
<1>3. ASSUME NEW i \in 1..Len(t), NEW j \in 1..Len(t), i < j, NEW x \in M, NEW y \in M,
             t[i] = Entry(x), t[j] = Entry(y)
      PROVE  y.nth >= x.nth + (j - i)
  <2>1. q[i + d] = Entry(x) /\ q[j + d] = Entry(y) /\ i + d < j + d
    BY <1>1, <1>2, <1>3
  <2>2. y.nth >= x.nth + ((j + d) - (i + d))
    BY <1>2, <2>1 DEF Spread
  <2> QED BY <1>1, <1>2, <2>2
<1>4. Spread(M, t)
  BY <1>3 DEF Spread
<1> QED BY <1>4 DEF t
-----------------------------------------------------------------------------
(* Putting keys aside.                                                     *)

IsSession(s) ==
    s = [own |-> s.own, their |-> s.their, root |-> s.root, sending |-> s.sending,
         receiving |-> s.receiving, sendNo |-> s.sendNo, recvNo |-> s.recvNo,
         previous |-> s.previous, skipped |-> s.skipped]

Put(s, until) ==
    [i \in 1..(until - s.recvNo) |->
        [dh |-> s.their, no |-> s.recvNo + i - 1,
         key |-> [of |-> s.receiving.of, step |-> s.recvNo + i - 1]]]

LEMMA IsRecord ==
    ASSUME NEW own, NEW their, NEW root, NEW sending, NEW receiving, NEW sendNo, NEW recvNo,
           NEW previous, NEW skipped,
           NEW t \in [own : {own}, their : {their}, root : {root}, sending : {sending},
                      receiving : {receiving}, sendNo : {sendNo}, recvNo : {recvNo},
                      previous : {previous}, skipped : {skipped}]
    PROVE  t = [own |-> own, their |-> their, root |-> root, sending |-> sending,
                receiving |-> receiving, sendNo |-> sendNo, recvNo |-> recvNo,
                previous |-> previous, skipped |-> skipped]
<1>1. /\ t.own = own /\ t.their = their /\ t.root = root /\ t.sending = sending
      /\ t.receiving = receiving /\ t.sendNo = sendNo /\ t.recvNo = recvNo
      /\ t.previous = previous /\ t.skipped = skipped
  OBVIOUS
<1>2. IsSession(t)
  BY DEF IsSession
<1> QED BY <1>1, <1>2 DEF IsSession

LEMMA SkipFields ==
    ASSUME NEW s, IsSession(s), NEW r, s.receiving = [of |-> r, step |-> s.recvNo],
           s.receiving # NoChain, s.recvNo \in Nat,
           NEW until \in Nat, until >= s.recvNo
    PROVE  SkipMessageKeys(s, until) =
             [own |-> s.own, their |-> s.their, root |-> s.root, sending |-> s.sending,
              receiving |-> [of |-> r, step |-> until],
              sendNo |-> s.sendNo, recvNo |-> until, previous |-> s.previous,
              skipped |-> WithBoundedSkippedKeys(s.skipped \o Put(s, until))]
<1> DEFINE put == [i \in 1..(until - s.recvNo) |->
                      [dh |-> s.their, no |-> s.recvNo + i - 1,
                       key |-> [s.receiving EXCEPT !.step = @ + i - 1]]]
           q == WithBoundedSkippedKeys(s.skipped \o put)
<1>1. \A i \in 1..(until - s.recvNo) :
         [s.receiving EXCEPT !.step = @ + i - 1] = [of |-> s.receiving.of, step |-> s.recvNo + i - 1]
  OBVIOUS
<1>2. put = Put(s, until)
  BY <1>1 DEF Put
<1>3. SkipMessageKeys(s, until) =
         [s EXCEPT !.receiving.step = @ + until - s.recvNo, !.recvNo = until, !.skipped = q]
  BY DEF SkipMessageKeys
<1> HIDE DEF q
<1>4. [s.receiving EXCEPT !.step = @ + until - s.recvNo] = [of |-> r, step |-> until]
  <2>1. s.recvNo + until - s.recvNo = until
    OBVIOUS
  <2> QED BY <2>1
<1> DEFINE c == [s.receiving EXCEPT !.step = @ + until - s.recvNo]
           t == [s EXCEPT !.receiving.step = @ + until - s.recvNo, !.recvNo = until, !.skipped = q]
<1>5. t \in [own : {s.own}, their : {s.their}, root : {s.root}, sending : {s.sending},
             receiving : {c}, sendNo : {s.sendNo}, recvNo : {until},
             previous : {s.previous}, skipped : {q}]
  BY DEF IsSession
<1> HIDE DEF t, c
<1>6. t = [own |-> s.own, their |-> s.their, root |-> s.root, sending |-> s.sending,
           receiving |-> c, sendNo |-> s.sendNo, recvNo |-> until, previous |-> s.previous,
           skipped |-> q]
  BY <1>5, IsRecord
<1> QED BY <1>2, <1>3, <1>4, <1>6 DEF q, t, c

(* The chain that s receives on has been used up to a number, and m was    *)
(* sent after all of that.                                                 *)
Numbered(M, s, until) ==
    \A j \in 0..(until - 1) : \E x \in M : Age(x) = Turn(s) - 1 /\ x.no = j
SentBefore(M, s, until, m) ==
    \A x \in M : Age(x) = Turn(s) - 1 /\ x.no < until => x.nth < m.nth

PutOk(M, R, s, until, put) ==
    /\ put \in Seq(Entries(M \ R)) /\ Len(put) = until - s.recvNo
    /\ \A i \in 1..Len(put) : \A x \in M :
          put[i] = Entry(x) => Age(x) = Turn(s) - 1 /\ x.no = s.recvNo + i - 1
    /\ \A x \in M : Age(x) = Turn(s) - 1 /\ x.no >= s.recvNo /\ x.no < until
          => x.no - s.recvNo + 1 \in 1..Len(put) /\ put[x.no - s.recvNo + 1] = Entry(x)
    /\ Spread(M, put)

(* The messages that the skipped numbers belong to.                        *)
LEMMA PutEntries ==
    ASSUME NEW h, NEW o, NEW M, MessagesOk(h, o, M), NEW R, NEW s, CacheOk(M, R, s),
           Turn(s) \in Nat, Turn(s) >= 3, s.recvNo \in Nat,
           s.their = KeyPair(Turn(s) - 1), s.receiving.of = Root(h, Turn(s) - 1),
           NEW until \in Nat, until >= s.recvNo,
           Numbered(M, s, until)
    PROVE  PutOk(M, R, s, until, Put(s, until))
<1> DEFINE put == Put(s, until)
           k == until - s.recvNo
<1>1. \A i \in 1..k : put[i] = [dh |-> s.their, no |-> s.recvNo + i - 1,
                                key |-> [of |-> Root(h, Turn(s) - 1), step |-> s.recvNo + i - 1]]
  BY DEF Put
<1>2. k \in Nat /\ DOMAIN put = 1..k
  BY DEF Put
<1>3. ASSUME NEW S, \A i \in 1..k : put[i] \in S
      PROVE  put \in Seq(S) /\ Len(put) = k
  <2>1. put \in [1..k -> S]
    BY <1>3 DEF Put
  <2> HIDE DEF put, k
  <2> QED BY <1>2, <2>1
<1> HIDE DEF put
<1>4. ASSUME NEW x \in M, NEW i \in 1..k, Age(x) = Turn(s) - 1, x.no = s.recvNo + i - 1
      PROVE  put[i] = Entry(x) /\ x \notin R
  <2>1. x.dh = s.their /\ x.key = [of |-> Root(h, Turn(s) - 1), step |-> x.no]
    BY <1>4, Fields
  <2>2. put[i] = Entry(x)
    BY <1>1, <1>4, <2>1 DEF Entry
  <2>3. ~Past(s, x)
    BY <1>4 DEF Past
  <2>4. x \notin R
    BY <2>3 DEF CacheOk
  <2> QED BY <2>2, <2>4
<1>5. \A i \in 1..k : put[i] \in Entries(M \ R)
  <2> TAKE i \in 1..k
  <2>1. s.recvNo + i - 1 \in 0..(until - 1)
    OBVIOUS
  <2>2. PICK x \in M : Age(x) = Turn(s) - 1 /\ x.no = s.recvNo + i - 1
    BY <2>1 DEF Numbered
  <2> QED BY <1>4, <2>2 DEF Entries
<1>6. put \in Seq(Entries(M \ R)) /\ Len(put) = k
  BY <1>3, <1>5
<1>7. ASSUME NEW i \in 1..k, NEW x \in M, put[i] = Entry(x)
      PROVE  Age(x) = Turn(s) - 1 /\ x.no = s.recvNo + i - 1
  <2>1. Entry(x).no = x.no /\ Entry(x).key = x.key
    BY DEF Entry
  <2>2. put[i].no = s.recvNo + i - 1 /\ put[i].key.of = Root(h, Turn(s) - 1)
    <3>1. put[i] = [dh |-> s.their, no |-> s.recvNo + i - 1,
                    key |-> [of |-> Root(h, Turn(s) - 1), step |-> s.recvNo + i - 1]]
      BY <1>1, <1>7
    <3> HIDE <1>7
    <3> QED BY <3>1
  <2>4. x.no = s.recvNo + i - 1 /\ x.key.of = Root(h, Turn(s) - 1)
    BY <1>7, <2>1, <2>2
  <2>3. Len(Root(h, Turn(s) - 1)) = Turn(s) - 1
    BY Roots
  <2> QED BY <2>3, <2>4 DEF Age
<1>8. ASSUME NEW x \in M, Age(x) = Turn(s) - 1, x.no >= s.recvNo, x.no < until
      PROVE  x.no - s.recvNo + 1 \in 1..k /\ put[x.no - s.recvNo + 1] = Entry(x)
  <2>1. x.no \in Nat
    BY Fields
  <2>2. x.no - s.recvNo + 1 \in 1..k /\ x.no = s.recvNo + (x.no - s.recvNo + 1) - 1
    BY <1>8, <2>1
  <2> QED BY <1>4, <1>8, <2>2
<1>9. ASSUME NEW i \in 1..k, NEW j \in 1..k, i < j, NEW x \in M, NEW y \in M,
             put[i] = Entry(x), put[j] = Entry(y)
      PROVE  y.nth >= x.nth + (j - i)
  <2>1. /\ Age(x) = Age(y) /\ x.no = s.recvNo + i - 1 /\ y.no = s.recvNo + j - 1
    BY <1>7, <1>9
  <2>2. x.nth \in Nat /\ y.nth \in Nat
    BY Fields
  <2>3. x.nth + y.no = y.nth + x.no
    BY <2>1, Order
  <2> QED BY <2>1, <2>2, <2>3
<1>10. Spread(M, put)
  BY <1>6, <1>9 DEF Spread
<1> QED BY <1>6, <1>7, <1>8, <1>10 DEF put, PutOk

LEMMA PastEntry == ASSUME NEW s, NEW x PROVE Past(s, Entry(x)) <=> Past(s, x)
BY DEF Past, Entry, Age

LEMMA Apart ==
    ASSUME NEW a \in Nat, NEW b \in Nat, NEW c \in Nat, NEW i \in Nat, NEW j \in Nat, NEW d \in Nat,
           b >= a + (d - i), c >= b + (j - d)
    PROVE  c >= a + (j - i)
OBVIOUS

(* Keys that are put aside, the oldest falling out, on the way to m.       *)
LEMMA SkipKeeps ==
    ASSUME NEW h, NEW o, NEW M, MessagesOk(h, o, M), NEW R, NEW s, CacheOk(M, R, s),
           Turn(s) \in Nat, Turn(s) >= 3, s.recvNo \in Nat,
           s.their = KeyPair(Turn(s) - 1), s.receiving.of = Root(h, Turn(s) - 1),
           NEW until \in Nat, until >= s.recvNo,
           Numbered(M, s, until), NEW m \in M, ~Past(s, m), SentBefore(M, s, until, m),
           NEW t, Turn(t) = Turn(s), t.recvNo = until,
           t.skipped = WithBoundedSkippedKeys(s.skipped \o Put(s, until))
    PROVE  CacheOk(M, R, t)
<1> DEFINE put == Put(s, until)
           q == s.skipped \o put
           w == WithBoundedSkippedKeys(q)
           E == Entries(M \ R)
           d == Len(s.skipped)
<1>1. /\ put \in Seq(E) /\ Len(put) = until - s.recvNo
      /\ \A i \in 1..Len(put) : \A x \in M :
            put[i] = Entry(x) => Age(x) = Turn(s) - 1 /\ x.no = s.recvNo + i - 1
      /\ \A x \in M : Age(x) = Turn(s) - 1 /\ x.no >= s.recvNo /\ x.no < until
            => x.no - s.recvNo + 1 \in 1..Len(put) /\ put[x.no - s.recvNo + 1] = Entry(x)
      /\ Spread(M, put)
  <2>1. PutOk(M, R, s, until, put)
    BY PutEntries
  <2> HIDE DEF put
  <2> QED BY <2>1 DEF PutOk
<1> HIDE DEF put, E
<1>2. /\ R \subseteq M
      /\ \A x \in R : Past(s, x)
      /\ s.skipped \in Seq(E)
      /\ \A i \in 1..d : Past(s, s.skipped[i])
      /\ Spread(M, s.skipped)
      /\ \A x \in M \ R : Past(s, x) =>
            \/ \E i \in 1..d : s.skipped[i] = Entry(x)
            \/ \E n \in M : n.nth > x.nth + MaxSkippedKeys
  BY DEF CacheOk, E
<1>3. /\ q \in Seq(E) /\ Len(q) = d + Len(put) /\ d \in Nat /\ Len(put) \in Nat
      /\ \A i \in 1..d : i \in 1..Len(q) /\ q[i] = s.skipped[i]
      /\ \A i \in 1..Len(put) : d + i \in 1..Len(q) /\ q[d + i] = put[i]
      /\ \A i \in 1..Len(q) : i > d => q[i] = put[i - d] /\ i - d \in 1..Len(put)
  <2> DEFINE a == s.skipped
  <2>1. a \in Seq(E) /\ put \in Seq(E)
    BY <1>1, <1>2
  <2> HIDE DEF a
  <2>2. /\ a \o put \in Seq(E) /\ Len(a \o put) = Len(a) + Len(put)
        /\ \A i \in 1..(Len(a) + Len(put)) :
              (a \o put)[i] = IF i <= Len(a) THEN a[i] ELSE put[i - Len(a)]
        /\ Len(a) \in Nat /\ Len(put) \in Nat
    BY <2>1, ConcatProperties
  <2>3. /\ \A i \in 1..Len(a) : i \in 1..(Len(a) + Len(put)) /\ i <= Len(a)
        /\ \A i \in 1..Len(put) : /\ Len(a) + i \in 1..(Len(a) + Len(put)) /\ ~(Len(a) + i <= Len(a))
                                  /\ (Len(a) + i) - Len(a) = i
        /\ \A i \in 1..(Len(a) + Len(put)) : i > Len(a) => ~(i <= Len(a)) /\ i - Len(a) \in 1..Len(put)
    BY <2>2
  <2> DEFINE b == a \o put
  <2>4. /\ b \in Seq(E) /\ Len(b) = Len(a) + Len(put)
        /\ \A i \in 1..Len(a) : i \in 1..Len(b) /\ b[i] = a[i]
        /\ \A i \in 1..Len(put) : Len(a) + i \in 1..Len(b) /\ b[Len(a) + i] = put[i]
        /\ \A i \in 1..Len(b) : i > Len(a) => b[i] = put[i - Len(a)] /\ i - Len(a) \in 1..Len(put)
    BY <2>2, <2>3
  <2> QED BY <2>2, <2>4 DEF a
<1> HIDE DEF q
<1>4. ASSUME NEW x \in M
      PROVE  /\ Past(s, x) => Past(t, x) /\ x.nth < m.nth
             /\ Age(x) = Turn(s) - 1 /\ x.no < until => Past(t, x) /\ x.nth < m.nth
             /\ Past(t, x) => Past(s, x) \/ (Age(x) = Turn(s) - 1 /\ x.no >= s.recvNo /\ x.no < until)
  <2>1. x.no \in Nat /\ Age(x) \in Nat
    BY Fields
  <2>2. Past(s, x) => x.nth < m.nth
    BY PastOrder
  <2>3. Age(x) = Turn(s) - 1 /\ x.no < until => x.nth < m.nth
    BY DEF SentBefore
  <2> QED BY <2>1, <2>2, <2>3 DEF Past
<1>5. ASSUME NEW i \in 1..Len(q)
      PROVE  \E z \in M \ R :
               /\ q[i] = Entry(z) /\ Past(t, z) /\ z.nth < m.nth
               /\ i <= d => Past(s, z)
               /\ i > d => Age(z) = Turn(s) - 1 /\ z.no = s.recvNo + (i - d) - 1
  <2>1. q[i] \in E
    BY <1>3
  <2>2. PICK z \in M \ R : q[i] = Entry(z)
    BY <2>1 DEF E, Entries
  <2>3. CASE i <= d
    <3>1. i \in 1..d /\ q[i] = s.skipped[i]
      BY <1>3, <2>3
    <3>2. Past(s, z)
      BY <1>2, <2>2, <3>1, PastEntry
    <3> QED BY <1>4, <2>2, <2>3, <3>2
  <2>4. CASE i > d
    <3>1. put[i - d] = Entry(z) /\ i - d \in 1..Len(put)
      BY <1>3, <2>2, <2>4
    <3>2. Age(z) = Turn(s) - 1 /\ z.no = s.recvNo + (i - d) - 1
      BY <1>1, <3>1
    <3>3. z.no < until
      <4>1. i - d <= until - s.recvNo /\ d \in Nat /\ i \in Nat
        BY <1>1, <1>3, <3>1
      <4> HIDE DEF d
      <4> QED BY <3>2, <4>1
    <3> QED BY <1>4, <2>2, <2>4, <3>2, <3>3
  <2> QED BY <1>3, <2>3, <2>4
<1>6. ASSUME NEW i \in 1..Len(q), NEW j \in 1..Len(q), i < j, NEW x \in M, NEW y \in M,
             q[i] = Entry(x), q[j] = Entry(y)
      PROVE  y.nth >= x.nth + (j - i)
  <2>1. CASE j <= d
    <3>0. i \in 1..d /\ j \in 1..d
      <4>1. d \in Nat /\ i \in Nat /\ j \in Nat /\ i >= 1 /\ i < j /\ j <= d
        BY <1>3, <1>6, <2>1
      <4> HIDE DEF d, q
      <4> QED BY <4>1
    <3>1. i \in 1..d /\ j \in 1..d /\ s.skipped[i] = Entry(x) /\ s.skipped[j] = Entry(y)
      BY <1>3, <1>6, <3>0
    <3> QED BY <1>2, <1>6, <3>1 DEF Spread
  <2>2. CASE i > d
    <3>1. /\ i - d \in 1..Len(put) /\ j - d \in 1..Len(put) /\ i - d < j - d
          /\ put[i - d] = Entry(x) /\ put[j - d] = Entry(y)
      <4>1. i > d /\ j > d /\ i - d < j - d
        <5>1. d \in Nat /\ i \in Nat /\ j \in Nat
          BY <1>3
        <5>2. i < j /\ i > d
          BY <1>6, <2>2
        <5> HIDE DEF d, q
        <5> QED BY <5>1, <5>2
      <4>2. q[i] = put[i - d] /\ i - d \in 1..Len(put)
        BY <1>3, <4>1
      <4>3. q[j] = put[j - d] /\ j - d \in 1..Len(put)
        BY <1>3, <4>1
      <4> QED BY <1>6, <4>1, <4>2, <4>3
    <3>2. y.nth >= x.nth + ((j - d) - (i - d))
      BY <1>1, <3>1 DEF Spread
    <3>3. (j - d) - (i - d) = j - i
      BY <1>3
    <3> QED BY <3>2, <3>3
  <2>3. CASE i <= d /\ j > d
    (* The last entry lies between, or is the first of the two itself.     *)
    <3>1. d \in 1..d /\ d \in 1..Len(q)
      BY <1>3, <2>3
    <3>2. PICK z \in M \ R : q[d] = Entry(z) /\ Past(s, z)
      <4>1. d <= d
        BY <1>3
      <4> QED BY <1>5, <3>1, <4>1
    <3>3. z.nth >= x.nth + (d - i)
      <4>1. CASE i = d
        <5>1. x = z
          BY <1>6, <3>2, <4>1, Distinct
        <5>2. x.nth \in Nat
          BY Fields
        <5> QED BY <1>3, <4>1, <5>1, <5>2
      <4>2. CASE i < d
        <5>1. i \in 1..d /\ s.skipped[i] = Entry(x) /\ s.skipped[d] = Entry(z)
          <6>1. i \in 1..d
            BY <1>3, <4>2
          <6>2. q[i] = s.skipped[i] /\ q[d] = s.skipped[d]
            BY <1>3, <3>1, <6>1
          <6> QED BY <1>6, <3>2, <6>1, <6>2
        <5> QED BY <1>2, <3>1, <4>2, <5>1 DEF Spread
      <4> QED BY <1>3, <2>3, <4>1, <4>2
    <3>4. Age(y) = Turn(s) - 1 /\ y.no = s.recvNo + (j - d) - 1
      <4>1. PICK v \in M \ R : q[j] = Entry(v) /\ Age(v) = Turn(s) - 1 /\ v.no = s.recvNo + (j - d) - 1
        BY <1>5, <2>3
      <4>2. Entry(v) = Entry(y)
        BY <1>6, <4>1
      <4>3. v = y
        BY <4>2, Distinct
      <4> QED BY <4>1, <4>3
    <3>5. /\ z.nth \in Nat /\ y.nth \in Nat /\ x.nth \in Nat /\ z.no \in Nat /\ Age(z) \in Nat
      BY Fields
    <3>6. y.nth >= z.nth + (j - d)
      <4>1. Age(z) < Age(y) => z.nth + y.no < y.nth
        BY Order
      <4>2. Age(z) = Age(y) => z.nth + y.no = y.nth + z.no
        BY Order
      <4>3. Age(z) < Age(y) \/ (Age(z) = Age(y) /\ z.no < s.recvNo)
        BY <3>2, <3>4, <3>5 DEF Past
      <4>4. j - d \in Nat /\ j - d >= 1
        BY <1>3, <2>3
      <4> DEFINE g == j - d
      <4>5. y.no = s.recvNo + g - 1 /\ g \in Nat /\ g >= 1
        BY <3>4, <4>4
      <4> HIDE DEF g
      <4>6. y.nth >= z.nth + g
        <5>1. CASE Age(z) < Age(y)
          <6>1. z.nth + y.no < y.nth
            BY <4>1, <5>1
          <6> DEFINE a == z.nth
                     b == y.nth
          <6>2. a \in Nat /\ b \in Nat /\ a + (s.recvNo + g - 1) < b
            BY <3>5, <4>5, <6>1
          <6> HIDE DEF a, b
          <6>3. b >= a + g
            BY <4>5, <6>2
          <6> QED BY <6>3 DEF a, b
        <5>2. CASE Age(z) = Age(y) /\ z.no < s.recvNo
          <6>1. z.nth + y.no = y.nth + z.no
            BY <4>2, <5>2
          <6>2. z.no + 1 <= s.recvNo
            BY <3>5, <5>2
          <6> DEFINE a == z.nth
                     b == y.nth
                     c == z.no
          <6>3. a \in Nat /\ b \in Nat /\ c \in Nat /\ c + 1 <= s.recvNo /\ a + (s.recvNo + g - 1) = b + c
            BY <3>5, <4>5, <6>1, <6>2
          <6> HIDE DEF a, b, c
          <6>4. b >= a + g
            BY <4>5, <6>3
          <6> QED BY <6>4 DEF a, b
        <5> QED BY <4>3, <5>1, <5>2
      <4> QED BY <4>6 DEF g
    <3>7. d \in Nat /\ i \in Nat /\ j \in Nat
      BY <1>3
    <3> HIDE DEF d
    <3> QED BY <3>3, <3>5, <3>6, <3>7, Apart
  <2> QED BY <1>3, <2>1, <2>2, <2>3
<1>7. Spread(M, q)
  BY <1>6 DEF Spread
<1>8. ASSUME NEW x \in M \ R, Past(t, x)
      PROVE  \/ \E i \in 1..Len(q) : q[i] = Entry(x)
             \/ \E n \in M : n.nth > x.nth + MaxSkippedKeys
  <2>1. CASE Past(s, x)
    <3>1. CASE \E i \in 1..d : s.skipped[i] = Entry(x)
      BY <1>3, <3>1
    <3> QED BY <1>2, <2>1, <3>1
  <2>2. CASE Age(x) = Turn(s) - 1 /\ x.no >= s.recvNo /\ x.no < until
    <3> DEFINE i == x.no - s.recvNo + 1
    <3>1. i \in 1..Len(put) /\ put[i] = Entry(x)
      BY <1>1, <2>2
    <3> HIDE DEF i
    <3>2. d + i \in 1..Len(q) /\ q[d + i] = Entry(x)
      BY <1>3, <3>1
    <3> QED BY <3>2
  <2> QED BY <1>4, <1>8, <2>1, <2>2
<1>9. /\ w \in Seq(E) /\ Len(w) \in Nat /\ Len(w) <= MaxSkippedKeys /\ Len(w) <= Len(q)
      /\ \A i \in 1..Len(w) : w[i] = q[i + (Len(q) - Len(w))]
      /\ Len(q) > MaxSkippedKeys => Len(w) = MaxSkippedKeys
      /\ Len(q) <= MaxSkippedKeys => Len(w) = Len(q)
  BY <1>3, BoundedKeys
<1>10. Spread(M, w)
  BY <1>3, <1>7, BoundedSpread
<1> HIDE DEF w
<1> DEFINE k == Len(q) - Len(w)
<1>11. /\ k \in Nat /\ \A i \in 1..Len(w) : i + k \in 1..Len(q) /\ w[i] = q[i + k]
       /\ \A i \in 1..Len(q) : i > k => i - k \in 1..Len(w) /\ w[i - k] = q[i]
  <2>1. Len(q) \in Nat
    BY <1>3
  <2>2. k \in Nat /\ \A i \in 1..Len(w) : i + k \in 1..Len(q) /\ w[i] = q[i + k]
    BY <1>9, <2>1
  <2>3. \A i \in 1..Len(q) : i > k => i - k \in 1..Len(w) /\ (i - k) + k = i
    BY <1>9, <2>1
  <2> HIDE DEF k
  <2>4. \A i \in 1..Len(q) : i > k => w[i - k] = q[i]
    <3> TAKE i \in 1..Len(q)
    <3> HAVE i > k
    <3>1. i - k \in 1..Len(w) /\ (i - k) + k = i
      BY <2>3
    <3> QED BY <2>2, <3>1
  <2> QED BY <2>2, <2>3, <2>4
<1> HIDE DEF k
<1>12. \A i \in 1..Len(w) : Past(t, w[i])
  <2> TAKE i \in 1..Len(w)
  <2>1. i + k \in 1..Len(q) /\ w[i] = q[i + k]
    BY <1>11
  <2>2. PICK z \in M : q[i + k] = Entry(z) /\ Past(t, z)
    BY <1>5, <2>1
  <2> QED BY <2>1, <2>2, PastEntry
<1>13. ASSUME NEW x \in M \ R, Past(t, x)
       PROVE  \/ \E i \in 1..Len(w) : w[i] = Entry(x)
              \/ \E n \in M : n.nth > x.nth + MaxSkippedKeys
  <2>1. CASE \E i \in 1..Len(q) : q[i] = Entry(x)
    <3>1. PICK i \in 1..Len(q) : q[i] = Entry(x)
      BY <2>1
    <3>2. CASE i > k
      BY <1>11, <3>1, <3>2
    (* It has fallen out: the cache is full of later ones, and m is later. *)
    <3>3. CASE i <= k
      <4>1. Len(w) = MaxSkippedKeys /\ MaxSkippedKeys \in Nat \ {0} /\ Len(q) \in Nat
            /\ k = Len(q) - MaxSkippedKeys
        <5>1. Len(q) \in Nat /\ k # 0
          BY <1>3, <3>1, <3>3
        <5>2. MaxSkippedKeys \in Nat \ {0}
          BY RatchetAssumption
        <5>3. Len(q) > MaxSkippedKeys
          BY <1>9, <5>1, <5>2 DEF k
        <5> QED BY <1>9, <5>1, <5>2, <5>3 DEF k
      <4>2. Len(q) \in 1..Len(q) /\ i < Len(q) /\ Len(q) - i >= MaxSkippedKeys
        BY <3>1, <3>3, <4>1
      <4>3. PICK z \in M : q[Len(q)] = Entry(z) /\ z.nth < m.nth
        BY <1>5, <4>2
      <4>4. z.nth >= x.nth + (Len(q) - i)
        BY <1>6, <3>1, <4>2, <4>3
      <4>5. z.nth \in Nat /\ x.nth \in Nat /\ m.nth \in Nat
        BY Fields
      <4>6. z.nth >= x.nth + MaxSkippedKeys
        <5> DEFINE l == Len(q)
        <5>1. l \in Nat /\ i \in Nat /\ l - i >= MaxSkippedKeys /\ z.nth >= x.nth + (l - i)
          BY <4>1, <4>2, <4>4
        <5> HIDE DEF l
        <5> QED BY <4>1, <4>5, <5>1
      <4> QED BY <4>1, <4>3, <4>5, <4>6
    <3> QED BY <1>11, <3>1, <3>2, <3>3
  <2> QED BY <1>8, <1>13, <2>1
<1>14. t.skipped = w
  BY DEF w, q, put
<1>15. \A x \in R : Past(t, x)
  BY <1>2, <1>4
<1> QED BY <1>2, <1>9, <1>10, <1>12, <1>13, <1>14, <1>15 DEF CacheOk, E
-----------------------------------------------------------------------------
(* Reading from the cache.                                                 *)

LEMMA CachedOnce ==
    ASSUME NEW h, NEW o, NEW M, MessagesOk(h, o, M), NEW R, NEW s, CacheOk(M, R, s), NEW m \in M
    PROVE  /\ Cached(s, m) = {i \in 1..Len(s.skipped) : s.skipped[i] = Entry(m)}
           /\ \A i, j \in Cached(s, m) : i = j
<1>1. s.skipped \in Seq(Entries(M \ R)) /\ Spread(M, s.skipped)
  BY DEF CacheOk
<1>2. ASSUME NEW i \in 1..Len(s.skipped)
      PROVE  s.skipped[i].dh = m.dh /\ s.skipped[i].no = m.no <=> s.skipped[i] = Entry(m)
  <2>1. s.skipped[i] \in Entries(M \ R)
    BY <1>1
  <2>2. PICK x \in M : s.skipped[i] = Entry(x)
    BY <2>1 DEF Entries
  <2>3. Entry(x).dh = x.dh /\ Entry(x).no = x.no
    BY DEF Entry
  <2>4. x.dh = m.dh /\ x.no = m.no => x = m
    BY Distinct
  <2>5. Entry(x) = Entry(m) => x = m
    BY Distinct
  <2> QED BY <2>2, <2>3, <2>4, <2>5
<1>3. DOMAIN s.skipped = 1..Len(s.skipped) /\ Len(s.skipped) \in Nat
  BY <1>1
<1>4. Cached(s, m) = {i \in 1..Len(s.skipped) : s.skipped[i] = Entry(m)}
  BY <1>2, <1>3 DEF Cached
<1>5. ASSUME NEW i \in Cached(s, m), NEW j \in Cached(s, m), i < j PROVE FALSE
  <2>1. /\ i \in 1..Len(s.skipped) /\ j \in 1..Len(s.skipped)
        /\ s.skipped[i] = Entry(m) /\ s.skipped[j] = Entry(m)
    BY <1>4
  <2>2. m.nth >= m.nth + (j - i)
    BY <1>1, <1>5, <2>1 DEF Spread
  <2>3. m.nth \in Nat
    BY Fields
  <2> QED BY <1>3, <1>5, <2>1, <2>2, <2>3
<1>6. Cached(s, m) \subseteq Int
  BY <1>3, <1>4
<1>7. ASSUME NEW i \in Cached(s, m), NEW j \in Cached(s, m) PROVE i = j
  <2>1. i \in Int /\ j \in Int
    BY <1>6
  <2>2. ~(i < j)
    BY <1>5
  <2>3. ~(j < i)
    BY <1>5
  <2> QED BY <2>1, <2>2, <2>3
<1> QED BY <1>4, <1>7

LEMMA WithoutOne ==
    ASSUME NEW S, NEW q \in Seq(S), NEW i \in 1..Len(q)
    PROVE  /\ Without(q, i) \in Seq(S) /\ Len(Without(q, i)) = Len(q) - 1
           /\ \A j \in 1..(Len(q) - 1) : Without(q, i)[j] = IF j < i THEN q[j] ELSE q[j + 1]
<1> DEFINE a == SubSeq(q, 1, i - 1)
           b == SubSeq(q, i + 1, Len(q))
<1>0. Len(q) \in Nat
  OBVIOUS
<1>1. /\ a \in Seq(S) /\ Len(a) = i - 1 /\ \A j \in 1..(i - 1) : a[j] = q[j]
  <2>1. \A j \in 1..(i - 1) : q[j] \in S
    BY <1>0
  <2>2. /\ a \in Seq(S) /\ Len(a) = (IF 1 <= i - 1 THEN (i - 1) - 1 + 1 ELSE 0)
        /\ \A j \in 1..((i - 1) - 1 + 1) : a[j] = q[1 + j - 1]
    BY <1>0, <2>1, SubSeqProperties
  <2>3. \A j \in 1..(i - 1) : j \in 1..((i - 1) - 1 + 1) /\ 1 + j - 1 = j
    BY <1>0
  <2> HIDE DEF a
  <2> QED BY <1>0, <2>2, <2>3
<1>2. /\ b \in Seq(S) /\ Len(b) = Len(q) - i /\ \A j \in 1..(Len(q) - i) : b[j] = q[i + j]
  <2>1. \A j \in (i + 1)..Len(q) : q[j] \in S
    BY <1>0
  <2>2. /\ b \in Seq(S) /\ Len(b) = (IF i + 1 <= Len(q) THEN Len(q) - (i + 1) + 1 ELSE 0)
        /\ \A j \in 1..(Len(q) - (i + 1) + 1) : b[j] = q[(i + 1) + j - 1]
    BY <1>0, <2>1, SubSeqProperties
  <2>3. \A j \in 1..(Len(q) - i) : j \in 1..(Len(q) - (i + 1) + 1) /\ (i + 1) + j - 1 = i + j
    BY <1>0
  <2> HIDE DEF b
  <2> QED BY <1>0, <2>2, <2>3
<1> HIDE DEF a, b
<1>3. /\ a \o b \in Seq(S) /\ Len(a \o b) = Len(q) - 1
      /\ \A j \in 1..(Len(q) - 1) : (a \o b)[j] = IF j <= Len(a) THEN a[j] ELSE b[j - Len(a)]
  <2>1. Len(a) + Len(b) = Len(q) - 1
    BY <1>0, <1>1, <1>2
  <2>2. /\ a \o b \in Seq(S) /\ Len(a \o b) = Len(a) + Len(b)
        /\ \A j \in 1..(Len(a) + Len(b)) : (a \o b)[j] = IF j <= Len(a) THEN a[j] ELSE b[j - Len(a)]
    BY <1>1, <1>2, ConcatProperties
  <2> DEFINE c == a \o b
             n == Len(a) + Len(b)
             f(j) == IF j <= Len(a) THEN a[j] ELSE b[j - Len(a)]
  <2>3. c \in Seq(S) /\ Len(c) = n /\ n = Len(q) - 1 /\ \A j \in 1..n : c[j] = f(j)
    BY <2>1, <2>2
  <2> HIDE DEF c, n, f
  <2>4. c \in Seq(S) /\ Len(c) = Len(q) - 1 /\ \A j \in 1..(Len(q) - 1) : c[j] = f(j)
    BY <2>3
  <2> QED BY <2>4 DEF c, f
<1>4. ASSUME NEW j \in 1..(Len(q) - 1)
      PROVE  (a \o b)[j] = IF j < i THEN q[j] ELSE q[j + 1]
  <2>1. CASE j < i
    <3>1. j <= Len(a) /\ j \in 1..(i - 1)
      BY <1>0, <1>1, <2>1
    <3> QED BY <1>1, <1>3, <2>1, <3>1
  <2>2. CASE ~(j < i)
    <3>1. ~(j <= Len(a)) /\ j - Len(a) \in 1..(Len(q) - i) /\ i + (j - Len(a)) = j + 1
      BY <1>0, <1>1, <2>2
    <3> QED BY <1>2, <1>3, <2>2, <3>1
  <2> QED BY <2>1, <2>2
<1>5. Without(q, i) = a \o b
  BY DEF Without, a, b
<1> QED BY <1>3, <1>4, <1>5

LEMMA TakeKeeps ==
    ASSUME NEW h, NEW o, NEW M, MessagesOk(h, o, M), NEW R, NEW s, CacheOk(M, R, s),
           Turn(s) \in Nat, s.recvNo \in Nat, NEW m \in M, NEW i \in Cached(s, m),
           NEW t, Turn(t) = Turn(s), t.recvNo = s.recvNo, t.skipped = Without(s.skipped, i)
    PROVE  CacheOk(M, R \cup {m}, t)
<1> DEFINE q == s.skipped
           w == t.skipped
           E == Entries(M \ R)
<1>1. /\ R \subseteq M
      /\ \A x \in R : Past(s, x)
      /\ q \in Seq(E)
      /\ Len(q) <= MaxSkippedKeys
      /\ \A j \in 1..Len(q) : Past(s, q[j])
      /\ Spread(M, q)
      /\ \A x \in M \ R : Past(s, x) =>
            \/ \E j \in 1..Len(q) : q[j] = Entry(x)
            \/ \E n \in M : n.nth > x.nth + MaxSkippedKeys
  BY DEF CacheOk
<1>2. /\ i \in 1..Len(q) /\ q[i] = Entry(m)
      /\ \A j \in 1..Len(q) : q[j] = Entry(m) => j = i
  BY CachedOnce
<1>3. \A x \in M : Past(t, x) <=> Past(s, x)
  BY DEF Past
<1>4. \A e : Past(t, e) <=> Past(s, e)
  BY DEF Past
<1> HIDE DEF E, w
<1>5. /\ w \in Seq(E) /\ Len(w) = Len(q) - 1 /\ Len(w) \in Nat
      /\ \A j \in 1..Len(w) : /\ j < i => j \in 1..Len(q) /\ w[j] = q[j]
                              /\ ~(j < i) => j + 1 \in 1..Len(q) /\ w[j] = q[j + 1]
      /\ \A j \in 1..Len(q) : /\ j < i => j \in 1..Len(w) /\ w[j] = q[j]
                              /\ j > i => j - 1 \in 1..Len(w) /\ w[j - 1] = q[j]
  <2> DEFINE v == q
  <2>1. v \in Seq(E) /\ i \in 1..Len(v) /\ w = Without(v, i)
    BY <1>1, <1>2 DEF w
  <2> HIDE DEF v
  <2>2. /\ w \in Seq(E) /\ Len(w) = Len(v) - 1
        /\ \A j \in 1..(Len(v) - 1) : w[j] = IF j < i THEN v[j] ELSE v[j + 1]
    BY <2>1, WithoutOne
  <2>3. Len(v) \in Nat /\ Len(w) \in Nat
    BY <2>1, <2>2
  <2>4. \A j \in 1..Len(w) : /\ j < i => j \in 1..Len(v) /\ w[j] = v[j]
                            /\ ~(j < i) => j + 1 \in 1..Len(v) /\ w[j] = v[j + 1]
    BY <2>1, <2>2, <2>3
  <2>5. ASSUME NEW j \in 1..Len(v)
        PROVE  /\ j < i => j \in 1..Len(w) /\ w[j] = v[j]
               /\ j > i => j - 1 \in 1..Len(w) /\ w[j - 1] = v[j]
    <3>1. ASSUME j < i PROVE j \in 1..Len(w) /\ w[j] = v[j]
      BY <2>1, <2>2, <2>3, <3>1
    <3>2. ASSUME j > i PROVE j - 1 \in 1..Len(w) /\ w[j - 1] = v[j]
      <4>1. j - 1 \in 1..Len(w) /\ ~(j - 1 < i) /\ (j - 1) + 1 = j
        BY <2>1, <2>2, <2>3, <3>2
      <4> QED BY <2>4, <4>1
    <3> QED BY <3>1, <3>2
  <2> QED BY <2>2, <2>3, <2>4, <2>5 DEF v
<1> HIDE DEF q
<1>6. ASSUME NEW j \in 1..Len(w)
      PROVE  /\ \E k \in 1..Len(q) : k # i /\ w[j] = q[k]
             /\ \E x \in M \ (R \cup {m}) : w[j] = Entry(x)
             /\ Past(t, w[j])
  <2>1. PICK k \in 1..Len(q) : k # i /\ w[j] = q[k]
    <3>1. CASE j < i
      BY <1>5, <3>1
    <3>2. CASE ~(j < i)
      <4>1. j + 1 \in 1..Len(q) /\ w[j] = q[j + 1]
        BY <1>5, <3>2
      <4>2. j + 1 # i
        BY <1>2, <3>2
      <4> QED BY <4>1, <4>2
    <3> QED BY <3>1, <3>2
  <2>2. q[k] \in E
    BY <1>1
  <2>3. PICK x \in M \ R : q[k] = Entry(x)
    BY <2>2 DEF E, Entries
  <2>4. x # m
    BY <1>2, <2>1, <2>3
  <2>5. Past(t, w[j])
    BY <1>1, <1>4, <2>1
  <2> QED BY <2>1, <2>3, <2>4, <2>5
<1>7. w \in Seq(Entries(M \ (R \cup {m})))
  <2> DEFINE F == Entries(M \ (R \cup {m}))
  <2>1. \A j \in 1..Len(w) : w[j] \in F
    BY <1>6 DEF Entries
  <2> HIDE DEF F
  <2>2. w \in [1..Len(w) -> F]
    BY <1>5, <2>1
  <2>3. w \in Seq(F)
    BY <1>5, <2>2
  <2> QED BY <2>3 DEF F
<1>8. ASSUME NEW j \in 1..Len(w), NEW k \in 1..Len(w), j < k, NEW x \in M, NEW y \in M,
             w[j] = Entry(x), w[k] = Entry(y)
      PROVE  y.nth >= x.nth + (k - j)
  <2>1. ASSUME NEW a \in 1..Len(q), NEW b \in 1..Len(q), q[a] = Entry(x), q[b] = Entry(y),
               b - a >= k - j
        PROVE  y.nth >= x.nth + (k - j)
    <3>1. a < b
      BY <1>5, <1>8, <2>1
    <3>2. y.nth >= x.nth + (b - a)
      BY <1>1, <2>1, <3>1 DEF Spread
    <3>3. x.nth \in Nat /\ y.nth \in Nat
      BY Fields
    <3> QED BY <1>5, <2>1, <3>2, <3>3
  <2>2. CASE k < i
    <3>1. j < i
      BY <1>2, <1>8, <2>2
    <3>2. j \in 1..Len(q) /\ k \in 1..Len(q) /\ q[j] = Entry(x) /\ q[k] = Entry(y)
      BY <1>5, <1>8, <2>2, <3>1
    <3> QED BY <2>1, <3>2
  <2>3. CASE j < i /\ ~(k < i)
    <3>1. /\ j \in 1..Len(q) /\ k + 1 \in 1..Len(q) /\ q[j] = Entry(x) /\ q[k + 1] = Entry(y)
          /\ (k + 1) - j >= k - j
      BY <1>5, <1>8, <2>3
    <3> QED BY <2>1, <3>1
  <2>4. CASE ~(j < i)
    <3>1. /\ j + 1 \in 1..Len(q) /\ k + 1 \in 1..Len(q)
          /\ q[j + 1] = Entry(x) /\ q[k + 1] = Entry(y)
          /\ (k + 1) - (j + 1) >= k - j
      <4>1. ~(k < i)
        BY <1>2, <1>8, <2>4
      <4> QED BY <1>5, <1>8, <2>4, <4>1
    <3> QED BY <2>1, <3>1
  <2> QED BY <1>2, <1>8, <2>2, <2>3, <2>4
<1>9. Spread(M, w)
  BY <1>8 DEF Spread
<1>10. ASSUME NEW x \in M \ (R \cup {m}), Past(t, x)
       PROVE  \/ \E j \in 1..Len(w) : w[j] = Entry(x)
              \/ \E n \in M : n.nth > x.nth + MaxSkippedKeys
  <2>1. CASE \E j \in 1..Len(q) : q[j] = Entry(x)
    <3>1. PICK j \in 1..Len(q) : q[j] = Entry(x)
      BY <2>1
    <3>2. j # i
      <4>1. Entry(x) = Entry(m) => x = m
        BY Distinct
      <4> QED BY <1>2, <3>1, <4>1
    <3>3. j < i \/ j > i
      BY <1>2, <3>2
    <3> QED BY <1>5, <3>1, <3>3
  <2> QED BY <1>1, <1>3, <1>10, <2>1
<1>11. \A x \in R \cup {m} : x \in M /\ Past(t, x)
  <2>1. Past(s, m)
    BY <1>1, <1>2, PastEntry
  <2> QED BY <1>1, <1>3, <2>1
<1>12. Len(w) <= MaxSkippedKeys
  <2>1. MaxSkippedKeys \in Nat
    BY RatchetAssumption
  <2>2. Len(q) \in Nat
    BY <1>1
  <2> QED BY <1>1, <1>5, <2>1, <2>2
<1>13. t.skipped = w
  BY DEF w
<1> QED BY <1>6, <1>7, <1>9, <1>10, <1>11, <1>12, <1>13 DEF CacheOk
-----------------------------------------------------------------------------
(* Turning and catching up.                                                *)

(* The chain that s receives on has nothing more to come.                  *)
AllPast(M, s) == \A x \in M : Age(x) = Turn(s) - 1 => x.no < s.recvNo

LEMMA TurnedKeeps ==
    ASSUME NEW h, NEW o, NEW M, MessagesOk(h, o, M), NEW R, NEW s, CacheOk(M, R, s),
           Turn(s) \in Nat \ {0}, s.recvNo \in Nat, Owner(Turn(s)) = Other(o),
           AllPast(M, s),
           NEW u, Turn(u) = Turn(s) + 2, u.recvNo = 0, u.skipped = s.skipped
    PROVE  CacheOk(M, R, u)
<1>1. ASSUME NEW x \in M PROVE Past(u, x) <=> Past(s, x)
  <2>1. Age(x) \in Nat /\ Owner(Age(x)) = o /\ x.no \in Nat
    BY Zenon DEF MessagesOk
  <2>2. Age(x) # Turn(s)
    BY <2>1, Turns
  <2> QED BY <2>1, <2>2 DEF Past, AllPast
<1>2. /\ R \subseteq M
      /\ \A x \in R : Past(s, x)
      /\ s.skipped \in Seq(Entries(M \ R))
      /\ Len(s.skipped) <= MaxSkippedKeys
      /\ \A i \in 1..Len(s.skipped) : Past(s, s.skipped[i])
      /\ Spread(M, s.skipped)
      /\ \A x \in M \ R : Past(s, x) =>
            \/ \E i \in 1..Len(s.skipped) : s.skipped[i] = Entry(x)
            \/ \E n \in M : n.nth > x.nth + MaxSkippedKeys
  BY DEF CacheOk
<1>3. \A i \in 1..Len(s.skipped) : Past(u, s.skipped[i])
  <2> TAKE i \in 1..Len(s.skipped)
  <2>1. s.skipped[i] \in Entries(M \ R)
    BY <1>2
  <2>2. PICK x \in M \ R : s.skipped[i] = Entry(x)
    BY <2>1 DEF Entries
  <2> QED BY <1>1, <1>2, <2>2, PastEntry
<1>4. \A x \in R : Past(u, x)
  BY <1>1, <1>2
<1>5. \A x \in M \ R : Past(u, x) =>
            \/ \E i \in 1..Len(s.skipped) : s.skipped[i] = Entry(x)
            \/ \E n \in M : n.nth > x.nth + MaxSkippedKeys
  BY <1>1, <1>2
<1> QED BY <1>2, <1>3, <1>4, <1>5 DEF CacheOk

LEMMA SideFields ==
    ASSUME NEW h, NEW p, NEW s, SideOk(h, p, s)
    PROVE  /\ Turn(s) \in Nat \ {0} /\ Owner(Turn(s)) = p
           /\ s.own = KeyPair(Turn(s))
           /\ s.their = (IF Turn(s) = 1 THEN NoPair ELSE KeyPair(Turn(s) - 1))
           /\ s.root = Root(h, Turn(s))
           /\ s.sending = (IF Turn(s) = 1 THEN NoChain ELSE [of |-> Root(h, Turn(s)), step |-> s.sendNo])
           /\ s.receiving = (IF Turn(s) <= 2 THEN NoChain
                             ELSE [of |-> Root(h, Turn(s) - 1), step |-> s.recvNo])
           /\ s.sendNo \in Nat /\ s.recvNo \in Nat /\ s.previous \in Nat
           /\ IsSession(s)
<1> DEFINE a == KeyPair(Turn(s))
           b == IF Turn(s) = 1 THEN NoPair ELSE KeyPair(Turn(s) - 1)
           c == Root(h, Turn(s))
           d == IF Turn(s) = 1 THEN NoChain ELSE [of |-> Root(h, Turn(s)), step |-> s.sendNo]
           e == IF Turn(s) <= 2 THEN NoChain ELSE [of |-> Root(h, Turn(s) - 1), step |-> s.recvNo]
<1>1. s = [own |-> a, their |-> b, root |-> c, sending |-> d, receiving |-> e,
           sendNo |-> s.sendNo, recvNo |-> s.recvNo, previous |-> s.previous, skipped |-> s.skipped]
  BY DEF SideOk
<1>2. Turn(s) \in Nat \ {0} /\ Owner(Turn(s)) = p
      /\ s.sendNo \in Nat /\ s.recvNo \in Nat /\ s.previous \in Nat
  BY DEF SideOk
<1> HIDE DEF a, b, c, d, e
<1>3. s.own = a /\ s.their = b /\ s.root = c /\ s.sending = d /\ s.receiving = e
  BY <1>1
<1>4. IsSession(s)
  BY <1>1, <1>3 DEF IsSession
<1> QED BY <1>2, <1>3, <1>4 DEF a, b, c, d, e

LEMMA SideNumbers ==
    ASSUME NEW h, NEW p, NEW s, SideOk(h, p, s)
    PROVE  /\ Turn(s) \in Nat \ {0} /\ Owner(Turn(s)) = p
           /\ s.sendNo \in Nat /\ s.recvNo \in Nat /\ s.previous \in Nat
BY DEF SideOk

LEMMA SkipSide ==
    ASSUME NEW h, NEW p, NEW s, SideOk(h, p, s), Turn(s) >= 3,
           NEW until \in Nat, until >= s.recvNo,
           NEW v, v = SkipMessageKeys(s, until)
    PROVE  /\ SideOk(h, p, v) /\ Turn(v) = Turn(s) /\ v.recvNo = until
           /\ v.sendNo = s.sendNo /\ v.previous = s.previous
           /\ v.skipped = WithBoundedSkippedKeys(s.skipped \o Put(s, until))
<1> DEFINE q == WithBoundedSkippedKeys(s.skipped \o Put(s, until))
           r == Root(h, Turn(s) - 1)
<1>1. /\ Turn(s) \in Nat \ {0} /\ Owner(Turn(s)) = p
      /\ s.own = KeyPair(Turn(s)) /\ s.their = KeyPair(Turn(s) - 1) /\ s.root = Root(h, Turn(s))
      /\ s.sending = [of |-> Root(h, Turn(s)), step |-> s.sendNo]
      /\ s.receiving = [of |-> r, step |-> s.recvNo]
      /\ s.sendNo \in Nat /\ s.recvNo \in Nat /\ s.previous \in Nat
      /\ IsSession(s)
  BY SideFields
<1>2. s.receiving # NoChain
  BY <1>1, ChainsDiffer
<1>3. v = [own |-> s.own, their |-> s.their, root |-> s.root, sending |-> s.sending,
           receiving |-> [of |-> r, step |-> until],
           sendNo |-> s.sendNo, recvNo |-> until, previous |-> s.previous, skipped |-> q]
  <2> HIDE DEF r
  <2> QED BY <1>1, <1>2, SkipFields
<1> HIDE DEF q
<1>4. /\ v.root = s.root /\ v.recvNo = until /\ v.sendNo = s.sendNo
      /\ v.previous = s.previous /\ v.skipped = q
  BY <1>3
<1>5. Turn(v) = Turn(s)
  BY <1>4 DEF Turn
<1>6. v = [own |-> KeyPair(Turn(v)), their |-> IF Turn(v) = 1 THEN NoPair ELSE KeyPair(Turn(v) - 1),
           root |-> Root(h, Turn(v)),
           sending |-> IF Turn(v) = 1 THEN NoChain ELSE [of |-> Root(h, Turn(v)), step |-> v.sendNo],
           receiving |-> IF Turn(v) <= 2 THEN NoChain ELSE [of |-> Root(h, Turn(v) - 1), step |-> v.recvNo],
           sendNo |-> v.sendNo, recvNo |-> v.recvNo, previous |-> v.previous, skipped |-> v.skipped]
  BY <1>1, <1>3, <1>4, <1>5
<1>7. SideOk(h, p, v)
  BY <1>1, <1>4, <1>5, <1>6 DEF SideOk
<1> QED BY <1>4, <1>5, <1>7 DEF q

(* On the chain that s receives on, up to m.                               *)
LEMMA ChainTo ==
    ASSUME NEW h, NEW p, NEW o, NEW M, MessagesOk(h, o, M), NEW R, NEW s, CacheOk(M, R, s),
           SideOk(h, p, s), Turn(s) >= 3, NEW m \in M, Age(m) = Turn(s) - 1, m.no >= s.recvNo,
           NEW v, v = SkipMessageKeys(s, m.no)
    PROVE  /\ SideOk(h, p, v) /\ Turn(v) = Turn(s) /\ v.recvNo = m.no /\ CacheOk(M, R, v)
           /\ v.sendNo = s.sendNo /\ v.previous = s.previous
<1>1. m.no \in Nat /\ m.nth \in Nat /\ Age(m) \in Nat
  BY Fields
<1>2. /\ SideOk(h, p, v) /\ Turn(v) = Turn(s) /\ v.recvNo = m.no
      /\ v.sendNo = s.sendNo /\ v.previous = s.previous
      /\ v.skipped = WithBoundedSkippedKeys(s.skipped \o Put(s, m.no))
  BY <1>1, SkipSide
<1>3. Numbered(M, s, m.no)
  <2>1. \A j \in 0..(m.no - 1) : \E n \in M : Age(n) = Age(m) /\ n.no = j
    BY Zenon DEF MessagesOk
  <2> QED BY <2>1 DEF Numbered
<1>4. SentBefore(M, s, m.no, m)
  <2>1. ASSUME NEW x \in M, Age(x) = Turn(s) - 1, x.no < m.no PROVE x.nth < m.nth
    <3>1. x.nth + m.no = m.nth + x.no
      BY <2>1, Order
    <3>2. x.nth \in Nat /\ x.no \in Nat
      BY Fields
    <3> QED BY <1>1, <2>1, <3>1, <3>2
  <2> QED BY <2>1 DEF SentBefore
<1>5. /\ Turn(s) \in Nat /\ s.recvNo \in Nat
      /\ s.their = KeyPair(Turn(s) - 1) /\ s.receiving.of = Root(h, Turn(s) - 1)
  <2>1. /\ Turn(s) \in Nat /\ s.recvNo \in Nat
        /\ s.their = (IF Turn(s) = 1 THEN NoPair ELSE KeyPair(Turn(s) - 1))
        /\ s.receiving = (IF Turn(s) <= 2 THEN NoChain
                          ELSE [of |-> Root(h, Turn(s) - 1), step |-> s.recvNo])
    BY SideFields, Zenon
  <2>2. s.receiving = [of |-> Root(h, Turn(s) - 1), step |-> s.recvNo]
    BY <2>1
  <2> QED BY <2>1, <2>2
<1>6. ~Past(s, m)
  BY <1>1, <1>5 DEF Past
<1>7. CacheOk(M, R, v)
  BY <1>1, <1>2, <1>3, <1>4, <1>5, <1>6, SkipKeeps
<1> QED BY <1>2, <1>7

(* At a message of the next key pair, the rest of the chain is put aside   *)
(* and both sides' key pairs go into the root.                             *)
LEMMA RestPast ==
    ASSUME NEW h, NEW p, NEW o, o = Other(p), p \in Sides,
           NEW M, MessagesOk(h, o, M), NEW R, NEW s, CacheOk(M, R, s),
           SideOk(h, p, s), NEW m \in M, Age(m) = Turn(s) + 1,
           NEW t, t = SkipMessageKeys(s, m.previous)
    PROVE  /\ CacheOk(M, R, t) /\ AllPast(M, t) /\ SideOk(h, p, t)
           /\ Turn(t) = Turn(s) /\ t.sendNo = s.sendNo
<1>0. /\ Turn(s) \in Nat \ {0} /\ s.recvNo \in Nat
      /\ s.their = (IF Turn(s) = 1 THEN NoPair ELSE KeyPair(Turn(s) - 1))
      /\ s.receiving = (IF Turn(s) <= 2 THEN NoChain
                        ELSE [of |-> Root(h, Turn(s) - 1), step |-> s.recvNo])
  BY SideFields, Zenon
<1>1. m.no \in Nat /\ m.nth \in Nat /\ Age(m) \in Nat /\ m.previous \in Nat
  BY Fields
<1>2. ASSUME NEW x \in M, Age(x) = Turn(s) - 1
      PROVE  /\ Age(x) >= 2 /\ x.no \in Nat /\ x.nth \in Nat
             /\ x.no < m.previous /\ x.nth < m.nth
  <2>1. Age(x) \in Nat /\ Age(x) >= 2 /\ x.no \in Nat /\ x.nth \in Nat
    BY Fields
  <2>2. /\ Age(x) < Age(m) => x.nth + m.no < m.nth
        /\ Age(x) = Age(m) - 2 => x.no < m.previous
    BY Order
  <2> QED BY <1>0, <1>1, <1>2, <2>1, <2>2
<1>3. CASE Turn(s) <= 2
  <2>1. t = s
    BY <1>0, <1>3 DEF SkipMessageKeys
  <2>2. AllPast(M, t)
    BY <1>0, <1>2, <1>3, <2>1 DEF AllPast
  <2> QED BY <2>1, <2>2
<1>4. CASE Turn(s) >= 3 /\ m.previous < s.recvNo
  <2>1. t = s
    BY <1>4 DEF SkipMessageKeys
  <2>2. AllPast(M, t)
    BY <1>0, <1>1, <1>2, <1>4, <2>1 DEF AllPast
  <2> QED BY <2>1, <2>2
<1>5. CASE Turn(s) >= 3 /\ m.previous >= s.recvNo
  <2>1. /\ SideOk(h, p, t) /\ Turn(t) = Turn(s) /\ t.recvNo = m.previous
        /\ t.sendNo = s.sendNo
        /\ t.skipped = WithBoundedSkippedKeys(s.skipped \o Put(s, m.previous))
    BY <1>1, <1>5, SkipSide
  <2>2. Numbered(M, s, m.previous)
    <3>1. \A j \in 0..(m.previous - 1) : \E n \in M : Age(n) = Age(m) - 2 /\ n.no = j
      BY Zenon DEF MessagesOk
    <3>2. Age(m) - 2 = Turn(s) - 1
      BY <1>0
    <3> QED BY <3>1, <3>2 DEF Numbered
  <2>3. SentBefore(M, s, m.previous, m)
    BY <1>2 DEF SentBefore
  <2>4. ~Past(s, m)
    BY <1>0, <1>1 DEF Past
  <2>5. /\ s.their = KeyPair(Turn(s) - 1) /\ s.receiving.of = Root(h, Turn(s) - 1)
    <3>1. s.receiving = [of |-> Root(h, Turn(s) - 1), step |-> s.recvNo]
      BY <1>0, <1>5
    <3> QED BY <1>0, <1>5, <3>1
  <2>6. CacheOk(M, R, t)
    BY <1>0, <1>1, <1>5, <2>1, <2>2, <2>3, <2>4, <2>5, SkipKeeps
  <2>7. AllPast(M, t)
    BY <1>2, <2>1 DEF AllPast
  <2> QED BY <2>1, <2>6, <2>7
<1> QED BY <1>0, <1>1, <1>3, <1>4, <1>5

LEMMA TurnSide ==
    ASSUME NEW h, NEW p, p \in Sides, NEW s, SideOk(h, p, s),
           NEW u, u = ApplyDhRatchet(s, KeyPair(Turn(s) + 1), Pair(p, "ratchet", Turn(s)))
    PROVE  /\ SideOk(h, p, u) /\ Turn(u) = Turn(s) + 2 /\ u.recvNo = 0
           /\ u.sendNo = 0 /\ u.previous = s.sendNo /\ u.skipped = s.skipped
<1> DEFINE n == Turn(s)
<1>1. /\ n \in Nat \ {0} /\ Owner(n) = p /\ s.own = KeyPair(n) /\ s.root = Root(h, n)
      /\ s.sendNo \in Nat /\ IsSession(s)
  <2>1. n \in Nat \ {0} /\ Owner(n) = p /\ s.sendNo \in Nat
    BY SideNumbers
  <2>2. s.own = KeyPair(n) /\ s.root = Root(h, n) /\ IsSession(s)
    BY SideFields
  <2> QED BY <2>1, <2>2
<1> HIDE DEF n
<1>2. Pair(p, "ratchet", n) = KeyPair(n + 2)
  <2>1. Owner(n + 2) = p
    BY <1>1, Turns
  <2> QED BY <1>1, <2>1 DEF KeyPair
<1>3. KdfRoot(s.root, ComputeDh(s.own, KeyPair(n + 1))) = Root(h, n + 1)
  BY <1>1, Roots
<1>4. KdfRoot(Root(h, n + 1), ComputeDh(KeyPair(n + 2), KeyPair(n + 1))) = Root(h, n + 2)
  <2> DEFINE k == n + 1
  <2>1. k \in Nat \ {0} /\ k + 1 = n + 2
    BY <1>1
  <2> HIDE DEF k
  <2>2. KdfRoot(Root(h, k), ComputeDh(KeyPair(k + 1), KeyPair(k))) = Root(h, k + 1)
    BY <2>1, Roots
  <2> QED BY <2>1, <2>2 DEF k
<1> DEFINE a == Root(h, n + 1)
           b == Root(h, n + 2)
           x == KeyPair(n + 1)
           y == KeyPair(n + 2)
           c == [s EXCEPT !.own = y, !.their = x, !.root = b, !.sending = Chain(b),
                          !.receiving = Chain(a), !.previous = s.sendNo,
                          !.sendNo = 0, !.recvNo = 0]
<1>5. u = c
  BY <1>2, <1>3, <1>4 DEF ApplyDhRatchet, n
<1> HIDE DEF a, b, x, y
<1>6. c \in [own : {y}, their : {x}, root : {b}, sending : {Chain(b)}, receiving : {Chain(a)},
             sendNo : {0}, recvNo : {0}, previous : {s.sendNo}, skipped : {s.skipped}]
  BY <1>1 DEF IsSession
<1> HIDE DEF c
<1>7. c = [own |-> y, their |-> x, root |-> b, sending |-> Chain(b), receiving |-> Chain(a),
           sendNo |-> 0, recvNo |-> 0, previous |-> s.sendNo, skipped |-> s.skipped]
  BY <1>6, IsRecord
<1>8. /\ u.root = b /\ u.sendNo = 0 /\ u.recvNo = 0 /\ u.previous = s.sendNo
      /\ u.skipped = s.skipped
  BY <1>5, <1>7
<1>9. Turn(u) = n + 2
  <2> DEFINE k == n + 2
  <2>1. k \in Nat \ {0}
    BY <1>1
  <2> HIDE DEF k
  <2>2. Len(Root(h, k)) = k
    BY <2>1, Roots
  <2> QED BY <1>8, <2>2 DEF Turn, b, k
<1>10. u = [own |-> KeyPair(Turn(u)), their |-> IF Turn(u) = 1 THEN NoPair ELSE KeyPair(Turn(u) - 1),
           root |-> Root(h, Turn(u)),
           sending |-> IF Turn(u) = 1 THEN NoChain ELSE [of |-> Root(h, Turn(u)), step |-> u.sendNo],
           receiving |-> IF Turn(u) <= 2 THEN NoChain ELSE [of |-> Root(h, Turn(u) - 1), step |-> u.recvNo],
           sendNo |-> u.sendNo, recvNo |-> u.recvNo, previous |-> u.previous, skipped |-> u.skipped]
  <2>1. Turn(u) - 1 = n + 1 /\ Turn(u) # 1 /\ ~(Turn(u) <= 2)
    BY <1>1, <1>9
  <2> QED BY <1>5, <1>7, <1>8, <1>9, <2>1 DEF a, b, x, y, Chain
<1>11. Owner(Turn(u)) = p /\ Turn(u) \in Nat \ {0}
  BY <1>1, <1>9, Turns
<1>12. SideOk(h, p, u)
  BY <1>1, <1>8, <1>10, <1>11 DEF SideOk
<1> QED BY <1>8, <1>9, <1>12 DEF n

(* The receiving chain stands at m.                                        *)
ReadyFor(h, p, M, R, v, m) ==
    /\ SideOk(h, p, v) /\ CacheOk(M, R, v)
    /\ Turn(v) = Age(m) + 1 /\ v.recvNo = m.no

LEMMA CatchUp ==
    ASSUME NEW h, NEW p, NEW o, o = Other(p), p \in Sides,
           NEW M, MessagesOk(h, o, M), NEW R, CacheOk(M, R, session[p]),
           SideOk(h, p, session[p]), NEW m \in M, ~Past(session[p], m),
           Age(m) <= Turn(session[p]) + 1
    PROVE  LET v == CaughtUp(p, m)
               s == session[p]
           IN /\ ReadyFor(h, p, M, R, v, m)
              /\ \/ Age(m) = Turn(s) - 1 /\ v.sendNo = s.sendNo /\ v.previous = s.previous
                 \/ Age(m) = Turn(s) + 1 /\ v.sendNo = 0 /\ v.previous = s.sendNo
<1> DEFINE v == CaughtUp(p, m)
           s == session[p]
           n == Turn(s)
<1>1. /\ n \in Nat \ {0} /\ Owner(n) = p /\ s.recvNo \in Nat
      /\ s.their = (IF n = 1 THEN NoPair ELSE KeyPair(n - 1))
      /\ s.root = Root(h, n)
  <2> HIDE DEF s
  <2>1. SideOk(h, p, s)
    BY DEF s
  <2>2. n \in Nat \ {0} /\ Owner(n) = p /\ s.recvNo \in Nat
    BY <2>1, SideNumbers
  <2> HIDE DEF n
  <2>3. s.their = (IF n = 1 THEN NoPair ELSE KeyPair(n - 1)) /\ s.root = Root(h, n)
    BY <2>1, SideFields DEF n
  <2> QED BY <2>2, <2>3
<1>2. /\ Age(m) \in Nat \ {0} /\ Age(m) >= 2 /\ Owner(Age(m)) = Other(p) /\ m.no \in Nat
      /\ m.dh = KeyPair(Age(m))
  BY Fields
<1>3. NextKeyPair(p) = Pair(p, "ratchet", n)
  BY DEF NextKeyPair, Turn
<1>4. Age(m) # n
  BY <1>1, <1>2, Turns
<1>5. \/ Age(m) = n - 1 /\ m.no >= s.recvNo
      \/ Age(m) = n + 1
  BY <1>1, <1>2, <1>4 DEF Past
<1>6. CASE Age(m) = n - 1 /\ m.no >= s.recvNo
  <2>1. m.dh = s.their /\ n >= 3
    BY <1>1, <1>2, <1>6
  <2>2. v = SkipMessageKeys(s, m.no)
    BY <2>1 DEF CaughtUp
  <2> HIDE DEF v, s, n
  <2>3. /\ SideOk(h, p, v) /\ Turn(v) = Turn(s) /\ v.recvNo = m.no /\ CacheOk(M, R, v)
        /\ v.sendNo = s.sendNo /\ v.previous = s.previous
    BY <1>6, <2>1, <2>2, ChainTo DEF n, s
  <2>4. Turn(v) = Age(m) + 1
    BY <1>1, <1>2, <1>6, <2>3 DEF n
  <2> QED BY <1>6, <2>3, <2>4 DEF ReadyFor, v, s, n
<1>7. CASE Age(m) = n + 1
  <2> DEFINE t == SkipMessageKeys(s, m.previous)
             u == ApplyDhRatchet(t, KeyPair(n + 1), Pair(p, "ratchet", n))
  <2>1. m.dh # s.their
    <3>1. CASE n = 1
      BY <1>1, <1>2, <1>7, <3>1, KeyPairs
    <3>2. CASE n # 1
      <4>1. n - 1 \in Nat \ {0} /\ n + 1 \in Nat \ {0} /\ n - 1 # n + 1
        BY <1>1, <3>2
      <4>2. KeyPair(n - 1) # KeyPair(n + 1)
        BY <4>1, KeyPairs
      <4> QED BY <1>1, <1>2, <1>7, <3>2, <4>2
    <3> QED BY <3>1, <3>2
  <2>2. v = SkipMessageKeys(u, m.no)
    BY <1>2, <1>3, <1>7, <2>1 DEF CaughtUp
  <2>3. /\ CacheOk(M, R, t) /\ AllPast(M, t) /\ SideOk(h, p, t)
        /\ Turn(t) = n /\ t.sendNo = s.sendNo
    BY <1>7, RestPast
  <2> HIDE DEF t, v
  <2>4. /\ SideOk(h, p, u) /\ Turn(u) = Turn(t) + 2 /\ u.recvNo = 0
        /\ u.sendNo = 0 /\ u.previous = t.sendNo /\ u.skipped = t.skipped
    BY <2>3, TurnSide
  <2> HIDE DEF u
  <2>5. Turn(t) \in Nat \ {0} /\ t.recvNo \in Nat /\ Owner(Turn(t)) = Other(o)
    <3>1. Turn(t) \in Nat \ {0} /\ t.recvNo \in Nat /\ Owner(Turn(t)) = p
      BY <2>3, SideNumbers
    <3>2. Other(o) = p
      BY DEF Other, Sides
    <3> QED BY <3>1, <3>2
  <2>6. CacheOk(M, R, u)
    BY <2>3, <2>4, <2>5, TurnedKeeps
  <2> HIDE DEF s
  <2>7. /\ SideOk(h, p, v) /\ Turn(v) = Turn(u) /\ v.recvNo = m.no /\ CacheOk(M, R, v)
        /\ v.sendNo = u.sendNo /\ v.previous = u.previous
    <3>1. Turn(u) >= 3 /\ Age(m) = Turn(u) - 1 /\ m.no >= u.recvNo
      BY <1>1, <1>2, <1>7, <2>3, <2>4
    <3> QED BY <2>2, <2>4, <2>6, <3>1, ChainTo
  <2>8. Turn(v) = Age(m) + 1 /\ v.sendNo = 0 /\ v.previous = s.sendNo
    BY <1>1, <1>7, <2>3, <2>4, <2>7
  <2> QED BY <1>7, <2>7, <2>8 DEF ReadyFor, v, s, n
<1> QED BY <1>5, <1>6, <1>7
-----------------------------------------------------------------------------
(* A session from its parts.                                               *)

Session(h, n, sendNo, recvNo, previous, skipped) ==
    [own |-> KeyPair(n), their |-> IF n = 1 THEN NoPair ELSE KeyPair(n - 1),
     root |-> Root(h, n),
     sending |-> IF n = 1 THEN NoChain ELSE [of |-> Root(h, n), step |-> sendNo],
     receiving |-> IF n <= 2 THEN NoChain ELSE [of |-> Root(h, n - 1), step |-> recvNo],
     sendNo |-> sendNo, recvNo |-> recvNo, previous |-> previous, skipped |-> skipped]

LEMMA SideIs ==
    ASSUME NEW h, NEW n \in Nat \ {0}, NEW a \in Nat, NEW b \in Nat, NEW c \in Nat, NEW q,
           NEW u, u = Session(h, n, a, b, c, q)
    PROVE  /\ SideOk(h, Owner(n), u) /\ Turn(u) = n
           /\ u.sendNo = a /\ u.recvNo = b /\ u.previous = c /\ u.skipped = q
<1>1. /\ u.root = Root(h, n) /\ u.sendNo = a /\ u.recvNo = b /\ u.previous = c /\ u.skipped = q
  BY DEF Session
<1>2. Turn(u) = n
  BY <1>1, Roots DEF Turn
<1>3. u = Session(h, Turn(u), u.sendNo, u.recvNo, u.previous, u.skipped)
  BY <1>1, <1>2
<1>4. SideOk(h, Owner(n), u)
  BY <1>1, <1>2, <1>3 DEF SideOk, Session
<1> QED BY <1>1, <1>2, <1>4

LEMMA IsSide ==
    ASSUME NEW h, NEW p, NEW s, SideOk(h, p, s)
    PROVE  s = Session(h, Turn(s), s.sendNo, s.recvNo, s.previous, s.skipped)
BY Zenon DEF SideOk, Session

LEMMA SideThere == ASSUME NEW h, NEW p, NEW s, SideOk(h, p, s) PROVE s # NoSession
<1>1. Turn(s) \in Nat \ {0}
  BY SideNumbers
<1>2. Turn(NoSession) = 0
  BY DEF Turn, NoSession
<1> QED BY <1>1, <1>2

LEMMA TakenSide ==
    ASSUME NEW h, NEW p, NEW s, SideOk(h, p, s), NEW q
    PROVE  LET u == [s EXCEPT !.skipped = q] IN
           /\ SideOk(h, p, u) /\ Turn(u) = Turn(s) /\ u.sendNo = s.sendNo
           /\ u.recvNo = s.recvNo /\ u.previous = s.previous /\ u.skipped = q
<1> DEFINE u == [s EXCEPT !.skipped = q]
<1>1. s = Session(h, Turn(s), s.sendNo, s.recvNo, s.previous, s.skipped)
  BY IsSide
<1>2. /\ Turn(s) \in Nat \ {0} /\ Owner(Turn(s)) = p
      /\ s.sendNo \in Nat /\ s.recvNo \in Nat /\ s.previous \in Nat
  BY SideNumbers
<1> DEFINE n == Turn(s)
           a == s.sendNo
           b == s.recvNo
           c == s.previous
           r == s.skipped
<1>3. s = Session(h, n, a, b, c, r)
  BY <1>1
<1> HIDE DEF n, a, b, c, r
<1>4. u = Session(h, n, a, b, c, q)
  BY <1>3 DEF Session
<1>5. n \in Nat \ {0} /\ a \in Nat /\ b \in Nat /\ c \in Nat /\ Owner(n) = p
  BY <1>2 DEF n, a, b, c
<1> HIDE DEF u
<1>6. /\ SideOk(h, Owner(n), u) /\ Turn(u) = n
      /\ u.sendNo = a /\ u.recvNo = b /\ u.previous = c /\ u.skipped = q
  BY <1>4, <1>5, SideIs
<1> QED BY <1>5, <1>6 DEF n, a, b, c, u

SentNext(s) == [s EXCEPT !.sending = KdfChain(@), !.sendNo = @ + 1]

LEMMA SentSide ==
    ASSUME NEW h, NEW p, NEW s, SideOk(h, p, s), s.sending # NoChain
    PROVE  LET u == SentNext(s) IN
           /\ SideOk(h, p, u) /\ Turn(u) = Turn(s) /\ u.sendNo = s.sendNo + 1
           /\ u.recvNo = s.recvNo /\ u.previous = s.previous /\ u.skipped = s.skipped
           /\ Turn(s) >= 2 /\ s.sending = [of |-> Root(h, Turn(s)), step |-> s.sendNo]
<1> DEFINE u == SentNext(s)
<1>1. s = Session(h, Turn(s), s.sendNo, s.recvNo, s.previous, s.skipped)
  BY IsSide
<1>2. /\ Turn(s) \in Nat \ {0} /\ Owner(Turn(s)) = p
      /\ s.sendNo \in Nat /\ s.recvNo \in Nat /\ s.previous \in Nat
  BY SideNumbers
<1> DEFINE n == Turn(s)
           a == s.sendNo
           b == s.recvNo
           c == s.previous
           q == s.skipped
<1>3. s = Session(h, n, a, b, c, q)
  BY <1>1
<1>4. n \in Nat \ {0} /\ a \in Nat /\ b \in Nat /\ c \in Nat /\ Owner(n) = p
  BY <1>2
<1> HIDE DEF n, a, b, c, q
<1>5. n # 1 /\ s.sending = [of |-> Root(h, n), step |-> a]
  BY <1>3 DEF Session
<1> DEFINE A == KeyPair(n)
           B == IF n = 1 THEN NoPair ELSE KeyPair(n - 1)
           C == Root(h, n)
           D == [of |-> C, step |-> a + 1]
           E == IF n <= 2 THEN NoChain ELSE [of |-> Root(h, n - 1), step |-> b]
<1>6. u = Session(h, n, a + 1, b, c, q)
  <2>1. /\ s.own = A /\ s.their = B /\ s.root = C /\ s.receiving = E /\ IsSession(s)
        /\ s.sendNo = a /\ s.recvNo = b /\ s.previous = c /\ s.skipped = q
    BY <1>3 DEF Session, IsSession
  <2>2. KdfChain(s.sending) = D
    BY <1>5 DEF KdfChain
  <2> HIDE DEF A, B, C, D, E
  <2>3. u \in [own : {A}, their : {B}, root : {C}, sending : {D}, receiving : {E},
               sendNo : {a + 1}, recvNo : {b}, previous : {c}, skipped : {q}]
    BY <2>1, <2>2 DEF IsSession, SentNext
  <2> HIDE DEF u
  <2>4. u = [own |-> A, their |-> B, root |-> C, sending |-> D, receiving |-> E,
             sendNo |-> a + 1, recvNo |-> b, previous |-> c, skipped |-> q]
    BY <2>3, IsRecord
  <2> QED BY <1>5, <2>4 DEF Session, A, B, C, D, E
<1> HIDE DEF u
<1>7. a + 1 \in Nat
  BY <1>4
<1>8. /\ SideOk(h, Owner(n), u) /\ Turn(u) = n
      /\ u.sendNo = a + 1 /\ u.recvNo = b /\ u.previous = c /\ u.skipped = q
  BY <1>4, <1>6, <1>7, SideIs
<1> QED BY <1>4, <1>5, <1>8 DEF n, a, b, c, q, u

LEMMA ReadSide ==
    ASSUME NEW h, NEW p, NEW s, SideOk(h, p, s), Turn(s) >= 3
    PROVE  LET u == [s EXCEPT !.receiving = KdfChain(@), !.recvNo = @ + 1] IN
           /\ SideOk(h, p, u) /\ Turn(u) = Turn(s) /\ u.sendNo = s.sendNo
           /\ u.recvNo = s.recvNo + 1 /\ u.previous = s.previous /\ u.skipped = s.skipped
<1> DEFINE u == [s EXCEPT !.receiving = KdfChain(@), !.recvNo = @ + 1]
<1>1. s = Session(h, Turn(s), s.sendNo, s.recvNo, s.previous, s.skipped)
  BY IsSide
<1>2. /\ Turn(s) \in Nat \ {0} /\ Owner(Turn(s)) = p
      /\ s.sendNo \in Nat /\ s.recvNo \in Nat /\ s.previous \in Nat
  BY SideNumbers
<1> DEFINE n == Turn(s)
           a == s.sendNo
           b == s.recvNo
           c == s.previous
           q == s.skipped
<1>3. s = Session(h, n, a, b, c, q)
  BY <1>1
<1>4. n \in Nat \ {0} /\ a \in Nat /\ b \in Nat /\ c \in Nat /\ Owner(n) = p /\ n >= 3
  BY <1>2
<1> HIDE DEF n, a, b, c, q
<1> DEFINE A == KeyPair(n)
           B == IF n = 1 THEN NoPair ELSE KeyPair(n - 1)
           C == Root(h, n)
           D == IF n = 1 THEN NoChain ELSE [of |-> C, step |-> a]
           E == [of |-> Root(h, n - 1), step |-> b + 1]
<1>6. u = Session(h, n, a, b + 1, c, q)
  <2>0. ~(n <= 2)
    BY <1>4
  <2>1. /\ s.own = A /\ s.their = B /\ s.root = C /\ s.sending = D /\ IsSession(s)
        /\ s.receiving = [of |-> Root(h, n - 1), step |-> b]
        /\ s.sendNo = a /\ s.recvNo = b /\ s.previous = c /\ s.skipped = q
    BY <1>3, <2>0 DEF Session, IsSession
  <2>2. KdfChain(s.receiving) = E
    BY <2>1 DEF KdfChain
  <2> HIDE DEF A, B, C, D, E
  <2>3. u \in [own : {A}, their : {B}, root : {C}, sending : {D}, receiving : {E},
               sendNo : {a}, recvNo : {b + 1}, previous : {c}, skipped : {q}]
    BY <2>1, <2>2 DEF IsSession
  <2> HIDE DEF u
  <2>4. u = [own |-> A, their |-> B, root |-> C, sending |-> D, receiving |-> E,
             sendNo |-> a, recvNo |-> b + 1, previous |-> c, skipped |-> q]
    BY <2>3, IsRecord
  <2> QED BY <2>0, <2>4 DEF Session, A, B, C, D, E
<1> HIDE DEF u
<1>7. b + 1 \in Nat
  BY <1>4
<1>8. /\ SideOk(h, Owner(n), u) /\ Turn(u) = n
      /\ u.sendNo = a /\ u.recvNo = b + 1 /\ u.previous = c /\ u.skipped = q
  BY <1>4, <1>6, <1>7, SideIs
<1> QED BY <1>4, <1>8 DEF n, a, b, c, q, u
-----------------------------------------------------------------------------
(* Reading the message that the chain stands at.                           *)

ReadNext(v) == [v EXCEPT !.receiving = KdfChain(@), !.recvNo = @ + 1]

LEMMA ReadKeeps ==
    ASSUME NEW h, NEW p, NEW o, NEW M, MessagesOk(h, o, M), NEW R, NEW v, NEW m \in M,
           ReadyFor(h, p, M, R, v, m),
           NEW w, w = ReadNext(v)
    PROVE  /\ SideOk(h, p, w) /\ CacheOk(M, R \cup {m}, w)
           /\ Turn(w) = Turn(v) /\ w.sendNo = v.sendNo /\ w.recvNo = m.no + 1
           /\ w.previous = v.previous
<1>1. /\ SideOk(h, p, v) /\ CacheOk(M, R, v) /\ Turn(v) = Age(m) + 1 /\ v.recvNo = m.no
  BY DEF ReadyFor
<1>2. Age(m) \in Nat /\ Age(m) >= 2 /\ m.no \in Nat
  BY Fields
<1>3. /\ SideOk(h, p, w) /\ Turn(w) = Turn(v) /\ w.sendNo = v.sendNo
      /\ w.recvNo = v.recvNo + 1 /\ w.previous = v.previous /\ w.skipped = v.skipped
  <2>1. Turn(v) >= 3
    BY <1>1, <1>2
  <2>2. SideOk(h, p, v)
    BY <1>1
  <2> HIDE <1>1
  <2> QED BY <2>1, <2>2, ReadSide DEF ReadNext
<1>4. ASSUME NEW x \in M PROVE Past(w, x) <=> Past(v, x) \/ x = m
  <2>1. Age(x) \in Nat /\ x.no \in Nat
    BY Fields
  <2>2. Age(x) = Age(m) /\ x.no = m.no => x = m
    <3>1. Age(x) = Age(m) => x.dh = m.dh
      <4>1. x.dh = KeyPair(Age(x))
        BY Fields
      <4>2. m.dh = KeyPair(Age(m))
        BY Fields
      <4> QED BY <4>1, <4>2
    <3>2. x.dh = m.dh /\ x.no = m.no => x = m
      BY Distinct
    <3> QED BY <3>1, <3>2
  <2>3. Past(v, x) <=> Age(x) < Age(m) \/ (Age(x) = Age(m) /\ x.no < m.no)
    BY <1>1, <1>2, <2>1 DEF Past
  <2>4. Past(w, x) <=> Age(x) < Age(m) \/ (Age(x) = Age(m) /\ x.no < m.no + 1)
    BY <1>1, <1>2, <1>3, <2>1 DEF Past
  <2> HIDE <1>1
  <2> QED BY <1>2, <2>1, <2>2, <2>3, <2>4
<1>5. /\ R \subseteq M
      /\ \A x \in R : Past(v, x)
      /\ v.skipped \in Seq(Entries(M \ R))
      /\ Len(v.skipped) <= MaxSkippedKeys
      /\ \A i \in 1..Len(v.skipped) : Past(v, v.skipped[i])
      /\ Spread(M, v.skipped)
      /\ \A x \in M \ R : Past(v, x) =>
            \/ \E i \in 1..Len(v.skipped) : v.skipped[i] = Entry(x)
            \/ \E n \in M : n.nth > x.nth + MaxSkippedKeys
  BY <1>1 DEF CacheOk
<1>6. ~Past(v, m)
  BY <1>1, <1>2 DEF Past
<1> DEFINE q == v.skipped
           E == Entries(M \ (R \cup {m}))
<1>7. ASSUME NEW i \in 1..Len(q) PROVE q[i] \in E /\ Past(w, q[i])
  <2>1. q[i] \in Entries(M \ R) /\ Past(v, q[i])
    BY <1>5
  <2>2. PICK x \in M \ R : q[i] = Entry(x)
    BY <2>1 DEF Entries
  <2>3. Past(v, x)
    BY <2>1, <2>2, PastEntry
  <2>4. x # m
    BY <1>6, <2>3
  <2>5. q[i] \in E
    BY <2>2, <2>4 DEF Entries
  <2>6. Past(w, x)
    BY <1>4, <2>3
  <2>7. Past(w, q[i])
    BY <2>2, <2>6, PastEntry
  <2> QED BY <2>5, <2>7
<1>8. q \in Seq(E)
  <2>1. Len(q) \in Nat /\ q \in Seq(Entries(M \ R))
    BY <1>5
  <2> HIDE DEF E, q
  <2>2. q \in [1..Len(q) -> E]
    BY <1>7, <2>1
  <2> QED BY <2>1, <2>2
<1>9. /\ R \cup {m} \subseteq M
      /\ \A x \in R \cup {m} : Past(w, x)
      /\ \A x \in M \ (R \cup {m}) : Past(w, x) =>
            \/ \E i \in 1..Len(q) : q[i] = Entry(x)
            \/ \E n \in M : n.nth > x.nth + MaxSkippedKeys
  BY <1>4, <1>5
<1>10. CacheOk(M, R \cup {m}, w)
  BY <1>3, <1>5, <1>7, <1>8, <1>9 DEF CacheOk
<1> QED BY <1>1, <1>3, <1>10

LEMMA ReadyOpens ==
    ASSUME NEW h, NEW p, NEW o, NEW M, MessagesOk(h, o, M), NEW R, NEW v, NEW m \in M,
           ReadyFor(h, p, M, R, v, m)
    PROVE  m.no = v.recvNo /\ v.receiving # NoChain /\ MessageKey(v.receiving) = m.key
<1>1. SideOk(h, p, v) /\ Turn(v) = Age(m) + 1 /\ v.recvNo = m.no
  BY DEF ReadyFor
<1>2. /\ Age(m) \in Nat /\ Age(m) >= 2 /\ m.key = [of |-> Root(h, Age(m)), step |-> m.no]
  BY Fields
<1>3. v.receiving = [of |-> Root(h, Turn(v) - 1), step |-> v.recvNo]
  <2>1. v.receiving = (IF Turn(v) <= 2 THEN NoChain ELSE [of |-> Root(h, Turn(v) - 1), step |-> v.recvNo])
    BY <1>1, SideFields
  <2> QED BY <1>1, <1>2, <2>1
<1>4. Turn(v) - 1 = Age(m)
  BY <1>1, <1>2
<1>5. v.receiving = m.key
  BY <1>1, <1>2, <1>3, <1>4
<1>6. m.key # NoChain
  BY <1>2, ChainsDiffer
<1> QED BY <1>1, <1>5, <1>6 DEF MessageKey
-----------------------------------------------------------------------------
(* What does not open, and what reading does.                              *)

LEMMA Longer ==
    ASSUME NEW h, NEW n \in Nat \ {0}, NEW x
    PROVE  Len(KdfRoot(Root(h, n), x)) = n + 1
<1> DEFINE f == Root(h, n)
           S == {f[i] : i \in 1..n} \cup {x}
<1>1. f \in [1..n -> S]
  BY DEF Root
<1> HIDE DEF f, S
<1>2. f \in Seq(S) /\ Len(f) = n
  BY <1>1
<1>3. x \in S
  BY DEF S
<1>4. Len(Append(f, x)) = Len(f) + 1
  BY <1>2, <1>3, AppendProperties
<1> QED BY <1>2, <1>4 DEF f, KdfRoot

(* Skipping keeps the root and the chain that it goes along.               *)
LEMMA SkipsAlong ==
    ASSUME NEW s, IsSession(s), NEW r, NEW k, s.receiving = [of |-> r, step |-> k], NEW until
    PROVE  SkipMessageKeys(s, until).receiving.of = r
<1> DEFINE v == SkipMessageKeys(s, until)
           c == [s.receiving EXCEPT !.step = @ + until - s.recvNo]
           q == WithBoundedSkippedKeys(s.skipped \o
                   [i \in 1..(until - s.recvNo) |->
                        [dh |-> s.their, no |-> s.recvNo + i - 1,
                         key |-> [s.receiving EXCEPT !.step = @ + i - 1]]])
           t == [s EXCEPT !.receiving.step = @ + until - s.recvNo, !.recvNo = until, !.skipped = q]
<1>1. v = s \/ v = t
  BY DEF SkipMessageKeys
<1> HIDE DEF q, v
<1>2. t.receiving = c
  BY DEF IsSession
<1>3. c.of = r
  OBVIOUS
<1> HIDE DEF t, c
<1>4. s.receiving.of = r
  OBVIOUS
<1>5. v.receiving.of = r
  BY <1>1, <1>2, <1>3, <1>4
<1> QED BY <1>5 DEF v

LEMMA SkipsRoot ==
    ASSUME NEW s, IsSession(s), NEW until
    PROVE  SkipMessageKeys(s, until).root = s.root /\ IsSession(SkipMessageKeys(s, until))
<1> DEFINE v == SkipMessageKeys(s, until)
           q == WithBoundedSkippedKeys(s.skipped \o
                   [i \in 1..(until - s.recvNo) |->
                        [dh |-> s.their, no |-> s.recvNo + i - 1,
                         key |-> [s.receiving EXCEPT !.step = @ + i - 1]]])
           t == [s EXCEPT !.receiving.step = @ + until - s.recvNo, !.recvNo = until, !.skipped = q]
           c == [s.receiving EXCEPT !.step = @ + until - s.recvNo]
<1>1. v = s \/ v = t
  BY DEF SkipMessageKeys
<1> HIDE DEF q, v
<1>2. t \in [own : {s.own}, their : {s.their}, root : {s.root}, sending : {s.sending},
             receiving : {c}, sendNo : {s.sendNo}, recvNo : {until},
             previous : {s.previous}, skipped : {q}]
  BY DEF IsSession
<1> HIDE DEF t, c
<1>3. t = [own |-> s.own, their |-> s.their, root |-> s.root, sending |-> s.sending,
           receiving |-> c, sendNo |-> s.sendNo, recvNo |-> until, previous |-> s.previous,
           skipped |-> q]
  BY <1>2, IsRecord
<1>4. IsSession(t) /\ t.root = s.root
  BY <1>3 DEF IsSession
<1>5. v.root = s.root /\ IsSession(v)
  BY <1>1, <1>4
<1> QED BY <1>5 DEF v

LEMMA TurnsOn ==
    ASSUME NEW s, IsSession(s), NEW d, NEW k,
           NEW u, u = ApplyDhRatchet(s, d, k)
    PROVE  IsSession(u) /\ u.receiving = Chain(KdfRoot(s.root, ComputeDh(s.own, d)))
<1> DEFINE a == KdfRoot(s.root, ComputeDh(s.own, d))
           b == KdfRoot(a, ComputeDh(k, d))
           c == [s EXCEPT !.own = k, !.their = d, !.root = b, !.sending = Chain(b),
                          !.receiving = Chain(a), !.previous = s.sendNo,
                          !.sendNo = 0, !.recvNo = 0]
<1>1. u = c
  BY DEF ApplyDhRatchet
<1> HIDE DEF a, b
<1>2. c \in [own : {k}, their : {d}, root : {b}, sending : {Chain(b)}, receiving : {Chain(a)},
             sendNo : {0}, recvNo : {0}, previous : {s.sendNo}, skipped : {s.skipped}]
  BY DEF IsSession
<1> HIDE DEF c
<1>3. c = [own |-> k, their |-> d, root |-> b, sending |-> Chain(b), receiving |-> Chain(a),
           sendNo |-> 0, recvNo |-> 0, previous |-> s.sendNo, skipped |-> s.skipped]
  BY <1>2, IsRecord
<1>4. IsSession(u) /\ u.receiving = Chain(a)
  BY <1>1, <1>3 DEF IsSession
<1> QED BY <1>4 DEF a

(* The chain has gone over the message and its key was not put aside.      *)
LEMMA OldFails ==
    ASSUME NEW h, NEW p, NEW o, NEW M, MessagesOk(h, o, M), SideOk(h, p, session[p]),
           NEW m \in M, Past(session[p], m), Cached(session[p], m) = {}
    PROVE  ~Decrypts(p, m)
<1> DEFINE s == session[p]
           n == Turn(s)
           v == CaughtUp(p, m)
<1>1. /\ n \in Nat \ {0} /\ s.recvNo \in Nat /\ s.root = Root(h, n) /\ IsSession(s)
      /\ s.their = (IF n = 1 THEN NoPair ELSE KeyPair(n - 1))
      /\ s.receiving = (IF n <= 2 THEN NoChain ELSE [of |-> Root(h, n - 1), step |-> s.recvNo])
  <2>0. SideOk(h, p, s)
    OBVIOUS
  <2> HIDE DEF s
  <2>1. n \in Nat \ {0} /\ s.recvNo \in Nat
    BY <2>0, SideNumbers
  <2> HIDE DEF n
  <2>2. /\ s.root = Root(h, n) /\ IsSession(s)
        /\ s.their = (IF n = 1 THEN NoPair ELSE KeyPair(n - 1))
        /\ s.receiving = (IF n <= 2 THEN NoChain ELSE [of |-> Root(h, n - 1), step |-> s.recvNo])
    BY <2>0, SideFields DEF n
  <2> QED BY <2>1, <2>2
<1>2. /\ Age(m) \in Nat \ {0} /\ Age(m) >= 2 /\ m.no \in Nat
      /\ m.dh = KeyPair(Age(m))
  <2>1. Age(m) \in Nat /\ Age(m) >= 2 /\ m.dh = KeyPair(Age(m)) /\ m.no \in Nat
    BY Zenon DEF MessagesOk
  <2> QED BY <2>1
<1>3. \/ Age(m) = n - 1 /\ m.no < s.recvNo
      \/ Age(m) < n - 1
  BY DEF Past
<1>4. CASE Age(m) = n - 1 /\ m.no < s.recvNo
  <2>1. s.their = m.dh
    BY <1>1, <1>2, <1>4
  <2>2. v = SkipMessageKeys(s, m.no)
    BY <2>1 DEF CaughtUp
  <2>3. SkipMessageKeys(s, m.no) = s
    BY <1>4 DEF SkipMessageKeys
  <2> HIDE DEF v, n, s
  <2>4. m.no # v.recvNo
    BY <1>1, <1>2, <1>4, <2>2, <2>3
  <2> QED BY <2>4 DEF Decrypts, v, s
<1>5. CASE Age(m) < n - 1
  <2> DEFINE t == SkipMessageKeys(s, m.previous)
             u == ApplyDhRatchet(t, m.dh, NextKeyPair(p))
             g == KdfRoot(t.root, ComputeDh(t.own, m.dh))
  <2>1. s.their # m.dh
    <3>1. n - 1 \in Nat \ {0} /\ n # 1 /\ Age(m) # n - 1
      BY <1>1, <1>2, <1>5
    <3> QED BY <1>1, <1>2, <3>1, KeyPairs
  <2>2. v = SkipMessageKeys(u, m.no)
    BY <2>1 DEF CaughtUp
  <2> HIDE DEF v, n, s
  <2>3. t.root = Root(h, n) /\ IsSession(t)
    BY <1>1, SkipsRoot
  <2> HIDE DEF t
  <2>4. IsSession(u) /\ u.receiving = [of |-> g, step |-> 0]
    BY <2>3, TurnsOn DEF Chain
  <2> HIDE DEF u
  <2>5. v.receiving.of = g
    BY <2>2, <2>4, SkipsAlong
  <2>6. Len(g) = n + 1
    BY <1>1, <2>3, Longer
  <2> HIDE DEF g
  <2>7. v.receiving # m.key
    BY <1>1, <1>2, <1>5, <2>5, <2>6 DEF Age
  <2> QED BY <2>7 DEF Decrypts, MessageKey, v, s
<1> QED BY <1>3, <1>4, <1>5

(* The session after a message: where it stands, and what was sent under   *)
(* it before.                                                              *)
Went(s, w, m) ==
    \/ /\ Turn(w) = Turn(s) /\ w.sendNo = s.sendNo /\ w.previous = s.previous
       /\ w.recvNo = s.recvNo \/ (Age(m) = Turn(s) - 1 /\ w.recvNo = m.no + 1)
    \/ /\ Age(m) = Turn(s) + 1
       /\ Turn(w) = Turn(s) + 2 /\ w.sendNo = 0 /\ w.previous = s.sendNo
       /\ w.recvNo = m.no + 1

LEMMA MessageRead ==
    ASSUME NEW h, NEW p, NEW o, o = Other(p), p \in Sides,
           NEW M, MessagesOk(h, o, M), NEW R, CacheOk(M, R, session[p]),
           SideOk(h, p, session[p]), NEW m \in M, Age(m) <= Turn(session[p]) + 1,
           Decrypts(p, m)
    PROVE  LET w == AfterMessage(p, m) IN
           SideOk(h, p, w) /\ CacheOk(M, R \cup {m}, w) /\ Went(session[p], w, m)
<1> DEFINE s == session[p]
           w == AfterMessage(p, m)
<1>1. Turn(s) \in Nat \ {0} /\ s.recvNo \in Nat
  BY SideNumbers
<1>2. CASE Cached(s, m) # {}
  <2> DEFINE i == CHOOSE i \in Cached(s, m) : TRUE
  <2>1. i \in Cached(s, m)
    BY <1>2
  <2>2. w = [s EXCEPT !.skipped = Without(s.skipped, i)]
    BY <1>2 DEF AfterMessage, TakeCached
  <2> HIDE DEF s, w, i
  <2>3. SideOk(h, p, s) /\ CacheOk(M, R, s)
    BY DEF s
  <2>4. /\ SideOk(h, p, w) /\ Turn(w) = Turn(s) /\ w.sendNo = s.sendNo
        /\ w.recvNo = s.recvNo /\ w.previous = s.previous /\ w.skipped = Without(s.skipped, i)
    BY <2>2, <2>3, TakenSide
  <2>5. CacheOk(M, R \cup {m}, w)
    BY <1>1, <2>1, <2>3, <2>4, TakeKeeps
  <2> QED BY <2>4, <2>5 DEF Went, s, w
<1>3. CASE Cached(s, m) = {}
  <2> DEFINE v == CaughtUp(p, m)
  <2>1. ~Past(s, m)
    BY <1>3, OldFails
  <2>2. /\ ReadyFor(h, p, M, R, v, m)
        /\ \/ Age(m) = Turn(s) - 1 /\ v.sendNo = s.sendNo /\ v.previous = s.previous
           \/ Age(m) = Turn(s) + 1 /\ v.sendNo = 0 /\ v.previous = s.sendNo
    BY <2>1, CatchUp
  <2>3. w = ReadNext(v)
    BY <1>3 DEF AfterMessage, ReadNext
  <2> HIDE DEF v, w, s
  <2>8. ReadyFor(h, p, M, R, v, m)
    BY <2>2
  <2>4. /\ SideOk(h, p, w) /\ CacheOk(M, R \cup {m}, w)
        /\ Turn(w) = Turn(v) /\ w.sendNo = v.sendNo /\ w.recvNo = m.no + 1
        /\ w.previous = v.previous
    BY <2>3, <2>8, ReadKeeps
  <2>5. Turn(v) = Age(m) + 1
    BY <2>2 DEF ReadyFor
  <2>6. Age(m) \in Nat
    BY Fields
  <2> HIDE DEF s
  <2>7. Went(s, w, m)
    BY <1>1, <2>2, <2>4, <2>5, <2>6 DEF Went
  <2> QED BY <2>4, <2>7 DEF s, w
<1> QED BY <1>2, <1>3
-----------------------------------------------------------------------------
(* Sending.                                                                *)

Encrypted(p, s, M) ==
    [from |-> p, nth |-> Cardinality(M) + 1, dh |-> s.own, no |-> s.sendNo,
     previous |-> s.previous, key |-> MessageKey(s.sending)]

LEMMA SentFields ==
    ASSUME NEW h, NEW p, NEW s, SideOk(h, p, s), s.sending # NoChain,
           NEW M, MessagesOk(h, p, M), SenderOk(s, M), NEW e, e = Encrypted(p, s, M)
    PROVE  /\ e.nth = Cardinality(M) + 1 /\ e.no = s.sendNo /\ e.previous = s.previous
           /\ e.dh = KeyPair(Turn(s)) /\ e.key = [of |-> Root(h, Turn(s)), step |-> s.sendNo]
           /\ Age(e) = Turn(s) /\ Turn(s) \in Nat /\ Turn(s) >= 2 /\ Owner(Turn(s)) = p
           /\ Cardinality(M) \in Nat /\ s.sendNo \in Nat /\ s.previous \in Nat
           /\ e \notin M
<1>1. /\ e.nth = Cardinality(M) + 1 /\ e.no = s.sendNo /\ e.previous = s.previous
      /\ e.dh = s.own /\ e.key = s.sending
  BY DEF Encrypted, MessageKey
<1>2. /\ Turn(s) \in Nat \ {0} /\ Owner(Turn(s)) = p
      /\ s.sendNo \in Nat /\ s.recvNo \in Nat /\ s.previous \in Nat
  BY SideNumbers
<1>3. s.own = KeyPair(Turn(s))
  BY SideFields
<1>4. Turn(s) >= 2 /\ s.sending = [of |-> Root(h, Turn(s)), step |-> s.sendNo]
  BY SentSide
<1>5. Cardinality(M) \in Nat
  BY FS_CardinalityType DEF MessagesOk
<1>6. e \notin M
  <2>1. \A x \in M : x.nth \in 1..Cardinality(M)
    BY Zenon DEF MessagesOk
  <2> QED BY <1>1, <1>5, <2>1
<1>7. Age(e) = Turn(s)
  <2>1. e.key.of = Root(h, Turn(s))
    BY <1>1, <1>4
  <2>2. Len(Root(h, Turn(s))) = Turn(s)
    BY <1>2, Roots
  <2> QED BY <2>1, <2>2 DEF Age
<1> QED BY <1>1, <1>2, <1>3, <1>4, <1>5, <1>6, <1>7

(* How a message of M stands to the session and to a new one.              *)
LEMMA SenderFields ==
    ASSUME NEW s, NEW M, SenderOk(s, M), NEW x \in M
    PROVE  /\ Age(x) <= Turn(s)
           /\ Age(x) = Turn(s) => x.no < s.sendNo /\ x.nth = Cardinality(M) - s.sendNo + x.no + 1
           /\ Age(x) < Turn(s) => x.nth <= Cardinality(M) - s.sendNo
           /\ Age(x) = Turn(s) - 2 => x.no < s.previous
BY Zenon DEF SenderOk

LEMMA LaterCounts ==
    ASSUME NEW M, IsFiniteSet(M), NEW e, e \notin M, e.nth = Cardinality(M) + 1,
           \A x \in M : x.nth \in 1..Cardinality(M)
    PROVE  /\ IsFiniteSet(M \cup {e}) /\ Cardinality(M \cup {e}) = Cardinality(M) + 1
           /\ Cardinality(After(M \cup {e}, e)) = 0
           /\ \A x \in M : Cardinality(After(M \cup {e}, x))
                              = Cardinality(After(M, x)) + 1
<1>1. Cardinality(M) \in Nat
  BY FS_CardinalityType
<1>2. IsFiniteSet(M \cup {e}) /\ Cardinality(M \cup {e}) = Cardinality(M) + 1
  BY FS_AddElement
<1>3. After(M \cup {e}, e) = {}
  BY <1>1 DEF After
<1>4. ASSUME NEW x \in M
      PROVE  Cardinality(After(M \cup {e}, x))
                              = Cardinality(After(M, x)) + 1
  <2> DEFINE A == After(M, x)
             B == After(M \cup {e}, x)
  <2>1. B = A \cup {e}
    BY <1>1 DEF After
  <2>2. e \notin A
    BY DEF After
  <2>3. IsFiniteSet(A)
    BY FS_Subset DEF After
  <2> HIDE DEF A, B
  <2>4. Cardinality(A \cup {e}) = Cardinality(A) + 1
    BY <2>2, <2>3, FS_AddElement
  <2> QED BY <2>1, <2>4 DEF A, B
<1> QED BY <1>2, <1>3, <1>4, FS_EmptySet

LEMMA SentKeeps ==
    ASSUME NEW h, NEW p, NEW s, SideOk(h, p, s), s.sending # NoChain,
           NEW M, MessagesOk(h, p, M), SenderOk(s, M), NEW e, e = Encrypted(p, s, M)
    PROVE  MessagesOk(h, p, M \cup {e})
<1> DEFINE N == M \cup {e}
           c == Cardinality(M)
           n == Turn(s)
<1>1. /\ e.nth = c + 1 /\ e.no = s.sendNo /\ e.previous = s.previous
      /\ e.dh = KeyPair(n) /\ e.key = [of |-> Root(h, n), step |-> s.sendNo]
      /\ Age(e) = n /\ n \in Nat /\ n >= 2 /\ Owner(n) = p
      /\ c \in Nat /\ s.sendNo \in Nat /\ s.previous \in Nat
      /\ e \notin M
  BY SentFields
<1>2. /\ IsFiniteSet(M)
      /\ \A x \in M : x.nth \in 1..c /\ Cardinality(After(M, x)) = c - x.nth
  BY Zenon DEF MessagesOk
<1> HIDE DEF n
<1>3. /\ IsFiniteSet(N) /\ Cardinality(N) = c + 1
      /\ Cardinality(After(N, e)) = 0
      /\ \A x \in M : Cardinality(After(N, x)) = Cardinality(After(M, x)) + 1
  <2>1. \A x \in M : x.nth \in 1..Cardinality(M)
    BY <1>2
  <2>2. IsFiniteSet(M) /\ e \notin M /\ e.nth = Cardinality(M) + 1
    BY <1>1, <1>2
  <2> QED BY <2>1, <2>2, LaterCounts, Zenon
<1> HIDE DEF N
<1>4. \A x : x \in N <=> x \in M \/ x = e
  BY DEF N
<1>5. ASSUME NEW x \in N
      PROVE  /\ Age(x) \in Nat /\ Age(x) >= 2 /\ Owner(Age(x)) = p
             /\ x.dh = KeyPair(Age(x)) /\ x.key = [of |-> Root(h, Age(x)), step |-> x.no]
             /\ x.no \in Nat /\ x.previous \in Nat
             /\ x.nth \in 1..Cardinality(N)
             /\ Cardinality(After(N, x)) = Cardinality(N) - x.nth
  <2>1. CASE x = e
    <3>1. Cardinality(After(N, x)) = 0
      BY <1>3, <2>1
    <3>2. x.nth = c + 1 /\ Cardinality(N) - x.nth = 0
      BY <1>1, <1>3, <2>1
    <3>3. x.nth \in 1..Cardinality(N)
      BY <1>1, <1>3, <3>2
    <3>4. /\ Age(x) \in Nat /\ Age(x) >= 2 /\ Owner(Age(x)) = p
          /\ x.dh = KeyPair(Age(x)) /\ x.key = [of |-> Root(h, Age(x)), step |-> x.no]
          /\ x.no \in Nat /\ x.previous \in Nat
      BY <1>1, <2>1
    <3> QED BY <3>1, <3>2, <3>3, <3>4
  <2>2. CASE x \in M
    <3>1. /\ Age(x) \in Nat /\ Age(x) >= 2 /\ Owner(Age(x)) = p
          /\ x.dh = KeyPair(Age(x)) /\ x.key = [of |-> Root(h, Age(x)), step |-> x.no]
          /\ x.no \in Nat /\ x.previous \in Nat
      BY <2>2, Zenon DEF MessagesOk
    <3>2. x.nth \in 1..c /\ Cardinality(After(M, x)) = c - x.nth
      BY <1>2, <2>2
    <3>3. Cardinality(After(N, x)) = (c - x.nth) + 1
      BY <1>3, <2>2, <3>2
    <3>4. x.nth \in 1..Cardinality(N) /\ (c - x.nth) + 1 = Cardinality(N) - x.nth
      BY <1>1, <1>3, <3>2
    <3> QED BY <3>1, <3>3, <3>4
  <2> QED BY <1>4, <2>1, <2>2
<1>6. ASSUME NEW x \in M
      PROVE  /\ x.nth < e.nth /\ Age(x) <= n
             /\ Age(x) = n => x.nth + e.no = e.nth + x.no
             /\ Age(x) < n => x.nth + e.no < e.nth
             /\ Age(x) = n - 2 => x.no < e.previous
  <2>1. /\ Age(x) <= n
        /\ Age(x) = n => x.no < s.sendNo /\ x.nth = c - s.sendNo + x.no + 1
        /\ Age(x) < n => x.nth <= c - s.sendNo
        /\ Age(x) = n - 2 => x.no < s.previous
    BY SenderFields DEF n
  <2>2. x.nth \in 1..c
    BY <1>2
  <2>3. x.no \in Nat /\ Age(x) \in Nat
    BY Fields
  <2> HIDE DEF c
  <2> QED BY <1>1, <2>1, <2>2, <2>3
<1>7. ASSUME NEW x \in N, NEW y \in N
      PROVE  /\ x.nth = y.nth => x = y
             /\ Age(x) = Age(y) => x.nth + y.no = y.nth + x.no
             /\ Age(x) < Age(y) => x.nth + y.no < y.nth
             /\ Age(x) = Age(y) - 2 => x.no < y.previous
  <2>1. CASE x \in M /\ y \in M
    BY <2>1, Order
  <2>2. CASE x \in M /\ y = e
    <3>1. x.nth \in Nat
      BY <2>2, Fields
    <3> QED BY <1>1, <1>6, <2>2, <3>1
  <2>3. CASE x = e /\ y \in M
    <3>1. y.nth \in Nat /\ y.no \in Nat /\ Age(y) \in Nat
      BY <2>3, Fields
    <3>2. /\ y.nth < e.nth /\ Age(y) <= n
          /\ Age(y) = n => y.nth + e.no = e.nth + y.no
      BY <1>6, <2>3
    <3> QED BY <1>1, <2>3, <3>1, <3>2
  <2>4. CASE x = e /\ y = e
    BY <1>1, <2>4
  <2> QED BY <1>4, <2>1, <2>2, <2>3, <2>4
<1>8. \A x \in N : \A j \in 0..(x.no - 1) : \E y \in N : Age(y) = Age(x) /\ y.no = j
  <2>1. \A x \in M : \A j \in 0..(x.no - 1) : \E y \in M : Age(y) = Age(x) /\ y.no = j
    BY Zenon DEF MessagesOk
  <2>2. \A j \in 0..(s.sendNo - 1) : \E y \in M : Age(y) = n /\ y.no = j
    BY DEF SenderOk, n
  <2> QED BY <1>1, <1>4, <2>1, <2>2
<1>9. \A x \in N : \A j \in 0..(x.previous - 1) : \E y \in N : Age(y) = Age(x) - 2 /\ y.no = j
  <2>1. \A x \in M : \A j \in 0..(x.previous - 1) : \E y \in M : Age(y) = Age(x) - 2 /\ y.no = j
    BY Zenon DEF MessagesOk
  <2>2. \A j \in 0..(s.previous - 1) : \E y \in M : Age(y) = n - 2 /\ y.no = j
    BY DEF SenderOk, n
  <2> QED BY <1>1, <1>4, <2>1, <2>2
<1>10. MessagesOk(h, p, N)
  BY <1>3, <1>5, <1>7, <1>8, <1>9, Zenon DEF MessagesOk
<1> QED BY <1>10 DEF N

LEMMA SentSender ==
    ASSUME NEW h, NEW p, NEW s, SideOk(h, p, s), s.sending # NoChain,
           NEW M, MessagesOk(h, p, M), SenderOk(s, M), NEW e, e = Encrypted(p, s, M),
           NEW t, Turn(t) = Turn(s), t.sendNo = s.sendNo + 1, t.previous = s.previous
    PROVE  SenderOk(t, M \cup {e})
<1> DEFINE N == M \cup {e}
           c == Cardinality(M)
           n == Turn(s)
<1>1. /\ e.nth = c + 1 /\ e.no = s.sendNo /\ e.previous = s.previous
      /\ Age(e) = n /\ n \in Nat /\ c \in Nat /\ s.sendNo \in Nat /\ s.previous \in Nat
      /\ e \notin M
  <2> HIDE DEF c, n
  <2>1. /\ e.nth = Cardinality(M) + 1 /\ e.no = s.sendNo /\ e.previous = s.previous
        /\ e.dh = KeyPair(Turn(s)) /\ e.key = [of |-> Root(h, Turn(s)), step |-> s.sendNo]
        /\ Age(e) = Turn(s) /\ Turn(s) \in Nat /\ Turn(s) >= 2 /\ Owner(Turn(s)) = p
        /\ Cardinality(M) \in Nat /\ s.sendNo \in Nat /\ s.previous \in Nat
        /\ e \notin M
    BY SentFields
  <2> QED BY <2>1 DEF c, n
<1>2. Cardinality(N) = c + 1
  <2>1. IsFiniteSet(M)
    BY DEF MessagesOk
  <2> QED BY <1>1, <2>1, FS_AddElement
<1> HIDE DEF n
<1>3. ASSUME NEW x \in N
      PROVE  /\ Age(x) <= n
             /\ Age(x) = n => x.no < t.sendNo /\ x.nth = Cardinality(N) - t.sendNo + x.no + 1
             /\ Age(x) < n => x.nth <= Cardinality(N) - t.sendNo
             /\ Age(x) = n - 2 => x.no < t.previous
  <2>1. CASE x = e
    BY <1>1, <1>2, <2>1
  <2>2. CASE x \in M
    <3>1. /\ Age(x) <= n
          /\ Age(x) = n => x.no < s.sendNo /\ x.nth = c - s.sendNo + x.no + 1
          /\ Age(x) < n => x.nth <= c - s.sendNo
          /\ Age(x) = n - 2 => x.no < s.previous
      BY <2>2, SenderFields DEF n
    <3>2. x.no \in Nat /\ x.nth \in Nat /\ Age(x) \in Nat
      BY <2>2, Fields
    <3> HIDE DEF c, N
    <3> QED BY <1>1, <1>2, <3>1, <3>2
  <2> QED BY <2>1, <2>2
<1>4. \A j \in 0..(t.sendNo - 1) : \E x \in N : Age(x) = n /\ x.no = j
  <2>1. \A j \in 0..(s.sendNo - 1) : \E x \in M : Age(x) = n /\ x.no = j
    BY DEF SenderOk, n
  <2> TAKE j \in 0..(t.sendNo - 1)
  <2>2. CASE j \in 0..(s.sendNo - 1)
    BY <2>1, <2>2
  <2>3. CASE j = s.sendNo
    BY <1>1, <2>3
  <2> QED BY <1>1, <2>2, <2>3
<1>5. \A j \in 0..(t.previous - 1) : \E x \in N : Age(x) = n - 2 /\ x.no = j
  <2>1. \A j \in 0..(s.previous - 1) : \E x \in M : Age(x) = n - 2 /\ x.no = j
    BY DEF SenderOk, n
  <2> QED BY <2>1
<1>6. Turn(t) = n
  BY DEF n
<1> HIDE DEF N
<1>7. SenderOk(t, N)
  BY <1>3, <1>4, <1>5, <1>6, Zenon DEF SenderOk
<1> QED BY <1>7 DEF N

(* The receiver's side of it.                                              *)
LEMMA GrowKeeps ==
    ASSUME NEW h, NEW o, NEW M, NEW e, e \notin M, MessagesOk(h, o, M \cup {e}),
           NEW R, NEW s, CacheOk(M, R, s), ~Past(s, e)
    PROVE  CacheOk(M \cup {e}, R, s)
<1> DEFINE N == M \cup {e}
           q == s.skipped
<1>1. /\ R \subseteq M
      /\ \A x \in R : Past(s, x)
      /\ q \in Seq(Entries(M \ R))
      /\ Len(q) <= MaxSkippedKeys
      /\ \A i \in 1..Len(q) : Past(s, q[i])
      /\ Spread(M, q)
      /\ \A x \in M \ R : Past(s, x) =>
            \/ \E i \in 1..Len(q) : q[i] = Entry(x)
            \/ \E n \in M : n.nth > x.nth + MaxSkippedKeys
  BY DEF CacheOk
<1> HIDE DEF q
<1>2. q \in Seq(Entries(N \ R))
  <2> DEFINE E == Entries(M \ R)
             F == Entries(N \ R)
  <2>1. E \subseteq F
    BY DEF Entries
  <2>2. q \in Seq(E)
    BY <1>1
  <2> HIDE DEF E, F
  <2>3. Len(q) \in Nat /\ \A i \in 1..Len(q) : q[i] \in F
    BY <2>1, <2>2
  <2>4. q \in [1..Len(q) -> F]
    BY <2>2, <2>3
  <2>5. q \in Seq(F)
    BY <2>3, <2>4
  <2> QED BY <2>5 DEF F
<1> HIDE DEF N
<1>3. \A x : x \in N <=> x \in M \/ x = e
  BY DEF N
<1>4. ASSUME NEW i \in 1..Len(q), NEW x \in N, q[i] = Entry(x) PROVE x \in M
  <2>1. q[i] \in Entries(M \ R)
    BY <1>1
  <2>2. PICK y \in M \ R : q[i] = Entry(y)
    BY <2>1 DEF Entries
  <2>3. y \in N /\ Entry(x) = Entry(y)
    BY <1>3, <1>4, <2>2
  <2>4. MessagesOk(h, o, N)
    BY DEF N
  <2>5. x = y
    BY <2>3, <2>4, Distinct
  <2> QED BY <2>2, <2>5
<1>5. Spread(N, q)
  BY <1>1, <1>4 DEF Spread
<1>6. R \subseteq N /\ \A x \in N \ R : Past(s, x) =>
            \/ \E i \in 1..Len(q) : q[i] = Entry(x)
            \/ \E n \in N : n.nth > x.nth + MaxSkippedKeys
  BY <1>1, <1>3
<1>7. CacheOk(N, R, s)
  BY <1>1, <1>2, <1>5, <1>6 DEF CacheOk, q
<1> QED BY <1>7 DEF N

LEMMA TurnedSender ==
    ASSUME NEW h, NEW p, NEW M, MessagesOk(h, p, M), NEW s, SenderOk(s, M),
           Turn(s) \in Nat, s.sendNo \in Nat,
           NEW t, Turn(t) = Turn(s) + 2, t.sendNo = 0, t.previous = s.sendNo
    PROVE  SenderOk(t, M)
<1>1. ASSUME NEW x \in M
      PROVE  /\ Age(x) <= Turn(t) /\ Age(x) # Turn(t) /\ x.nth <= Cardinality(M) - t.sendNo
             /\ Age(x) = Turn(t) - 2 => x.no < t.previous
  <2>1. /\ Age(x) <= Turn(s)
        /\ Age(x) = Turn(s) => x.no < s.sendNo
    BY SenderFields
  <2>2. Cardinality(M) \in Nat /\ x.nth \in Nat /\ x.nth <= Cardinality(M) /\ Age(x) \in Nat
    BY Fields
  <2> QED BY <2>1, <2>2
<1>2. \A j \in 0..(t.previous - 1) : \E x \in M : Age(x) = Turn(t) - 2 /\ x.no = j
  <2>1. \A j \in 0..(s.sendNo - 1) : \E x \in M : Age(x) = Turn(s) /\ x.no = j
    BY DEF SenderOk
  <2> QED BY <2>1
<1>3. 0..(t.sendNo - 1) = {}
  OBVIOUS
<1> QED BY <1>1, <1>2, <1>3 DEF SenderOk

LEMMA SameSender ==
    ASSUME NEW M, NEW s, SenderOk(s, M),
           NEW t, Turn(t) = Turn(s), t.sendNo = s.sendNo, t.previous = s.previous
    PROVE  SenderOk(t, M)
BY DEF SenderOk

LEMMA Nothing ==
    ASSUME NEW h, NEW p, NEW s, s.sendNo = 0, s.previous = 0
    PROVE  MessagesOk(h, p, {}) /\ SenderOk(s, {})
<1>1. IsFiniteSet({})
  BY FS_EmptySet
<1>2. 0..(s.sendNo - 1) = {} /\ 0..(s.previous - 1) = {}
  OBVIOUS
<1> QED BY <1>1, <1>2 DEF MessagesOk, SenderOk

LEMMA NothingRead ==
    ASSUME NEW h, NEW o, NEW M, MessagesOk(h, o, M), NEW s,
           Turn(s) \in Nat, Turn(s) <= 2, s.skipped = <<>>
    PROVE  CacheOk(M, {}, s)
<1>1. \A x \in M : ~Past(s, x)
  <2> TAKE x \in M
  <2>1. Age(x) \in Nat /\ Age(x) >= 2
    BY Fields
  <2> QED BY <2>1 DEF Past
<1>2. Len(s.skipped) = 0 /\ s.skipped \in Seq(Entries(M \ {})) /\ Spread(M, s.skipped)
  BY DEF Spread
<1>3. MaxSkippedKeys \in Nat
  BY RatchetAssumption
<1> QED BY <1>1, <1>2, <1>3 DEF CacheOk
-----------------------------------------------------------------------------
(* The invariant.                                                          *)

LEMMA Both == /\ Sides = {"alice", "bob"}
              /\ Other("alice") = "bob" /\ Other("bob") = "alice"
              /\ \A p \in Sides : Other(p) \in Sides /\ Other(p) # p /\ Other(Other(p)) = p
BY DEF Sides, Other

LEMMA RatchetStarts == RatchetInit => RatchetInv
<1> SUFFICES ASSUME RatchetInit PROVE RatchetInv
  OBVIOUS
<1>1. \A p \in Sides : ~There(p) /\ opened[p] = {} /\ By(p) = {}
  BY DEF RatchetInit, There, By
<1>2. \A p \in Sides : MessagesOk(hello, p, {})
  <2>1. NoSession.sendNo = 0 /\ NoSession.previous = 0
    BY DEF NoSession
  <2> QED BY <2>1, Nothing
<1>3. hello = NoHello /\ sent = {} /\ DOMAIN session = Sides /\ DOMAIN opened = Sides
  BY DEF RatchetInit
<1>4. "alice" \in Sides /\ "bob" \in Sides
  BY DEF Sides
<1> QED BY <1>1, <1>2, <1>3, <1>4 DEF RatchetInv, SideInv

LEMMA SecretRoot ==
    ASSUME NEW h, NEW s, s = InitInitiator(Secret(h), Pair("alice", "ratchet", 0), SignedPreKey)
    PROVE  s = Session(h, 2, 0, 0, 0, <<>>)
<1>1. <<Secret(h)>> = Root(h, 1)
  BY DEF Root
<1>2. Pair("alice", "ratchet", 0) = KeyPair(2) /\ SignedPreKey = KeyPair(1)
  BY DEF KeyPair, Owner
<1> DEFINE r == KdfRoot(<<Secret(h)>>, ComputeDh(Pair("alice", "ratchet", 0), SignedPreKey))
           k == KeyPair(2)
           d == KeyPair(1)
<1>3. r = Root(h, 2)
  <2>1. KdfRoot(Root(h, 1), ComputeDh(KeyPair(1 + 1), KeyPair(1))) = Root(h, 1 + 1)
    BY Roots
  <2> QED BY <1>1, <1>2, <2>1
<1>4. s = [NoSession EXCEPT !.own = k, !.their = d, !.root = r, !.sending = Chain(r)]
  BY <1>2 DEF InitInitiator
<1> HIDE DEF r, k, d
<1>5. s = [own |-> k, their |-> d, root |-> r, sending |-> Chain(r), receiving |-> NoChain,
           sendNo |-> 0, recvNo |-> 0, previous |-> 0, skipped |-> <<>>]
  BY <1>4 DEF NoSession
<1> QED BY <1>3, <1>5 DEF Session, Chain, k, d

LEMMA FirstRoot ==
    ASSUME NEW h, NEW s, s = InitResponder(Secret(h), SignedPreKey)
    PROVE  s = Session(h, 1, 0, 0, 0, <<>>)
<1>1. <<Secret(h)>> = Root(h, 1)
  BY DEF Root
<1> DEFINE r == <<Secret(h)>>
           d == SignedPreKey
<1>2. s = [NoSession EXCEPT !.own = d, !.root = r]
  BY DEF InitResponder
<1> HIDE DEF r, d
<1>3. s = [own |-> d, their |-> NoPair, root |-> r, sending |-> NoChain, receiving |-> NoChain,
           sendNo |-> 0, recvNo |-> 0, previous |-> 0, skipped |-> <<>>]
  BY <1>2 DEF NoSession
<1> QED BY <1>1, <1>3 DEF Session, KeyPair, r, d

LEMMA InitiateKeeps == ASSUME RatchetInv, Initiate PROVE RatchetInv'
<1> DEFINE u == session'["alice"]
<1>1. /\ ~There("alice") /\ ~There("bob")
      /\ DOMAIN session = Sides /\ DOMAIN opened = Sides
      /\ \A p \in Sides : By(p) = {} /\ opened[p] = {}
      /\ \A m \in sent : m.from \in Sides
  <2>1. ~There("alice")
    BY DEF Initiate, There
  <2>2. ~There("bob")
    BY <2>1 DEF RatchetInv
  <2>3. \A p \in Sides : ~There(p) /\ SideInv(p)
    BY <2>1, <2>2, Both DEF RatchetInv
  <2>4. \A p \in Sides : By(p) = {} /\ opened[p] = {}
    BY <2>3 DEF SideInv
  <2> QED BY <2>1, <2>2, <2>4 DEF RatchetInv
<1>2. /\ sent' = sent /\ opened' = opened
      /\ hello' = [eph |-> Pair("alice", "ephemeral", 0), oneTime |-> bundle.oneTime]
      /\ session' = [session EXCEPT !["alice"] =
            InitInitiator(DhValues(hello'.eph, bundle.oneTime), Pair("alice", "ratchet", 0), SignedPreKey)]
  BY DEF Initiate
<1>3. hello'.oneTime = bundle.oneTime /\ hello' # NoHello
  BY <1>2 DEF NoHello, NoPair, Pair
<1>4. u = InitInitiator(Secret(hello'), Pair("alice", "ratchet", 0), SignedPreKey)
  BY <1>1, <1>2, <1>3, Both DEF Secret
<1>5. session'["bob"] = session["bob"] /\ DOMAIN session' = Sides
  BY <1>1, <1>2, Both
<1> HIDE DEF u
<1>6. /\ SideOk(hello', "alice", u) /\ Turn(u) = 2
      /\ u.sendNo = 0 /\ u.recvNo = 0 /\ u.previous = 0 /\ u.skipped = <<>>
  <2>1. u = Session(hello', 2, 0, 0, 0, <<>>)
    BY <1>4, SecretRoot
  <2>2. Owner(2) = "alice"
    BY DEF Owner
  <2> QED BY <2>1, <2>2, SideIs
<1>7. There("alice")' /\ ~There("bob")'
  <2>1. u # NoSession
    BY <1>6, SideThere
  <2> QED BY <1>1, <1>5, <2>1 DEF There, u
<1>8. \A p \in Sides : By(p)' = {} /\ opened'[p] = {}
  BY <1>1, <1>2 DEF By
<1>9. ASSUME NEW p \in Sides PROVE SideInv(p)'
  <2>1. MessagesOk(hello', p, {}) /\ SenderOk(u, {})
    BY <1>6, Nothing
  <2>2. MessagesOk(hello', Other(p), {})
    BY <1>6, Nothing
  <2>3. CacheOk({}, {}, u)
    BY <1>6, <2>2, NothingRead
  <2>4. By(p)' = {} /\ By(Other(p))' = {} /\ opened'[p] = {}
    BY <1>8, Both
  <2>5. CASE p = "alice"
    BY <1>6, <1>7, <2>1, <2>3, <2>4, <2>5 DEF SideInv, u
  <2>6. CASE p = "bob"
    BY <1>7, <2>1, <2>4, <2>6 DEF SideInv
  <2> QED BY <2>5, <2>6, Both
<1> QED BY <1>1, <1>2, <1>3, <1>5, <1>6, <1>7, <1>9 DEF RatchetInv, u

LEMMA RespondKeeps == ASSUME RatchetInv, Respond PROVE RatchetInv'
<1> DEFINE u == session'["bob"]
           s == session["alice"]
<1>1. /\ There("alice") /\ ~There("bob") /\ Turn(s) = 2 /\ s.recvNo = 0
      /\ DOMAIN session = Sides /\ DOMAIN opened = Sides
      /\ \A m \in sent : m.from \in Sides
      /\ SideInv("alice") /\ SideInv("bob")
  <2>1. ~There("bob") /\ There("alice")
    BY DEF Respond, There, RatchetInv
  <2> QED BY <2>1, Both DEF RatchetInv
<1>2. /\ sent' = sent /\ opened' = opened /\ hello' = hello /\ hello # NoHello
      /\ session' = [session EXCEPT !["bob"] =
            InitResponder(DhValues(hello.eph, hello.oneTime), SignedPreKey)]
  BY DEF Respond
<1>3. u = InitResponder(Secret(hello), SignedPreKey)
  BY <1>1, <1>2, Both DEF Secret
<1>4. session'["alice"] = s /\ DOMAIN session' = Sides
  BY <1>1, <1>2, Both
<1> HIDE DEF u, s
<1>5. /\ SideOk(hello, "bob", u) /\ Turn(u) = 1
      /\ u.sendNo = 0 /\ u.recvNo = 0 /\ u.previous = 0 /\ u.skipped = <<>>
  <2>1. u = Session(hello, 1, 0, 0, 0, <<>>)
    BY <1>3, FirstRoot
  <2>2. Owner(1) = "bob"
    BY DEF Owner
  <2> QED BY <2>1, <2>2, SideIs
<1>6. There("alice")' /\ There("bob")'
  <2>1. u # NoSession
    BY <1>5, SideThere
  <2> QED BY <1>1, <1>4, <2>1 DEF There, u, s
<1>7. By("alice")' = By("alice") /\ By("bob")' = By("bob") /\ By("bob") = {} /\ opened["bob"] = {}
  BY <1>1, <1>2 DEF By, SideInv
<1>8. SideInv("alice")'
  BY <1>1, <1>2, <1>4, <1>6, <1>7, Both DEF SideInv, s
<1>9. SideInv("bob")'
  <2>1. MessagesOk(hello, "bob", {}) /\ SenderOk(u, {})
    BY <1>5, Nothing
  <2>2. MessagesOk(hello, "alice", By("alice"))
    BY <1>1 DEF SideInv
  <2>3. CacheOk(By("alice"), {}, u)
    BY <1>5, <2>2, NothingRead
  <2> QED BY <1>2, <1>5, <1>6, <1>7, <2>1, <2>3, Both DEF SideInv, u
<1>10. s.sendNo \in Nat
  <2>1. SideOk(hello, "alice", s)
    BY <1>1 DEF SideInv, s
  <2> QED BY <2>1, SideNumbers
<1>11. InStep(u, s) /\ InStep(s, u)
  BY <1>1, <1>5, <1>10 DEF InStep
<1>12. \A p \in Sides : InStep(session'[p], session'[Other(p)])
  BY <1>4, <1>11, Both DEF u
<1>13. \A p \in Sides : SideInv(p)'
  BY <1>8, <1>9, Both
<1> QED BY <1>1, <1>2, <1>4, <1>6, <1>12, <1>13 DEF RatchetInv

LEMMA BothInStep ==
    ASSUME RatchetInv, NEW p \in Sides, There(p), There(Other(p))
    PROVE  /\ InStep(session[p], session[Other(p)]) /\ InStep(session[Other(p)], session[p])
           /\ SideInv(p) /\ SideInv(Other(p)) /\ There("bob") /\ There("alice")
<1>1. There("bob") /\ There("alice")
  BY Both
<1>2. \A q \in Sides : SideInv(q) /\ InStep(session[q], session[Other(q)])
  BY <1>1 DEF RatchetInv
<1> QED BY <1>1, <1>2, Both

LEMMA EncryptKeeps == ASSUME RatchetInv, NEW p \in Sides, EncryptMessage(p) PROVE RatchetInv'
<1> DEFINE s == session[p]
           o == Other(p)
           M == By(p)
           e == Encrypted(p, s, M)
           t == session'[p]
<1>1. /\ There(p) /\ s.sending # NoChain
      /\ sent' = sent \cup {e} /\ UNCHANGED <<bundle, hello, opened>>
      /\ session' = [session EXCEPT ![p].sending = KdfChain(@), ![p].sendNo = @ + 1]
  BY DEF EncryptMessage, There, Encrypted
<1>2. /\ DOMAIN session = Sides /\ DOMAIN opened = Sides
      /\ \A m \in sent : m.from \in Sides
      /\ There("alice") <=> hello # NoHello
      /\ There("bob") => There("alice")
      /\ There("alice") /\ ~There("bob") => Turn(session["alice"]) = 2 /\ session["alice"].recvNo = 0
      /\ \A q \in Sides : SideInv(q)
  BY DEF RatchetInv
<1>3. /\ t = SentNext(s)
      /\ \A q \in Sides : q # p => session'[q] = session[q]
      /\ DOMAIN session' = Sides
  BY <1>1, <1>2 DEF SentNext
<1>4. MessagesOk(hello, p, M) /\ SideOk(hello, p, s) /\ SenderOk(s, M)
  BY <1>1, <1>2 DEF SideInv
<1>5. e.from = p
  BY DEF Encrypted
<1>6. By(p)' = M \cup {e} /\ By(o)' = By(o)
  BY <1>1, <1>5, Both DEF By
<1> HIDE DEF s, M, e, t
<1>7. /\ SideOk(hello, p, t) /\ Turn(t) = Turn(s) /\ t.sendNo = s.sendNo + 1
      /\ t.recvNo = s.recvNo /\ t.previous = s.previous /\ t.skipped = s.skipped
  <2>1. t = SentNext(s) /\ s.sending # NoChain
    BY <1>1, <1>3
  <2>2. SideOk(hello, p, s)
    BY <1>4
  <2>3. /\ SideOk(hello, p, t) /\ Turn(t) = Turn(s) /\ t.sendNo = s.sendNo + 1
        /\ t.recvNo = s.recvNo /\ t.previous = s.previous /\ t.skipped = s.skipped
        /\ Turn(s) >= 2 /\ s.sending = [of |-> Root(hello, Turn(s)), step |-> s.sendNo]
    <3>1. LET u == SentNext(s) IN
          /\ SideOk(hello, p, u) /\ Turn(u) = Turn(s) /\ u.sendNo = s.sendNo + 1
          /\ u.recvNo = s.recvNo /\ u.previous = s.previous /\ u.skipped = s.skipped
          /\ Turn(s) >= 2 /\ s.sending = [of |-> Root(hello, Turn(s)), step |-> s.sendNo]
      BY <2>1, <2>2, SentSide
    <3> QED BY <2>1, <3>1
  <2> QED BY <2>3
<1>8. MessagesOk(hello, p, M \cup {e})
  BY <1>1, <1>4, SentKeeps DEF e
<1>9. SenderOk(t, M \cup {e})
  BY <1>1, <1>4, <1>7, SentSender DEF e
<1>10. e \notin M /\ Age(e) = Turn(s) /\ e.no = s.sendNo /\ s.sendNo \in Nat /\ Turn(s) \in Nat
  <2>1. e = Encrypted(p, s, M)
    BY DEF e
  <2>2. s.sending # NoChain
    BY <1>1
  <2>3. MessagesOk(hello, p, M) /\ SideOk(hello, p, s) /\ SenderOk(s, M)
    BY <1>4
  <2>4. /\ e.nth = Cardinality(M) + 1 /\ e.no = s.sendNo /\ e.previous = s.previous
        /\ e.dh = KeyPair(Turn(s)) /\ e.key = [of |-> Root(hello, Turn(s)), step |-> s.sendNo]
        /\ Age(e) = Turn(s) /\ Turn(s) \in Nat /\ Turn(s) >= 2 /\ Owner(Turn(s)) = p
        /\ Cardinality(M) \in Nat /\ s.sendNo \in Nat /\ s.previous \in Nat
        /\ e \notin M
    BY <2>1, <2>2, <2>3, SentFields
  <2> QED BY <2>4
<1>11. CacheOk(By(o), opened[p], t)
  <2>1. CacheOk(By(o), opened[p], s)
    BY <1>1, <1>2 DEF SideInv, s
  <2> QED BY <1>7, <2>1 DEF CacheOk, Past
<1>12. \A q \in Sides : There(q)' <=> There(q)
  <2>1. t # NoSession
    BY <1>7, SideThere
  <2>2. There(p)'
    BY <2>1 DEF There, t
  <2>3. \A q \in Sides : q # p => (There(q)' <=> There(q))
    BY <1>3 DEF There
  <2> QED BY <1>1, <2>2, <2>3
<1>13. SideInv(p)'
  <2>1. There(p)'
    BY <1>1, <1>12
  <2> QED BY <1>1, <1>6, <1>7, <1>8, <1>9, <1>11, <2>1 DEF SideInv, t
<1>14. SideInv(o)'
  <2>1. session'[o] = session[o] /\ Other(o) = p /\ o \in Sides
    BY <1>3, Both
  <2>2. SideInv(o)
    BY <1>2, <2>1
  <2>3. CASE There(o)
    <3>1. CacheOk(M, opened[o], session[o])
      BY <2>1, <2>2, <2>3 DEF SideInv, M
    <3>2. InStep(session[o], s)
      BY <1>1, <2>3, BothInStep DEF s
    <3>3. ~Past(session[o], e)
      <4>1. Turn(session[o]) \in Nat /\ session[o].recvNo \in Nat
        <5>1. SideOk(hello, o, session[o])
          BY <2>2, <2>3 DEF SideInv
        <5> QED BY <5>1, SideNumbers
      <4> QED BY <1>10, <3>2, <4>1 DEF InStep, Past
    <3>4. CacheOk(M \cup {e}, opened[o], session[o])
      BY <1>8, <1>10, <3>1, <3>3, GrowKeeps
    <3>5. There(o)'
      BY <1>12, <2>1, <2>3
    <3> QED BY <1>1, <1>6, <2>1, <2>2, <2>3, <3>4, <3>5 DEF SideInv
  <2>4. CASE ~There(o)
    <3>1. ~There(o)'
      BY <1>12, <2>1, <2>4
    <3> QED BY <1>1, <1>6, <2>2, <2>4, <3>1 DEF SideInv
  <2> QED BY <2>3, <2>4
<1>15. \A q \in Sides : SideInv(q)'
  BY <1>13, <1>14, Both
<1>16. There("bob")' => \A q \in Sides : InStep(session'[q], session'[Other(q)])
  <2> SUFFICES ASSUME There("bob")' PROVE \A q \in Sides : InStep(session'[q], session'[Other(q)])
    OBVIOUS
  <2>1. There("bob") /\ There("alice")
    BY <1>2, <1>12, Both
  <2>2. There(o)
    BY <2>1, Both
  <2>3. InStep(s, session[o]) /\ InStep(session[o], s)
    BY <1>1, <2>2, BothInStep DEF s
  <2>4. session'[o] = session[o] /\ Other(o) = p
    BY <1>3, Both
  <2>5. InStep(t, session'[o]) /\ InStep(session'[o], t)
    <3>1. session[o].recvNo \in Nat
      <4>1. SideOk(hello, o, session[o])
        BY <1>2, <2>2, Both DEF SideInv
      <4> QED BY <4>1, SideNumbers
    <3> QED BY <1>7, <1>10, <2>3, <2>4, <3>1 DEF InStep
  <2> QED BY <2>4, <2>5, Both DEF t
<1>17. There("alice")' /\ ~There("bob")' => Turn(session'["alice"]) = 2 /\ session'["alice"].recvNo = 0
  <2> SUFFICES ASSUME There("alice")', ~There("bob")'
               PROVE  Turn(session'["alice"]) = 2 /\ session'["alice"].recvNo = 0
    OBVIOUS
  <2>1. There("alice") /\ ~There("bob")
    BY <1>12, Both
  <2>2. p = "alice"
    BY <1>1, <2>1, Both
  <2> QED BY <1>2, <1>7, <2>1, <2>2 DEF s, t
<1>18. \A m \in sent' : m.from \in Sides
  BY <1>1, <1>2, <1>5
<1> QED BY <1>1, <1>2, <1>3, <1>12, <1>15, <1>16, <1>17, <1>18, Both DEF RatchetInv

(* Neither side gets out of step by reading.                               *)
LEMMA ReadInStep ==
    ASSUME NEW s, NEW w, NEW m, NEW r, Turn(s) \in Nat, Turn(r) \in Nat, Age(m) \in Nat,
           m.no \in Nat, r.sendNo \in Nat, InStep(s, r), InStep(r, s), Went(s, w, m),
           Age(m) <= Turn(r), Age(m) = Turn(r) => m.no < r.sendNo
    PROVE  InStep(w, r) /\ InStep(r, w)
BY DEF InStep, Went

LEMMA DecryptKeeps ==
    ASSUME RatchetInv, NEW p \in Sides, NEW m \in sent, DecryptMessage(p, m)
    PROVE  RatchetInv'
<1> DEFINE s == session[p]
           o == Other(p)
           M == By(o)
           R == opened[p]
           w == session'[p]
           r == session[o]
<1>1. /\ There(p) /\ m \in M /\ Decrypts(p, m)
      /\ UNCHANGED <<bundle, hello, sent>>
      /\ session' = [session EXCEPT ![p] = AfterMessage(p, m)]
      /\ opened' = [opened EXCEPT ![p] = @ \cup {m}]
  BY DEF DecryptMessage, There
<1>2. /\ DOMAIN session = Sides /\ DOMAIN opened = Sides
      /\ \A x \in sent : x.from \in Sides
      /\ There("alice") <=> hello # NoHello
      /\ \A q \in Sides : SideInv(q)
  BY DEF RatchetInv
<1>3. /\ w = AfterMessage(p, m)
      /\ \A q \in Sides : q # p => session'[q] = session[q]
      /\ DOMAIN session' = Sides
  BY <1>1, <1>2
<1>4. /\ opened'[p] = R \cup {m}
      /\ \A q \in Sides : q # p => opened'[q] = opened[q]
      /\ DOMAIN opened' = Sides
  BY <1>1, <1>2
<1>5. o \in Sides /\ o # p /\ Other(o) = p
  BY Both
<1>6. There(o)
  BY <1>1, <1>2, <1>5 DEF SideInv
<1>7. There("alice") /\ There("bob") /\ InStep(s, r) /\ InStep(r, s)
  BY <1>1, <1>6, BothInStep
<1>8. /\ SideOk(hello, p, s) /\ SenderOk(s, By(p)) /\ CacheOk(M, R, s)
      /\ SideOk(hello, o, r) /\ SenderOk(r, M)
      /\ MessagesOk(hello, o, M) /\ MessagesOk(hello, p, By(p))
  BY <1>1, <1>2, <1>5, <1>6 DEF SideInv
<1>9. \A q \in Sides : By(q)' = By(q)
  BY <1>1 DEF By
<1> HIDE DEF M, R, r, w
<1>10. Turn(s) \in Nat \ {0} /\ s.sendNo \in Nat /\ s.recvNo \in Nat
  BY <1>8, SideNumbers
<1>11. Turn(r) \in Nat \ {0} /\ r.sendNo \in Nat
  BY <1>8, SideNumbers
<1>12. Age(m) \in Nat /\ m.no \in Nat
  <2>1. m \in M /\ MessagesOk(hello, o, M)
    BY <1>1, <1>8
  <2> QED BY <2>1, Fields
<1>13. Age(m) <= Turn(r) /\ (Age(m) = Turn(r) => m.no < r.sendNo)
  <2>1. m \in M /\ SenderOk(r, M)
    BY <1>1, <1>8
  <2> QED BY <2>1, SenderFields
<1>14. Age(m) <= Turn(s) + 1
  BY <1>7, <1>10, <1>11, <1>12, <1>13 DEF InStep
<1>15. SideOk(hello, p, w) /\ CacheOk(M, R \cup {m}, w) /\ Went(s, w, m)
  <2>1. /\ m \in M /\ MessagesOk(hello, o, M) /\ CacheOk(M, R, session[p])
        /\ SideOk(hello, p, session[p]) /\ Age(m) <= Turn(session[p]) + 1 /\ Decrypts(p, m)
    BY <1>1, <1>8, <1>14
  <2>2. o = Other(p)
    OBVIOUS
  <2>3. SideOk(hello, p, AfterMessage(p, m)) /\ CacheOk(M, R \cup {m}, AfterMessage(p, m))
        /\ Went(session[p], AfterMessage(p, m), m)
    <3> HIDE DEF o, s
    <3> QED BY <2>1, <2>2, MessageRead
  <2> QED BY <1>3, <2>3
<1> HIDE DEF s
<1>16. SenderOk(w, By(p))
  <2>1. CASE Turn(w) = Turn(s) /\ w.sendNo = s.sendNo /\ w.previous = s.previous
    BY <1>8, <2>1, SameSender
  <2>2. CASE Turn(w) = Turn(s) + 2 /\ w.sendNo = 0 /\ w.previous = s.sendNo
    <3>1. Turn(s) \in Nat /\ s.sendNo \in Nat /\ MessagesOk(hello, p, By(p)) /\ SenderOk(s, By(p))
      BY <1>8, <1>10
    <3> QED BY <2>2, <3>1, TurnedSender
  <2> QED BY <1>15, <2>1, <2>2 DEF Went
<1>17. There(p)' /\ There(o)'
  <2>1. w # NoSession
    BY <1>15, SideThere
  <2> QED BY <1>3, <1>5, <1>6, <2>1 DEF There, w
<1>18. SideInv(p)'
  BY <1>1, <1>4, <1>5, <1>8, <1>9, <1>15, <1>16, <1>17 DEF SideInv, w, M, R
<1>19. SideInv(o)'
  <2>1. session'[o] = session[o] /\ opened'[o] = opened[o] /\ By(o)' = By(o) /\ By(p)' = By(p)
    BY <1>3, <1>4, <1>5, <1>9
  <2>2. SideInv(o)
    BY <1>2, <1>5
  <2> QED BY <1>1, <1>5, <1>6, <1>17, <2>1, <2>2 DEF SideInv
<1>20. \A q \in Sides : SideInv(q)'
  BY <1>18, <1>19, Both
<1>21. InStep(w, r) /\ InStep(r, w)
  <2>1. Turn(s) \in Nat /\ Turn(r) \in Nat
    BY <1>10, <1>11
  <2> QED BY <1>7, <1>11, <1>12, <1>13, <1>15, <2>1, ReadInStep
<1>22. \A q \in Sides : InStep(session'[q], session'[Other(q)])
  <2>1. session'[o] = r
    BY <1>3, <1>5 DEF r
  <2> QED BY <1>5, <1>21, <2>1, Both DEF w
<1>23. There("alice")' /\ There("bob")'
  BY <1>17, Both
<1> QED BY <1>1, <1>2, <1>3, <1>4, <1>7, <1>20, <1>22, <1>23 DEF RatchetInv

(* What every proof below rests on: in every state the two sessions are    *)
(* the ones that their turns determine, each side's messages are numbered  *)
(* without a gap on each chain, and the receiver's cache holds exactly the *)
(* messages its chain has gone over and it has not read, but for those     *)
(* with more than MaxSkippedKeys later ones.                               *)
THEOREM RatchetInvariance == RatchetSpec => []RatchetInv
<1>1. RatchetInv /\ [RatchetNext]_ratchetVars => RatchetInv'
  <2> SUFFICES ASSUME RatchetInv, [RatchetNext]_ratchetVars PROVE RatchetInv'
    OBVIOUS
  <2>1. CASE Initiate
    BY <2>1, InitiateKeeps
  <2>2. CASE Respond
    BY <2>2, RespondKeeps
  <2>3. ASSUME NEW p \in Sides, EncryptMessage(p) PROVE RatchetInv'
    BY <2>3, EncryptKeeps
  <2>4. ASSUME NEW p \in Sides, NEW m \in sent, DecryptMessage(p, m) PROVE RatchetInv'
    BY <2>4, DecryptKeeps
  <2>5. CASE UNCHANGED ratchetVars
    <3>1. /\ session' = session /\ opened' = opened /\ sent' = sent /\ hello' = hello
      BY <2>5 DEF ratchetVars
    <3>2. \A p \in Sides : (There(p)' <=> There(p)) /\ By(p)' = By(p)
      BY <3>1 DEF There, By
    <3>3. \A p \in Sides : SideInv(p)'
      BY <3>1, <3>2, Both DEF SideInv, RatchetInv
    <3> QED BY <3>1, <3>2, <3>3, Both DEF RatchetInv
  <2> QED BY <2>1, <2>2, <2>3, <2>4, <2>5 DEF RatchetNext
<1> QED BY <1>1, RatchetStarts, PTL DEF RatchetSpec

(* A message that was read leaves neither its key in the cache nor a chain *)
(* from which it can be derived.                                           *)
THEOREM ForgottenOnceOpened == RatchetSpec => []OpenedIsForgotten
<1>1. RatchetInv => OpenedIsForgotten
  <2> SUFFICES ASSUME RatchetInv, NEW p \in Sides, NEW m \in opened[p]
               PROVE  LET s == session[p] IN
                      /\ \A j \in DOMAIN s.skipped : s.skipped[j].key # m.key
                      /\ s.receiving # NoChain => ~(s.receiving.of = m.key.of /\ s.receiving.step <= m.key.step)
    BY DEF OpenedIsForgotten
  <2> DEFINE s == session[p]
             M == By(Other(p))
             h == hello
  <2>1. SideInv(p) /\ SideInv(Other(p))
    BY Both DEF RatchetInv
  <2>2. There(p)
    BY <2>1 DEF SideInv
  <2>3. SideOk(h, p, s) /\ CacheOk(M, opened[p], s) /\ MessagesOk(h, Other(p), M)
    BY <2>1, <2>2 DEF SideInv
  <2> HIDE DEF s, M, h
  <2>4. m \in M /\ Past(s, m) /\ s.skipped \in Seq(Entries(M \ opened[p]))
    BY <2>3 DEF CacheOk
  <2>5. Age(m) \in Nat /\ m.no \in Nat /\ m.key = [of |-> Root(h, Age(m)), step |-> m.no]
    BY <2>3, <2>4, Fields
  <2>6. ASSUME NEW j \in DOMAIN s.skipped PROVE s.skipped[j].key # m.key
    <3>1. s.skipped[j] \in Entries(M \ opened[p])
      BY <2>4
    <3>2. PICK x \in M \ opened[p] : s.skipped[j] = Entry(x)
      BY <3>1 DEF Entries
    <3>3. s.skipped[j].key = x.key
      BY <3>2 DEF Entry
    <3>4. x.dh = KeyPair(Age(x)) /\ x.key = [of |-> Root(h, Age(x)), step |-> x.no]
      BY <2>3, Fields
    <3>5. m.dh = KeyPair(Age(m))
      BY <2>3, <2>4, Zenon DEF MessagesOk
    <3>6. x.dh = m.dh /\ x.no = m.no => x = m
      BY <2>3, <2>4, Distinct
    <3>7. x.key = m.key => Age(x) = Age(m)
      BY DEF Age
    <3>8. x.key = m.key => x.no = m.no
      BY <2>5, <3>4
    <3> QED BY <3>2, <3>3, <3>4, <3>5, <3>6, <3>7, <3>8
  <2>7. ASSUME s.receiving # NoChain, s.receiving.of = m.key.of, s.receiving.step <= m.key.step
        PROVE  FALSE
    <3>1. Turn(s) \in Nat /\ s.recvNo \in Nat
      BY <2>3, SideNumbers
    <3>2. s.receiving = (IF Turn(s) <= 2 THEN NoChain
                         ELSE [of |-> Root(h, Turn(s) - 1), step |-> s.recvNo])
      BY <2>3, SideFields
    <3>3. Turn(s) >= 3 /\ s.receiving.of = Root(h, Turn(s) - 1) /\ s.receiving.step = s.recvNo
      BY <2>7, <3>1, <3>2
    <3>4. Age(m) = Turn(s) - 1
      <4>1. Turn(s) - 1 \in Nat \ {0}
        BY <3>1, <3>3
      <4>2. Len(Root(h, Turn(s) - 1)) = Turn(s) - 1
        BY <4>1, Roots
      <4> QED BY <2>7, <3>3, <4>2 DEF Age
    <3>5. m.key.step = m.no
      BY <2>5
    <3> QED BY <2>4, <2>5, <2>7, <3>1, <3>3, <3>4, <3>5 DEF Past
  <2> QED BY <2>6, <2>7 DEF s
<1> QED BY <1>1, RatchetInvariance, PTL

(* Whatever was lost, repeated or came out of order, a message that was    *)
(* not read opens when it comes, if the sender has sent no more later ones *)
(* than the cache of skipped keys holds.                                   *)
THEOREM LateAlwaysOpens == RatchetSpec => []LateMessageOpens
<1>1. RatchetInv => LateMessageOpens
  <2> SUFFICES ASSUME RatchetInv, NEW p \in Sides, There(p), NEW m \in By(Other(p)),
                      m \notin opened[p], Cardinality(Later(m)) <= MaxSkippedKeys
               PROVE  Decrypts(p, m)
    BY DEF LateMessageOpens, There
  <2> DEFINE s == session[p]
             M == By(Other(p))
             h == hello
  <2>1. SideInv(p) /\ SideInv(Other(p)) /\ There(Other(p))
    BY Both DEF RatchetInv, SideInv
  <2>2. SideOk(h, p, s) /\ CacheOk(M, opened[p], s) /\ MessagesOk(h, Other(p), M)
        /\ SenderOk(session[Other(p)], M)
    BY <2>1 DEF SideInv
  <2>3. InStep(session[Other(p)], s) /\ InStep(s, session[Other(p)])
    BY <2>1, BothInStep
  <2>4. Later(m) = After(M, m)
    BY DEF Later, After, By
  <2> HIDE DEF s, M, h
  <2>5. m \in M
    BY DEF M
  <2>6. Cardinality(After(M, m)) = Cardinality(M) - m.nth /\ m.nth \in Nat /\ Cardinality(M) \in Nat
    <3>1. Cardinality(After(M, m)) = Cardinality(M) - m.nth
      BY <2>2, <2>5, Zenon DEF MessagesOk
    <3>2. m.nth \in Nat /\ Cardinality(M) \in Nat
      BY <2>2, <2>5, Fields
    <3> QED BY <3>1, <3>2
  <2>7. CASE Cached(s, m) # {}
    <3>1. PICK i \in Cached(s, m) : TRUE
      BY <2>7
    <3>2. Cached(s, m) = {k \in 1..Len(s.skipped) : s.skipped[k] = Entry(m)}
      BY <2>2, <2>5, CachedOnce
    <3>3. s.skipped[i].key = m.key
      BY <3>2 DEF Entry
    <3> QED BY <2>7, <3>3 DEF Decrypts, s
  <2>8. CASE Cached(s, m) = {} /\ Past(s, m)
    <3>1. Cached(s, m) = {k \in 1..Len(s.skipped) : s.skipped[k] = Entry(m)}
      BY <2>2, <2>5, CachedOnce
    <3>2. PICK n \in M : n.nth > m.nth + MaxSkippedKeys
      BY <2>2, <2>5, <2>8, <3>1 DEF CacheOk
    <3>3. n.nth \in Nat /\ n.nth <= Cardinality(M)
      BY <2>2, Fields
    <3>4. MaxSkippedKeys \in Nat
      BY RatchetAssumption
    <3> QED BY <2>4, <2>6, <3>2, <3>3, <3>4
  <2>9. CASE Cached(s, m) = {} /\ ~Past(s, m)
    <3> DEFINE v == CaughtUp(p, m)
    <3>1. Age(m) <= Turn(s) + 1
      <4>1. Age(m) <= Turn(session[Other(p)])
        BY <2>2, <2>5, SenderFields
      <4>2. Age(m) \in Nat
        BY <2>2, <2>5, Fields
      <4>3. Turn(s) \in Nat
        BY <2>2, SideNumbers
      <4>4. Turn(session[Other(p)]) \in Nat
        BY <2>1, SideNumbers DEF SideInv
      <4> QED BY <2>3, <4>1, <4>2, <4>3, <4>4 DEF InStep
    <3>2. ReadyFor(h, p, M, opened[p], v, m)
      <4>1. /\ MessagesOk(h, Other(p), M) /\ CacheOk(M, opened[p], session[p])
            /\ SideOk(h, p, session[p]) /\ m \in M /\ ~Past(session[p], m)
            /\ Age(m) <= Turn(session[p]) + 1
        BY <2>2, <2>5, <2>9, <3>1 DEF s
      <4> QED BY <4>1, CatchUp
    <3> HIDE DEF v
    <3>3. m.no = v.recvNo /\ v.receiving # NoChain /\ MessageKey(v.receiving) = m.key
      BY <2>2, <2>5, <3>2, ReadyOpens
    <3> QED BY <2>9, <3>3 DEF Decrypts, v, s
  <2> QED BY <2>7, <2>8, <2>9
<1> QED BY <1>1, RatchetInvariance, PTL

(***************************************************************************)
(* The wizard.  OnboardingSafety: what every tab shows and waits for fits  *)
(* what the server keeps (OnboardingInv), from which both safety           *)
(* properties follow.  A visit's keys are its own, so that a step of one   *)
(* visit leaves the parts of the others (OthersKeep).                      *)
(***************************************************************************)

PageFields == {"mode", "step", "email", "keys", "started", "ready", "keyError", "downloaded",
               "ticked", "status", "token", "verified", "shown", "tls", "trigger", "enabled", "mail"}
RequestFields == {"at", "got", "dom", "yes"}

(* Keys that w made, or another visit in which something went wrong.        *)
Made(e, w) == \E v \in Wizards : account[e].keys \in Own(v) /\ (v = w \/ mishaps[v] # {})

Idle(r) == r.at = "idle"
IsAnswered(r) == r.at = "answered"
IsGood(r) == r.at = "answered" /\ r.got = "ok"

(* What page p of a wizard is, and which requests c it waits for: each is   *)
(* of the step on show, but for certbot's and the switch's, which outlive   *)
(* theirs.                                                                  *)
PageOK(p) ==
    /\ DOMAIN p = PageFields /\ p.step \in 1..Inbox /\ p.enabled \in BOOLEAN
    /\ p.mode = "loading" => p = BlankPage
    /\ p.step # 9 => p.status = "idle"
    /\ p.step # Inbox => p.mail = "loading"

RequestsOK(p, c) ==
    /\ c = [op \in Ops |-> c[op]] /\ \A op \in Ops : DOMAIN c[op] = RequestFields
    /\ c["regRead"].yes \in BOOLEAN /\ c["regWrite"].yes \in BOOLEAN
    /\ p.mode = "loading" => \A op \in Ops : op # "status" => Idle(c[op])
    /\ ~Idle(c["domain"]) => p.step = 1
    /\ ~Idle(c["tlsStatus"]) \/ ~Idle(c["getDomain"]) => p.step = 5 /\ p.tls = "loading"
    /\ ~Idle(c["certbot"]) => p.step >= 5
    /\ ~Idle(c["create"]) => /\ p.step = 9 /\ p.status = "creating"
                             /\ Idle(c["login"]) /\ Idle(c["confirm"])
    /\ ~Idle(c["login"]) => p.step = 9 /\ p.status = "creating" /\ Idle(c["confirm"])
    /\ ~Idle(c["confirm"]) => p.step = 9 /\ p.status = "creating"
    /\ ~Idle(c["regRead"]) => p.step = 10 /\ Idle(c["regWrite"])
    /\ ~Idle(c["regWrite"]) => p.step >= 10
    /\ ~Idle(c["mail"]) => p.step = Inbox

(* Fresh keys are on their way only from step 7, and one pair at a time.    *)
KeysOK(w, p) ==
    /\ p.step < 8 => p.keys = NoBundle
    /\ p.ready # {} => p.step = 7 /\ p.started
    /\ p.keyError => p.ready = {} /\ p.started
    /\ p.ready \subseteq Own(w)
    /\ \A b, d \in p.ready : b = d
    /\ \A b \in p.ready, e \in Emails : account[e].keys # b
    /\ p.step \in 8..10 => p.keys \in Own(w)
    /\ p.step = 8 => \A e \in Emails : account[e].keys # p.keys
    /\ (p.step = 8 /\ p.downloaded) \/ p.step \in {9, 10} => p.keys \in files[w]
    /\ p.step \in 7..9 => p.email \in Emails
    /\ p.step = 9 => \A e \in Emails : account[e].keys = p.keys => e = p.email

(* Whose account a wizard has logged in to.                                 *)
TokenOK(w, p) ==
    /\ p.step < 9 => p.token = NoEmail
    /\ p.step = 9 => p.token \in {NoEmail, p.email}
    /\ p.step >= 10 => p.token # NoEmail
    /\ p.token # NoEmail => p.token \in Emails /\ Made(p.token, w)
    /\ p.token # NoEmail /\ p.step \in {9, 10} => account[p.token].keys = p.keys

Created(p, c) == \/ IsGood(c["create"]) \/ ~Idle(c["login"]) \/ ~Idle(c["confirm"])
                 \/ p.status \in {"unlocking", "locked"}

CreateOK(p, c) ==
    /\ p.step = 9 /\ (IsGood(c["create"]) \/ ~Idle(c["login"]))
          => account[p.email].keys = p.keys
    /\ ~Idle(c["confirm"]) \/ p.status \in {"unlocking", "locked"} => p.token = p.email

(* All went well: the account is made in this visit, and confirmed before   *)
(* the wizard is left.                                                      *)
LuckyOK(w, p, c) == mishaps[w] = {} =>
    /\ IsAnswered(c["login"]) => c["login"].got = "ok"
    /\ IsAnswered(c["confirm"]) => c["confirm"].got = "ok"
    /\ IsAnswered(c["confirm"]) \/ p.status \in {"unlocking", "locked"} \/ p.step \in {10, Inbox}
          => (account[p.token].keys \in Own(w) => account[p.token].confirmed)
    /\ \A e \in Emails : account[e].keys \in Own(w) /\ p.step <= 9 =>
          p.step = 9 /\ account[e].keys = p.keys /\ Created(p, c)
    /\ IsAnswered(c["mail"]) /\ account[p.token].keys \in Own(w) => c["mail"].got # "refused"
    /\ p.step = Inbox /\ account[p.token].keys \in Own(w) => p.mail # "refused"

(* What a wizard knows of the domain, if nobody has configured another.     *)
DomainOK(w, p, c) == setter = {w} =>
    /\ IsAnswered(c["tlsStatus"]) => c["tlsStatus"].dom \in {domain, NoDomain}
    /\ IsAnswered(c["getDomain"]) => c["getDomain"].dom \in {domain, NoDomain}
    /\ c["certbot"].at = "running" => c["certbot"].dom = domain
    /\ p.step = 5 => p.shown \in {domain, NoDomain}
    /\ \/ IsGood(c["tlsStatus"]) /\ c["tlsStatus"].yes
       \/ IsGood(c["certbot"]) /\ c["certbot"].yes
       \/ p.step = 5 /\ (p.tls = "cert" \/ p.trigger = "success")
       => domain \in certs

(* What the administrator's wizard knows of the switch.                     *)
SwitchOK(w, p, c) ==
    /\ p.step = 9 => \A e \in Emails :
          account[e].admin /\ Sole(e) /\ account[e].keys = p.keys => open
    /\ ~Idle(c["regWrite"]) => account[p.token].keys \in Own(w)
    /\ p.step = 10 /\ account[p.token].admin /\ Sole(p.token) /\ "lost" \notin mishaps[w] =>
          /\ ~Idle(c["regRead"]) => open /\ p.enabled
          /\ IsGood(c["regRead"]) => c["regRead"].yes
          /\ Idle(c["regRead"]) /\ Idle(c["regWrite"]) => p.enabled = open
          /\ ~Idle(c["regWrite"]) => (c["regWrite"].yes = open <=> IsGood(c["regWrite"]))

(* The accounts: made by some wizard, confirmed only with a backup; and     *)
(* only an administrator can close the registration.                        *)
AccountsOK ==
    /\ DOMAIN account = Emails
    /\ \A e \in Emails : /\ DOMAIN account[e] = {"keys", "confirmed", "admin"}
                         /\ account[e].keys # NoBundle => \E w \in Wizards : account[e].keys \in Own(w)
                         /\ account[e].confirmed => \E w \in Wizards : account[e].keys \in files[w]
                         /\ account[e].admin => account[e].keys # NoBundle
    /\ open \in BOOLEAN
    /\ (\A e \in Emails : ~account[e].admin) => open

HistoryOK ==
    /\ page = [w \in Wizards |-> page[w]] /\ call = [w \in Wizards |-> call[w]]
    /\ gens \in [Wizards -> Nat]
    /\ DOMAIN files = Wizards /\ \A w \in Wizards : files[w] \subseteq Own(w)
    /\ DOMAIN mishaps = Wizards

WizardOK(w, p, c) ==
    /\ PageOK(p) /\ RequestsOK(p, c) /\ KeysOK(w, p) /\ TokenOK(w, p) /\ CreateOK(p, c)
    /\ LuckyOK(w, p, c) /\ DomainOK(w, p, c) /\ SwitchOK(w, p, c)

OnboardingInv == AccountsOK /\ HistoryOK /\ \A w \in Wizards : WizardOK(w, page[w], call[w])

(* The wizard begins.                                                       *)
LEMMA BlankOK == /\ DOMAIN BlankPage = PageFields
                 /\ BlankPage.step = 1 /\ BlankPage.mode = "loading" /\ BlankPage.keys = NoBundle
                 /\ BlankPage.email = NoEmail /\ BlankPage.token = NoEmail /\ BlankPage.ready = {}
                 /\ BlankPage.started = FALSE /\ BlankPage.keyError = FALSE
                 /\ BlankPage.downloaded = FALSE /\ BlankPage.status = "idle"
                 /\ BlankPage.shown = NoDomain /\ BlankPage.tls = "loading"
                 /\ BlankPage.trigger = "idle" /\ BlankPage.enabled = TRUE
                 /\ BlankPage.mail = "loading"
BY DEF BlankPage, PageFields

NewPage(p, s) == [Kept(p, s) EXCEPT !.step = s]

(* A page that is mounted keeps what the wizard keeps.                      *)
IsNew(n, p, s) ==
    /\ DOMAIN n = PageFields /\ n.step = s /\ n.mode = p.mode /\ n.token = p.token
    /\ s # Inbox => n.keys = p.keys /\ n.email = p.email /\ n.ready = p.ready
    /\ s = Inbox => n.keys = NoBundle /\ n.ready = {}
    /\ n.started = FALSE /\ n.keyError = FALSE /\ n.downloaded = FALSE /\ n.status = "idle"
    /\ n.shown = NoDomain /\ n.tls = "loading" /\ n.trigger = "idle" /\ n.enabled = TRUE
    /\ n.mail = "loading"

LEMMA NewPageIs ==
    ASSUME NEW p, DOMAIN p = PageFields, NEW s
    PROVE  IsNew(NewPage(p, s), p, s)
<1>1. /\ DOMAIN Kept(p, s) = PageFields /\ Kept(p, s).mode = p.mode
      /\ Kept(p, s).token = p.token
      /\ s # Inbox => Kept(p, s).keys = p.keys /\ Kept(p, s).email = p.email
                      /\ Kept(p, s).ready = p.ready
      /\ s = Inbox => Kept(p, s).keys = NoBundle /\ Kept(p, s).ready = {}
      /\ Kept(p, s).started = FALSE /\ Kept(p, s).keyError = FALSE
      /\ Kept(p, s).downloaded = FALSE /\ Kept(p, s).status = "idle"
      /\ Kept(p, s).shown = NoDomain /\ Kept(p, s).tls = "loading"
      /\ Kept(p, s).trigger = "idle" /\ Kept(p, s).enabled = TRUE
      /\ Kept(p, s).mail = "loading"
  <2>1. CASE s = Inbox
    BY <2>1, BlankOK DEF Kept, PageFields
  <2>2. CASE s # Inbox
    BY <2>2, BlankOK DEF Kept, PageFields
  <2> QED BY <2>1, <2>2
<1> HIDE DEF Kept
<1> QED BY <1>1 DEF IsNew, NewPage, PageFields

NewRequests(c, s, done) ==
    [op \in Ops |-> IF op \in Mounts(s) THEN Sent ELSE IF op \in done THEN NoCall ELSE c[op]]

LEMMA SentIs == /\ DOMAIN Sent = RequestFields /\ Sent.at = "sent" /\ Sent.got = "none"
                /\ Sent.dom = NoDomain /\ Sent.yes = FALSE
                /\ DOMAIN NoCall = RequestFields /\ NoCall.at = "idle" /\ NoCall.got = "none"
                /\ NoCall.dom = NoDomain /\ NoCall.yes = FALSE
BY DEF Sent, NoCall, RequestFields

LEMMA MountsIs == /\ Mounts(2) = {"records"} /\ Mounts(3) = {"dns"}
                  /\ Mounts(5) = {"tlsStatus", "getDomain"} /\ Mounts(10) = {"regRead"}
                  /\ Mounts(Inbox) = {"mail"}
                  /\ \A s \in {1, 4, 6, 7, 8, 9} : Mounts(s) = {}
BY DEF Mounts, Inbox

LEMMA NewRequestsAre ==
    ASSUME NEW q, NEW c, RequestsOK(q, c), NEW s, NEW done, NEW op \in Ops
    PROVE  /\ NewRequests(c, s, done) = [o \in Ops |-> NewRequests(c, s, done)[o]]
           /\ DOMAIN NewRequests(c, s, done)[op] = RequestFields
           /\ NewRequests(c, s, done)[op] = IF op \in Mounts(s) THEN Sent
                                           ELSE IF op \in done THEN NoCall ELSE c[op]
BY SentIs DEF NewRequests, RequestsOK

LEMMA OpsAre == Ops = {"status", "domain", "records", "dns", "tlsStatus", "getDomain", "certbot",
                       "create", "login", "confirm", "regRead", "regWrite", "mail"}
BY DEF Ops

(* What speaks of accounts, certificates or the switch.                     *)
AccountView(p, c) ==
    <<p.step, p.email, p.keys, p.started, p.ready, p.keyError, p.downloaded, p.status, p.token,
      p.mail, c["create"], c["login"], c["confirm"], c["mail"]>>
DomainView(p, c) ==
    <<p.step, p.shown, p.tls, p.trigger, c["tlsStatus"], c["getDomain"], c["certbot"]>>
SwitchView(p, c) == <<p.step, p.keys, p.token, p.enabled, c["regRead"], c["regWrite"]>>

LEMMA SameAccount ==
    ASSUME NEW w, NEW q, NEW c, WizardOK(w, q, c), NEW p, NEW d,
           AccountView(p, d) = AccountView(q, c)
    PROVE  KeysOK(w, p) /\ TokenOK(w, p) /\ CreateOK(p, d) /\ LuckyOK(w, p, d)
<1>1. /\ p.step = q.step /\ p.email = q.email /\ p.keys = q.keys
      /\ p.started = q.started /\ p.ready = q.ready /\ p.keyError = q.keyError
      /\ p.downloaded = q.downloaded /\ p.status = q.status /\ p.token = q.token
      /\ p.mail = q.mail /\ d["create"] = c["create"] /\ d["login"] = c["login"]
      /\ d["confirm"] = c["confirm"] /\ d["mail"] = c["mail"]
  BY DEF AccountView
<1>2. KeysOK(w, p) /\ TokenOK(w, p) /\ CreateOK(p, d)
  BY <1>1 DEF WizardOK, KeysOK, TokenOK, CreateOK
<1>3. Created(p, d) <=> Created(q, c)
  BY <1>1 DEF Created
<1>4. LuckyOK(w, p, d)
  BY <1>1, <1>3 DEF WizardOK, LuckyOK
<1> QED BY <1>2, <1>4

LEMMA SameDomain ==
    ASSUME NEW w, NEW q, NEW c, WizardOK(w, q, c), NEW p, NEW d,
           DomainView(p, d) = DomainView(q, c)
    PROVE  DomainOK(w, p, d)
<1>1. /\ p.step = q.step /\ p.shown = q.shown /\ p.tls = q.tls /\ p.trigger = q.trigger
      /\ d["tlsStatus"] = c["tlsStatus"] /\ d["getDomain"] = c["getDomain"]
      /\ d["certbot"] = c["certbot"]
  BY DEF DomainView
<1> QED BY <1>1 DEF WizardOK, DomainOK

LEMMA SameSwitch ==
    ASSUME NEW w, NEW q, NEW c, WizardOK(w, q, c), NEW p, NEW d,
           SwitchView(p, d) = SwitchView(q, c)
    PROVE  SwitchOK(w, p, d)
<1>1. /\ p.step = q.step /\ p.keys = q.keys /\ p.token = q.token /\ p.enabled = q.enabled
      /\ d["regRead"] = c["regRead"] /\ d["regWrite"] = c["regWrite"]
  BY DEF SwitchView
<1> QED BY <1>1 DEF WizardOK, SwitchOK

(* A step from one page before the account to another.                      *)
LEMMA EarlyStep ==
    ASSUME NEW w, NEW q, NEW c, WizardOK(w, q, c), q.step < 8, q.ready = {},
           NEW p, NEW s \in 1..7, NEW done \in SUBSET {"status", "domain"},
           DOMAIN p = PageFields, p.mode # "loading", p.keys = q.keys, p.ready = q.ready,
           p.token = q.token, s = 7 => p.email \in Emails,
           s >= 5 \/ Idle(c["certbot"]), "domain" \in done \/ Idle(c["domain"]),
           Idle(c["tlsStatus"]), Idle(c["getDomain"])
    PROVE  WizardOK(w, NewPage(p, s), NewRequests(c, s, done))
<1> DEFINE n == NewPage(p, s)
           d == NewRequests(c, s, done)
<1>0. PageOK(q) /\ RequestsOK(q, c)
  BY DEF WizardOK
<1>1. IsNew(n, p, s) /\ s # Inbox
  BY NewPageIs DEF Inbox
<1>2. \A op \in Ops : /\ d = [o \in Ops |-> d[o]] /\ DOMAIN d[op] = RequestFields
                      /\ d[op] = IF op \in Mounts(s) THEN Sent ELSE IF op \in done THEN NoCall ELSE c[op]
  BY <1>0, NewRequestsAre
<1> HIDE DEF n, d
<1>3. \A op \in {"create", "login", "confirm", "regRead", "regWrite", "mail"} :
         op \notin Mounts(s) /\ op \notin done /\ Idle(c[op])
  <2>1. s \in {1, 2, 3, 4, 5, 6, 7}
    OBVIOUS
  <2> QED BY <1>0, <2>1, MountsIs DEF RequestsOK, PageOK, Inbox
<1>4. "domain" \notin Mounts(s) /\ "certbot" \notin Mounts(s) /\ "certbot" \notin done
      /\ "tlsStatus" \notin done /\ "getDomain" \notin done
      /\ (s # 5 => "tlsStatus" \notin Mounts(s) /\ "getDomain" \notin Mounts(s))
  <2>1. s \in {1, 2, 3, 4, 5, 6, 7}
    OBVIOUS
  <2> QED BY <2>1, MountsIs
<1>5. /\ \A op \in {"create", "login", "confirm", "regRead", "regWrite", "mail"} : d[op] = c[op] /\ Idle(d[op])
      /\ d["certbot"] = c["certbot"] /\ Idle(d["domain"])
      /\ d["tlsStatus"] \in {Sent, c["tlsStatus"]} /\ d["getDomain"] \in {Sent, c["getDomain"]}
      /\ (s # 5 => Idle(d["tlsStatus"]) /\ Idle(d["getDomain"]))
  BY <1>2, <1>3, <1>4, SentIs, OpsAre DEF Idle
<1>6. PageOK(n)
  <2>1. n.enabled \in BOOLEAN
    BY <1>1 DEF IsNew
  <2> QED BY <1>1, <2>1 DEF IsNew, PageOK, Inbox
<1>7. RequestsOK(n, d)
  BY <1>0, <1>1, <1>2, <1>5, SentIs, OpsAre DEF IsNew, RequestsOK, PageOK, Inbox
<1>8. KeysOK(w, n) /\ TokenOK(w, n)
  BY <1>0, <1>1 DEF IsNew, WizardOK, KeysOK, TokenOK, PageOK, Inbox
<1>9. CreateOK(n, d)
  BY <1>1, <1>5 DEF IsNew, CreateOK, Idle, IsGood
<1>10. LuckyOK(w, n, d)
  <2>1. \A e \in Emails : mishaps[w] = {} => account[e].keys \notin Own(w)
    BY <1>0 DEF WizardOK, LuckyOK, PageOK, Inbox
  <2> QED BY <1>1, <1>5, <2>1 DEF IsNew, LuckyOK, Idle, IsAnswered, Inbox
<1>11. DomainOK(w, n, d)
  BY <1>1, <1>5, SentIs DEF IsNew, WizardOK, DomainOK, Idle, IsAnswered, IsGood
<1>12. SwitchOK(w, n, d)
  BY <1>1, <1>5 DEF IsNew, SwitchOK
<1> QED BY <1>6, <1>7, <1>8, <1>9, <1>10, <1>11, <1>12 DEF WizardOK, n, d

-----------------------------------------------------------------------------
(* A step of one wizard that changes nothing else.                          *)
LEMMA OneWizard ==
    ASSUME OnboardingInv, UNCHANGED <<install, user, mishaps>>, NEW w \in Wizards, NEW p, NEW d,
           page' = [page EXCEPT ![w] = p], call' = [call EXCEPT ![w] = d], WizardOK(w, p, d)
    PROVE  OnboardingInv'
<1>1. \A u, x, y : WizardOK(u, x, y)' <=> WizardOK(u, x, y)
  BY DEF install, user, WizardOK, PageOK, RequestsOK, KeysOK, Own, Made, TokenOK, CreateOK,
         LuckyOK, Created, DomainOK, Sole, SwitchOK
<1>2. AccountsOK' <=> AccountsOK
  BY DEF install, user, AccountsOK, Own
<1>3. HistoryOK'
  BY DEF install, user, HistoryOK, Own, OnboardingInv
<1>4. ASSUME NEW u \in Wizards PROVE WizardOK(u, page'[u], call'[u])
  BY DEF OnboardingInv, HistoryOK
<1>5. ASSUME NEW u \in Wizards PROVE WizardOK(u, page[u], call[u])'
  BY <1>1, <1>4
<1> QED BY <1>2, <1>3, <1>5 DEF OnboardingInv

(* One request moves on.                                                    *)
LEMMA OneRequest ==
    ASSUME OnboardingInv, NEW w \in Wizards
    PROVE  /\ page = [page EXCEPT ![w] = page[w]]
           /\ call = [call EXCEPT ![w] = call[w]]
           /\ \A op \in Ops : \A r :
                 [call EXCEPT ![w][op] = r] = [call EXCEPT ![w] = [call[w] EXCEPT ![op] = r]]
BY DEF OnboardingInv, HistoryOK

LEMMA RequestMoved ==
    ASSUME NEW q, NEW c, RequestsOK(q, c), NEW op \in Ops, ~Idle(c[op]), NEW r,
           DOMAIN r = RequestFields, ~Idle(r),
           op \in {"regRead", "regWrite"} => r.yes \in BOOLEAN
    PROVE  RequestsOK(q, [c EXCEPT ![op] = r])
<1> DEFINE d == [c EXCEPT ![op] = r]
<1>1. d = [o \in Ops |-> d[o]]
  BY DEF RequestsOK
<1>2. \A o \in Ops : d[o] = IF o = op THEN r ELSE c[o]
  BY DEF RequestsOK
<1> HIDE DEF d
<1>3. \A o \in Ops : Idle(d[o]) <=> Idle(c[o])
  BY <1>2
<1>4. \A o \in Ops : DOMAIN d[o] = RequestFields
  BY <1>2 DEF RequestsOK
<1>5. d["regRead"].yes \in BOOLEAN /\ d["regWrite"].yes \in BOOLEAN
  BY <1>2, OpsAre DEF RequestsOK
<1>6. RequestsOK(q, d)
  BY <1>1, <1>3, <1>4, <1>5, OpsAre DEF RequestsOK
<1> QED BY <1>6 DEF d

LEMMA RequestStep ==
    ASSUME OnboardingInv, UNCHANGED <<install, page, user, mishaps>>, NEW w \in Wizards,
           NEW op \in Ops, ~Idle(call[w][op]), NEW r, DOMAIN r = RequestFields, ~Idle(r),
           op \in {"regRead", "regWrite"} => r.yes \in BOOLEAN,
           call' = [call EXCEPT ![w][op] = r],
           op \in {"create", "login", "confirm", "mail"} =>
               /\ CreateOK(page[w], [call[w] EXCEPT ![op] = r])
               /\ LuckyOK(w, page[w], [call[w] EXCEPT ![op] = r]),
           op \in {"tlsStatus", "getDomain", "certbot"} =>
               DomainOK(w, page[w], [call[w] EXCEPT ![op] = r]),
           op \in {"regRead", "regWrite"} => SwitchOK(w, page[w], [call[w] EXCEPT ![op] = r])
    PROVE  OnboardingInv'
<1> DEFINE p == page[w]
           d == [call[w] EXCEPT ![op] = r]
<1>0. WizardOK(w, p, call[w]) /\ PageOK(p) /\ RequestsOK(p, call[w])
  BY DEF OnboardingInv, WizardOK
<1>1. RequestsOK(p, d)
  BY <1>0, RequestMoved
<1>2. \A o \in Ops : o # op => d[o] = call[w][o]
  BY <1>0 DEF RequestsOK
<1> HIDE DEF p, d
<1>3. KeysOK(w, p) /\ TokenOK(w, p)
  BY <1>0 DEF WizardOK
<1>4. CreateOK(p, d) /\ LuckyOK(w, p, d)
  <2>1. CASE op \in {"create", "login", "confirm", "mail"}
    BY <2>1 DEF p, d
  <2>2. CASE op \notin {"create", "login", "confirm", "mail"}
    <3>1. AccountView(p, d) = AccountView(p, call[w])
      BY <2>2, <1>2, OpsAre DEF AccountView
    <3> QED BY <3>1, <1>0, SameAccount
  <2> QED BY <2>1, <2>2
<1>5. DomainOK(w, p, d)
  <2>1. CASE op \in {"tlsStatus", "getDomain", "certbot"}
    BY <2>1 DEF p, d
  <2>2. CASE op \notin {"tlsStatus", "getDomain", "certbot"}
    <3>1. DomainView(p, d) = DomainView(p, call[w])
      BY <2>2, <1>2, OpsAre DEF DomainView
    <3> QED BY <3>1, <1>0, SameDomain
  <2> QED BY <2>1, <2>2
<1>6. SwitchOK(w, p, d)
  <2>1. CASE op \in {"regRead", "regWrite"}
    BY <2>1 DEF p, d
  <2>2. CASE op \notin {"regRead", "regWrite"}
    <3>1. SwitchView(p, d) = SwitchView(p, call[w])
      BY <2>2, <1>2, OpsAre DEF SwitchView
    <3> QED BY <3>1, <1>0, SameSwitch
  <2> QED BY <2>1, <2>2
<1>7. WizardOK(w, p, d)
  BY <1>0, <1>1, <1>3, <1>4, <1>5, <1>6 DEF WizardOK
<1>8. page' = [page EXCEPT ![w] = p] /\ call' = [call EXCEPT ![w] = d]
  BY OneRequest DEF p, d
<1>9. UNCHANGED <<install, user, mishaps>>
  OBVIOUS
<1> QED BY <1>7, <1>8, <1>9, OneWizard

(* A request that a guard lets pass, and one that is answered.              *)
LEMMA Requests ==
    ASSUME OnboardingInv, NEW w \in Wizards, NEW op \in Ops
    PROVE  /\ call = [u \in Wizards |-> call[u]] /\ call[w] = [o \in Ops |-> call[w][o]]
           /\ DOMAIN call[w][op] = RequestFields
BY DEF OnboardingInv, HistoryOK, WizardOK, RequestsOK

LEMMA Passes ==
    ASSUME OnboardingInv, NEW w \in Wizards, NEW op \in Ops, NEW dom, Pass(w, op, dom)
    PROVE  \E r : /\ call' = [call EXCEPT ![w][op] = r]
                  /\ DOMAIN r = RequestFields /\ r.at = "passed" /\ r.dom = dom
                  /\ r.got = call[w][op].got /\ r.yes = call[w][op].yes
<1> DEFINE r == [call[w][op] EXCEPT !.at = "passed", !.dom = dom]
<1>1. call' = [call EXCEPT ![w][op] = r]
  BY Requests, Zenon DEF Pass
<1>2. /\ DOMAIN r = RequestFields /\ r.at = "passed" /\ r.dom = dom
      /\ r.got = call[w][op].got /\ r.yes = call[w][op].yes
  BY Requests DEF RequestFields
<1> HIDE DEF r
<1> QED BY <1>1, <1>2

Response(got, dom, yes) == [at |-> "answered", got |-> got, dom |-> dom, yes |-> yes]

-----------------------------------------------------------------------------
(* The routes that change nothing but the request.                          *)
LEMMA ServeOtherKeeps ==
    ASSUME OnboardingInv, NEW w \in Wizards,
           \/ ServeStatus(w) \/ GuardSetup(w, "domain") \/ ServeRecords(w)
           \/ ReadDnsDomain(w) \/ CheckDns(w)
    PROVE  OnboardingInv'
<1>0. UNCHANGED <<install, page, user, mishaps>>
  BY DEF ServeStatus, GuardSetup, ServeRecords, ReadDnsDomain, CheckDns
<1>1. PICK op : /\ op \in {"status", "domain", "records", "dns"} /\ ~Idle(call[w][op])
                /\ \/ \E got, dom, yes : Reply(w, op, got, dom, yes)
                   \/ \E dom : Pass(w, op, dom)
  BY DEF ServeStatus, GuardSetup, ServeRecords, ReadDnsDomain, CheckDns, Idle
<1>2. PICK r : DOMAIN r = RequestFields /\ ~Idle(r) /\ call' = [call EXCEPT ![w][op] = r]
  <2>1. ASSUME NEW got, NEW dom, NEW yes, Reply(w, op, got, dom, yes)
        PROVE  \E r : DOMAIN r = RequestFields /\ ~Idle(r) /\ call' = [call EXCEPT ![w][op] = r]
    <3>1. PICK r : r = Response(got, dom, yes) /\ call' = [call EXCEPT ![w][op] = r]
      BY <2>1 DEF Reply, Response
    <3> QED BY <3>1 DEF Response, RequestFields, Idle
  <2>2. ASSUME NEW dom, Pass(w, op, dom)
        PROVE  \E r : DOMAIN r = RequestFields /\ ~Idle(r) /\ call' = [call EXCEPT ![w][op] = r]
    BY <1>1, <2>2, Passes, OpsAre DEF Idle
  <2> QED BY <1>1, <2>1, <2>2
<1> QED BY <1>0, <1>1, <1>2, RequestStep, OpsAre

(* How a request looks on the page that waits for it.                       *)
LEMMA Replaced ==
    ASSUME OnboardingInv, NEW w \in Wizards, NEW op \in Ops, NEW r
    PROVE  /\ [call[w] EXCEPT ![op] = r][op] = r
           /\ \A o \in Ops \ {op} : [call[w] EXCEPT ![op] = r][o] = call[w][o]
BY DEF OnboardingInv, WizardOK, RequestsOK

LEMMA CertificateRequest ==
    ASSUME OnboardingInv, UNCHANGED <<install, page, user, mishaps>>, NEW w \in Wizards,
           NEW op \in {"tlsStatus", "getDomain", "certbot"}, ~Idle(call[w][op]),
           NEW r, DOMAIN r = RequestFields, ~Idle(r), call' = [call EXCEPT ![w][op] = r],
           op # "certbot" => r.dom = domain,
           op = "tlsStatus" => (r.yes => domain \in certs),
           op = "certbot" => ~IsGood(r) /\ (r.at = "running" => r.dom = domain)
    PROVE  OnboardingInv'
<1>1. DomainOK(w, page[w], [call[w] EXCEPT ![op] = r])
  <2>1. op \in Ops /\ DomainOK(w, page[w], call[w])
    BY OpsAre DEF OnboardingInv, WizardOK
  <2>2. /\ [call[w] EXCEPT ![op] = r][op] = r
        /\ \A o \in Ops \ {op} : [call[w] EXCEPT ![op] = r][o] = call[w][o]
    BY <2>1, Replaced
  <2> DEFINE d == [call[w] EXCEPT ![op] = r]
  <2> HIDE DEF d
  <2>3. d[op] = r /\ \A o \in Ops \ {op} : d[o] = call[w][o]
    BY <2>2 DEF d
  <2>4. DomainOK(w, page[w], d)
    BY <2>1, <2>3, OpsAre DEF DomainOK, IsAnswered, IsGood
  <2> QED BY <2>4 DEF d
<1>2. op \in Ops
  BY OpsAre
<1>3. UNCHANGED <<install, page, user, mishaps>>
  OBVIOUS
<1> QED BY <1>1, <1>2, <1>3, RequestStep


LEMMA ServeCertificateKeeps ==
    ASSUME OnboardingInv, NEW w \in Wizards,
           \/ ServeTlsStatus(w) \/ ServeDomain(w) \/ GuardSetup(w, "certbot") \/ RunCertbot(w)
    PROVE  OnboardingInv'
<1>0. UNCHANGED <<install, page, user, mishaps>>
  BY DEF ServeTlsStatus, ServeDomain, GuardSetup, RunCertbot
<1>1. CASE ServeTlsStatus(w)
  <2>1. PICK r : /\ r = Response("ok", domain, domain \in certs)
                 /\ call' = [call EXCEPT ![w]["tlsStatus"] = r]
    BY <1>1 DEF ServeTlsStatus, HasCertificate, Reply, Response
  <2>2. DOMAIN r = RequestFields /\ ~Idle(r) /\ r.dom = domain /\ (r.yes => domain \in certs)
    BY <2>1 DEF Response, RequestFields, Idle
  <2>3. ~Idle(call[w]["tlsStatus"])
    BY <1>1 DEF ServeTlsStatus, Idle
  <2> QED BY <1>0, <2>1, <2>2, <2>3, CertificateRequest
<1>2. CASE ServeDomain(w)
  <2>1. PICK r : r = Response("ok", domain, TRUE) /\ call' = [call EXCEPT ![w]["getDomain"] = r]
    BY <1>2 DEF ServeDomain, Reply, Response
  <2>2. DOMAIN r = RequestFields /\ ~Idle(r) /\ r.dom = domain
    BY <2>1 DEF Response, RequestFields, Idle
  <2>3. ~Idle(call[w]["getDomain"])
    BY <1>2 DEF ServeDomain, Idle
  <2> QED BY <1>0, <2>1, <2>2, <2>3, CertificateRequest
<1>3. ASSUME ~Idle(call[w]["certbot"]), Reply(w, "certbot", "refused", NoDomain, FALSE)
      PROVE  OnboardingInv'
  <2>1. PICK r : r = Response("refused", NoDomain, FALSE) /\ call' = [call EXCEPT ![w]["certbot"] = r]
    BY <1>3 DEF Reply, Response
  <2>2. DOMAIN r = RequestFields /\ ~Idle(r) /\ ~IsGood(r) /\ r.at # "running"
    BY <2>1 DEF Response, RequestFields, Idle, IsGood
  <2> QED BY <1>0, <1>3, <2>1, <2>2, CertificateRequest
<1>4. CASE GuardSetup(w, "certbot")
  <2>1. ~Idle(call[w]["certbot"])
    BY <1>4 DEF GuardSetup, Idle
  <2>2. CASE HasUsers
    BY <1>3, <1>4, <2>1, <2>2 DEF GuardSetup
  <2>3. CASE ~HasUsers
    <3>1. PICK r : /\ call' = [call EXCEPT ![w]["certbot"] = r]
                   /\ DOMAIN r = RequestFields /\ r.at = "passed"
      BY <1>4, <2>3, Passes, OpsAre DEF GuardSetup
    <3>2. ~Idle(r) /\ ~IsGood(r) /\ r.at # "running"
      BY <3>1 DEF Idle, IsGood
    <3> QED BY <1>0, <2>1, <3>1, <3>2, CertificateRequest
  <2> QED BY <2>2, <2>3
<1>5. CASE RunCertbot(w)
  <2>1. ~Idle(call[w]["certbot"])
    BY <1>5 DEF RunCertbot, Idle
  <2>2. CASE ~Configured
    BY <1>3, <1>5, <2>1, <2>2 DEF RunCertbot
  <2>3. CASE Configured
    <3> DEFINE r == [call[w]["certbot"] EXCEPT !.at = "running", !.dom = domain]
    <3>0. "certbot" \in Ops
      BY OpsAre
    <3>1. call' = [call EXCEPT ![w]["certbot"] = r]
      BY <1>5, <2>3, <3>0, Requests, Zenon DEF RunCertbot
    <3>2. DOMAIN r = RequestFields /\ r.at = "running" /\ r.dom = domain
      BY <3>0, Requests DEF RequestFields
    <3> HIDE DEF r
    <3>3. ~Idle(r) /\ ~IsGood(r)
      BY <3>2 DEF Idle, IsGood
    <3> QED BY <1>0, <2>1, <3>1, <3>2, <3>3, CertificateRequest
  <2> QED BY <2>2, <2>3
<1> QED BY <1>1, <1>2, <1>4, <1>5

(* A request of the account, before the server has changed anything.        *)
LEMMA AccountRequest ==
    ASSUME OnboardingInv, UNCHANGED <<install, page, user, mishaps>>, NEW w \in Wizards,
           NEW op \in {"create", "login", "mail"}, ~Idle(call[w][op]), ~IsAnswered(call[w][op]),
           NEW r, DOMAIN r = RequestFields, ~Idle(r), call' = [call EXCEPT ![w][op] = r],
           op = "create" => ~IsGood(r),
           op = "login" => r.got = "ok",
           op = "mail" => (r.got # "refused" \/ ~account[page[w].token].confirmed)
    PROVE  OnboardingInv'
<1> DEFINE p == page[w]
           c == call[w]
           d == [call[w] EXCEPT ![op] = r]
<1>0. op \in Ops /\ WizardOK(w, p, c)
  BY OpsAre DEF OnboardingInv
<1>1. d[op] = r /\ \A o \in Ops \ {op} : d[o] = c[o]
  BY <1>0, Replaced
<1> HIDE DEF p, c, d
<1>2. ~Idle(c[op]) /\ ~IsAnswered(c[op])
  BY DEF c
<1>3. CreateOK(p, d)
  BY <1>0, <1>1, <1>2, OpsAre DEF WizardOK, CreateOK, Idle, IsGood
<1>4. Created(p, d) <=> Created(p, c)
  BY <1>1, <1>2, OpsAre DEF Created, IsGood, IsAnswered
<1>5. LuckyOK(w, p, d)
  <2>1. mishaps[w] = {} /\ op = "mail" /\ account[p.token].keys \in Own(w)
           => account[p.token].confirmed
    BY <1>0, <1>2 DEF WizardOK, RequestsOK, LuckyOK
  <2>2. mishaps[w] = {} /\ op = "mail" /\ account[p.token].keys \in Own(w) => r.got # "refused"
    BY <2>1 DEF p
  <2>3. d["confirm"] = c["confirm"] /\ (op # "login" => d["login"] = c["login"])
        /\ (op # "mail" => d["mail"] = c["mail"])
    BY <1>1, OpsAre
  <2> QED BY <1>0, <1>1, <1>4, <2>2, <2>3 DEF WizardOK, LuckyOK
<1>6. UNCHANGED <<install, page, user, mishaps>>
  OBVIOUS
<1> QED BY <1>0, <1>3, <1>5, <1>6, RequestStep DEF p, d

LEMMA ServeAccountKeeps ==
    ASSUME OnboardingInv, NEW w \in Wizards,
           \/ CheckOpen(w) \/ FindEmail(w) \/ CountUsers(w)
           \/ ServeLogin(w) \/ RequireKeyExport(w)
    PROVE  OnboardingInv'
<1>0. UNCHANGED <<install, page, user, mishaps>>
  BY DEF CheckOpen, FindEmail, CountUsers, ServeLogin, RequireKeyExport
<1>1. CASE CheckOpen(w)
  <2>1. ~Idle(call[w]["create"]) /\ ~IsAnswered(call[w]["create"])
    BY <1>1 DEF CheckOpen, Idle, IsAnswered
  <2>2. CASE open
    <3>1. PICK r : /\ call' = [call EXCEPT ![w]["create"] = r]
                   /\ DOMAIN r = RequestFields /\ r.at = "passed"
      BY <1>1, <2>2, Passes, OpsAre DEF CheckOpen
    <3>2. ~Idle(r) /\ ~IsGood(r)
      BY <3>1 DEF Idle, IsGood
    <3> QED BY <1>0, <2>1, <3>1, <3>2, AccountRequest
  <2>3. CASE ~open
    <3>1. PICK r : /\ r = Response("refused", NoDomain, FALSE)
                   /\ call' = [call EXCEPT ![w]["create"] = r]
      BY <1>1, <2>3 DEF CheckOpen, Reply, Response
    <3>2. DOMAIN r = RequestFields /\ ~Idle(r) /\ ~IsGood(r)
      BY <3>1 DEF Response, RequestFields, Idle, IsGood
    <3> QED BY <1>0, <2>1, <3>1, <3>2, AccountRequest
  <2> QED BY <2>2, <2>3
<1>2. CASE ServeLogin(w)
  <2>1. ~Idle(call[w]["login"]) /\ ~IsAnswered(call[w]["login"])
    BY <1>2 DEF ServeLogin, Idle, IsAnswered
  <2>2. account[page[w].email].keys = page[w].keys
    BY <2>1 DEF OnboardingInv, WizardOK, RequestsOK, CreateOK
  <2>3. PICK r : r = Response("ok", NoDomain, TRUE) /\ call' = [call EXCEPT ![w]["login"] = r]
    BY <1>2, <2>2 DEF ServeLogin, Reply, Response
  <2>4. DOMAIN r = RequestFields /\ ~Idle(r) /\ r.got = "ok"
    BY <2>3 DEF Response, RequestFields, Idle
  <2> QED BY <1>0, <2>1, <2>3, <2>4, AccountRequest
<1>3. CASE RequireKeyExport(w)
  <2>1. ~Idle(call[w]["mail"]) /\ ~IsAnswered(call[w]["mail"])
    BY <1>3 DEF RequireKeyExport, Idle, IsAnswered
  <2>2. PICK r : /\ r = Response(IF account[page[w].token].confirmed THEN "ok" ELSE "refused", NoDomain, TRUE)
                 /\ call' = [call EXCEPT ![w]["mail"] = r]
    BY <1>3 DEF RequireKeyExport, Reply, Response
  <2>3. /\ DOMAIN r = RequestFields /\ ~Idle(r)
        /\ r.got # "refused" \/ ~account[page[w].token].confirmed
    BY <2>2 DEF Response, RequestFields, Idle
  <2> QED BY <1>0, <2>1, <2>2, <2>3, AccountRequest
<1>4. ASSUME NEW stage \in {"free", "first", "later"}, ~Idle(call[w]["create"]),
             ~IsAnswered(call[w]["create"]), call' = [call EXCEPT ![w]["create"].at = stage]
      PROVE  OnboardingInv'
  <2> DEFINE r == [call[w]["create"] EXCEPT !.at = stage]
  <2>1. "create" \in Ops
    BY OpsAre
  <2>2. call' = [call EXCEPT ![w]["create"] = r]
    BY <1>4, <2>1, Requests, Zenon
  <2>3. DOMAIN r = RequestFields /\ r.at = stage
    BY <2>1, Requests DEF RequestFields
  <2> HIDE DEF r
  <2>4. ~Idle(r) /\ ~IsGood(r)
    BY <2>3 DEF Idle, IsGood
  <2> QED BY <1>0, <1>4, <2>2, <2>3, <2>4, AccountRequest
<1>5. CASE FindEmail(w)
  <2>1. ~Idle(call[w]["create"]) /\ ~IsAnswered(call[w]["create"])
    BY <1>5 DEF FindEmail, Idle, IsAnswered
  <2>2. CASE account[page[w].email].keys = NoBundle
    BY <1>4, <1>5, <2>1, <2>2 DEF FindEmail
  <2>3. CASE account[page[w].email].keys # NoBundle
    <3>1. PICK r : /\ r = Response("taken", NoDomain, FALSE)
                   /\ call' = [call EXCEPT ![w]["create"] = r]
      BY <1>5, <2>3 DEF FindEmail, Reply, Response
    <3>2. DOMAIN r = RequestFields /\ ~Idle(r) /\ ~IsGood(r)
      BY <3>1 DEF Response, RequestFields, Idle, IsGood
    <3> QED BY <1>0, <2>1, <3>1, <3>2, AccountRequest
  <2> QED BY <2>2, <2>3
<1>6. CASE CountUsers(w)
  <2>1. ~Idle(call[w]["create"]) /\ ~IsAnswered(call[w]["create"])
    BY <1>6 DEF CountUsers, Idle, IsAnswered
  <2>2. PICK stage \in {"first", "later"} : call' = [call EXCEPT ![w]["create"].at = stage]
    BY <1>6 DEF CountUsers
  <2> QED BY <1>4, <2>1, <2>2
<1> QED BY <1>1, <1>2, <1>3, <1>5, <1>6

LEMMA ServeRegistrationKeeps ==
    ASSUME OnboardingInv, NEW w \in Wizards, ServeRegistration(w)
    PROVE  OnboardingInv'
<1>0. UNCHANGED <<install, page, user, mishaps>>
  BY DEF ServeRegistration
<1>1. ~Idle(call[w]["regRead"])
  BY DEF ServeRegistration, Idle
<1>2. PICK r : r = Response("ok", NoDomain, open) /\ call' = [call EXCEPT ![w]["regRead"] = r]
  BY DEF ServeRegistration, Reply, Response
<1>3. DOMAIN r = RequestFields /\ ~Idle(r) /\ r.yes = open
  BY <1>2 DEF Response, RequestFields, Idle
<1>4. r.yes \in BOOLEAN
  BY <1>3 DEF OnboardingInv, AccountsOK
<1> DEFINE p == page[w]
           c == call[w]
           d == [call[w] EXCEPT !["regRead"] = r]
<1>5. d["regRead"] = r /\ \A o \in Ops \ {"regRead"} : d[o] = c[o]
  BY Replaced, OpsAre
<1>6. WizardOK(w, p, c) /\ ~Idle(c["regRead"])
  BY <1>1 DEF OnboardingInv
<1> HIDE DEF p, c, d
<1>7. SwitchOK(w, p, d)
  <2>1. d["regWrite"] = c["regWrite"]
    BY <1>5, OpsAre
  <2> QED BY <1>3, <1>5, <1>6, <2>1 DEF WizardOK, SwitchOK, RequestsOK
<1> QED BY <1>0, <1>1, <1>2, <1>3, <1>4, <1>7, OpsAre, RequestStep DEF p, d

-----------------------------------------------------------------------------
(* A step of a page: what it concerns holds afterwards, the rest is as it   *)
(* was.                                                                     *)
LEMMA WizardPage ==
    ASSUME OnboardingInv, UNCHANGED <<install, user, mishaps>>, NEW w \in Wizards, NEW p, NEW d,
           page' = [page EXCEPT ![w] = p], call' = [call EXCEPT ![w] = d],
           PageOK(p), RequestsOK(p, d),
           \/ AccountView(p, d) = AccountView(page[w], call[w])
           \/ KeysOK(w, p) /\ TokenOK(w, p) /\ CreateOK(p, d) /\ LuckyOK(w, p, d),
           DomainView(p, d) = DomainView(page[w], call[w]) \/ DomainOK(w, p, d),
           SwitchView(p, d) = SwitchView(page[w], call[w]) \/ SwitchOK(w, p, d)
    PROVE  OnboardingInv'
<1>0. WizardOK(w, page[w], call[w])
  BY DEF OnboardingInv
<1>1. WizardOK(w, p, d)
  BY <1>0, SameAccount, SameDomain, SameSwitch DEF WizardOK
<1>2. UNCHANGED <<install, user, mishaps>>
  OBVIOUS
<1> QED BY <1>1, <1>2, OneWizard

(* Answers that are used up, and a request that is sent.                    *)
UsedUp(c, done) == [op \in Ops |-> IF op \in done THEN NoCall ELSE c[op]]

LEMMA UsedOK ==
    ASSUME NEW q, NEW c, PageOK(q), RequestsOK(q, c), NEW done, NEW p,
           p.step = q.step, p.mode = q.mode,
           \/ p.status = q.status
           \/ \A op \in {"create", "login", "confirm"} : op \in done \/ Idle(c[op]),
           \/ p.tls = q.tls
           \/ \A op \in {"tlsStatus", "getDomain"} : op \in done \/ Idle(c[op])
    PROVE  RequestsOK(p, UsedUp(c, done))
<1> DEFINE d == UsedUp(c, done)
<1>1. /\ d = [op \in Ops |-> d[op]]
      /\ \A op \in Ops : d[op] = IF op \in done THEN NoCall ELSE c[op]
  BY DEF UsedUp
<1> HIDE DEF d
<1>2. /\ \A op \in Ops : DOMAIN d[op] = RequestFields
      /\ \A op \in Ops : Idle(d[op]) <=> op \in done \/ Idle(c[op])
  BY <1>1, SentIs DEF RequestsOK, Idle
<1>3. d["regRead"].yes \in BOOLEAN /\ d["regWrite"].yes \in BOOLEAN
  BY <1>1, SentIs, OpsAre DEF RequestsOK
<1>4. RequestsOK(p, d)
  BY <1>1, <1>2, <1>3, OpsAre DEF RequestsOK
<1> QED BY <1>4 DEF d

LEMMA UsedAre ==
    ASSUME NEW c, NEW done, NEW op \in Ops
    PROVE  UsedUp(c, done)[op] = IF op \in done THEN NoCall ELSE c[op]
BY DEF UsedUp

LEMMA Stays ==
    ASSUME OnboardingInv, NEW w \in Wizards, NEW p, NEW done, Stay(w, p, done)
    PROVE  /\ page' = [page EXCEPT ![w] = p]
           /\ call' = [call EXCEPT ![w] = UsedUp(call[w], done)]
BY DEF Stay, UsedUp, OnboardingInv, HistoryOK

LEMMA AskedOK ==
    ASSUME NEW q, NEW c, PageOK(q), RequestsOK(q, c), NEW op \in Ops, NEW r,
           DOMAIN r = RequestFields, ~Idle(r), NEW p,
           p.step = q.step, p.mode = q.mode, q.mode # "loading", p.tls = q.tls,
           p.status = q.status \/ op = "create",
           op = "domain" => q.step = 1,
           op = "certbot" => q.step = 5,
           op = "create" => /\ q.step = 9 /\ p.status = "creating"
                            /\ Idle(c["login"]) /\ Idle(c["confirm"]),
           op = "regWrite" => q.step = 10 /\ Idle(c["regRead"]) /\ r.yes \in BOOLEAN,
           op \in {"domain", "dns", "certbot", "create", "regWrite"}
    PROVE  RequestsOK(p, [c EXCEPT ![op] = r])
<1> DEFINE d == [c EXCEPT ![op] = r]
<1>1. /\ d = [o \in Ops |-> d[o]]
      /\ \A o \in Ops : d[o] = IF o = op THEN r ELSE c[o]
  BY DEF RequestsOK
<1> HIDE DEF d
<1>2. /\ \A o \in Ops : DOMAIN d[o] = RequestFields
      /\ \A o \in Ops : Idle(d[o]) <=> o # op /\ Idle(c[o])
  BY <1>1 DEF RequestsOK
<1>3. d["regRead"].yes \in BOOLEAN /\ d["regWrite"].yes \in BOOLEAN
  BY <1>1, OpsAre DEF RequestsOK
<1>4. RequestsOK(p, d)
  BY <1>1, <1>2, <1>3, OpsAre DEF RequestsOK
<1> QED BY <1>4 DEF d

(* Pages that wait for nothing the invariant speaks of.                     *)
LEMMA OtherPagesKeep ==
    ASSUME OnboardingInv, NEW w \in Wizards,
           \/ (\E d \in Domains : SubmitDomain(w, d))
           \/ DomainAnswered(w) /\ ~Good(w, "domain")
           \/ RecordsAnswered(w) \/ DnsAnswered(w) \/ CheckAgain(w) \/ Tick(w)
    PROVE  OnboardingInv'
<1> DEFINE q == page[w]
           c == call[w]
<1>0. /\ UNCHANGED <<install, user, mishaps>>
      /\ q.mode # "loading"
  BY DEF SubmitDomain, DomainAnswered, RecordsAnswered, DnsAnswered, CheckAgain, Tick, OnStep
<1>1. PageOK(q) /\ RequestsOK(q, c) /\ WizardOK(w, q, c)
  BY DEF OnboardingInv, WizardOK
<1>2. PICK p, op :
         /\ op \in {"domain", "records", "dns"} /\ (op = "domain" => q.step = 1)
         /\ \/ \E r : Ask(w, p, op, r) /\ DOMAIN r = RequestFields /\ ~Idle(r) /\ op # "records"
            \/ \E done \in SUBSET {op} : Stay(w, p, done)
         /\ p = q \/ (\E v : p = [q EXCEPT !.verified = v]) \/ (\E v : p = [q EXCEPT !.ticked = v])
  <2>1. ASSUME NEW dom, SubmitDomain(w, dom)
        PROVE  /\ q.step = 1
               /\ \E r : Ask(w, q, "domain", r) /\ DOMAIN r = RequestFields /\ ~Idle(r)
    <3>1. DOMAIN [Sent EXCEPT !.dom = dom] = RequestFields /\ [Sent EXCEPT !.dom = dom].at = "sent"
      BY SentIs DEF RequestFields
    <3> QED BY <2>1, <3>1 DEF SubmitDomain, OnStep, Idle
  <2>2. ASSUME DomainAnswered(w), ~Good(w, "domain")
        PROVE  q.step = 1 /\ Stay(w, q, {"domain"})
    BY <2>2 DEF DomainAnswered, OnStep
  <2>3. CASE RecordsAnswered(w)
    BY <2>3 DEF RecordsAnswered
  <2>4. CASE DnsAnswered(w)
    <3>1. PICK p : /\ p = [q EXCEPT !.verified = Good(w, "dns") /\ call[w]["dns"].yes]
                   /\ Stay(w, p, {"dns"})
      BY <2>4 DEF DnsAnswered
    <3>2. \E v : p = [q EXCEPT !.verified = v]
      BY <3>1
    <3> QED BY <3>1, <3>2
  <2>5. CASE CheckAgain(w)
    BY <2>5, SentIs DEF CheckAgain, Idle
  <2>6. CASE Tick(w)
    <3>1. PICK p : p = [q EXCEPT !.ticked = ~q.ticked] /\ Stay(w, p, {})
      BY <2>6 DEF Tick
    <3>2. \E v : p = [q EXCEPT !.ticked = v]
      BY <3>1
    <3> QED BY <3>1, <3>2
  <2> QED BY <2>1, <2>2, <2>3, <2>4, <2>5, <2>6
<1>3. /\ DOMAIN p = PageFields /\ p.mode = q.mode /\ p.step = q.step /\ p.email = q.email
      /\ p.keys = q.keys
      /\ p.started = q.started /\ p.ready = q.ready /\ p.keyError = q.keyError
      /\ p.downloaded = q.downloaded /\ p.status = q.status /\ p.token = q.token
      /\ p.shown = q.shown /\ p.tls = q.tls /\ p.trigger = q.trigger /\ p.enabled = q.enabled
      /\ p.mail = q.mail
  BY <1>1, <1>2 DEF PageOK, PageFields
<1>4. PageOK(p)
  BY <1>0, <1>1, <1>3 DEF PageOK
<1>5. PICK d : /\ page' = [page EXCEPT ![w] = p] /\ call' = [call EXCEPT ![w] = d]
               /\ RequestsOK(p, d) /\ \A o \in Ops \ {"domain", "records", "dns"} : d[o] = c[o]
  <2>0. op \in Ops
    BY <1>2, OpsAre
  <2>1. ASSUME NEW r, Ask(w, p, op, r), DOMAIN r = RequestFields, ~Idle(r), op # "records"
        PROVE  \E d : /\ page' = [page EXCEPT ![w] = p] /\ call' = [call EXCEPT ![w] = d]
                      /\ RequestsOK(p, d) /\ \A o \in Ops \ {"domain", "records", "dns"} : d[o] = c[o]
    <3> DEFINE d == [call[w] EXCEPT ![op] = r]
    <3>1. page' = [page EXCEPT ![w] = p] /\ call' = [call EXCEPT ![w] = d]
      <4>1. Ask(w, p, op, r)
        BY <2>1
      <4> QED BY <2>0, <4>1, OneRequest DEF Ask
    <3>2. RequestsOK(p, d)
      BY <1>0, <1>1, <1>2, <1>3, <2>0, <2>1, AskedOK
    <3>3. \A o \in Ops \ {op} : d[o] = c[o]
      BY <2>0, Replaced
    <3> HIDE DEF d
    <3> QED BY <1>2, <3>1, <3>2, <3>3
  <2>2. ASSUME NEW done \in SUBSET {op}, Stay(w, p, done)
        PROVE  \E d : /\ page' = [page EXCEPT ![w] = p] /\ call' = [call EXCEPT ![w] = d]
                      /\ RequestsOK(p, d) /\ \A o \in Ops \ {"domain", "records", "dns"} : d[o] = c[o]
    <3> DEFINE d == UsedUp(call[w], done)
    <3>1. page' = [page EXCEPT ![w] = p] /\ call' = [call EXCEPT ![w] = d]
      BY <2>2, Stays
    <3>2. RequestsOK(p, d)
      BY <1>1, <1>3, UsedOK
    <3>3. \A o \in Ops \ {op} : d[o] = c[o]
      BY UsedAre
    <3> HIDE DEF d
    <3> QED BY <1>2, <3>1, <3>2, <3>3
  <2> QED BY <1>2, <2>1, <2>2
<1>6. /\ AccountView(p, d) = AccountView(q, c) /\ DomainView(p, d) = DomainView(q, c)
      /\ SwitchView(p, d) = SwitchView(q, c)
  BY <1>3, <1>5, OpsAre DEF AccountView, DomainView, SwitchView
<1> QED BY <1>0, <1>4, <1>5, <1>6, WizardPage

-----------------------------------------------------------------------------
(* Going to another step.                                                   *)
LEMMA Goes ==
    ASSUME OnboardingInv, NEW w \in Wizards, NEW s, NEW p, NEW done, GoTo(w, s, p, done)
    PROVE  /\ page' = [page EXCEPT ![w] = NewPage(p, s)]
           /\ call' = [call EXCEPT ![w] = NewRequests(call[w], s, done)]
BY DEF GoTo, NewPage, NewRequests, OnboardingInv, HistoryOK

(* A visit begins.                                                          *)
LEMMA OpenKeeps ==
    ASSUME OnboardingInv, NEW w \in Wizards, Open(w)
    PROVE  OnboardingInv'
<1>0. /\ UNCHANGED <<install, user, mishaps>> /\ "status" \in Ops
      /\ WizardOK(w, page[w], call[w]) /\ RequestsOK(page[w], call[w])
  BY OpsAre DEF Open, OnboardingInv, WizardOK
<1>1. PICK p, d : /\ p = page[w] /\ d = [call[w] EXCEPT !["status"] = Sent]
                  /\ page' = [page EXCEPT ![w] = p] /\ call' = [call EXCEPT ![w] = d]
  BY <1>0, OneRequest DEF Open, Ask
<1>2. d["status"] = Sent /\ \A o \in Ops \ {"status"} : d[o] = call[w][o]
  BY <1>0, <1>1, Replaced
<1>3. d = [o \in Ops |-> d[o]] /\ \A o \in Ops : DOMAIN d[o] = RequestFields
  BY <1>0, <1>1, <1>2, SentIs DEF RequestsOK
<1>4. RequestsOK(p, d)
  BY <1>0, <1>1, <1>2, <1>3, OpsAre DEF RequestsOK
<1>5. /\ AccountView(p, d) = AccountView(page[w], call[w])
      /\ DomainView(p, d) = DomainView(page[w], call[w])
      /\ SwitchView(p, d) = SwitchView(page[w], call[w])
  BY <1>1, <1>2, OpsAre DEF AccountView, DomainView, SwitchView
<1>6. PageOK(p)
  BY <1>0, <1>1 DEF WizardOK
<1> QED BY <1>0, <1>1, <1>4, <1>5, <1>6, WizardPage

LEMMA EarlyPagesKeep ==
    ASSUME OnboardingInv, NEW w \in Wizards,
           \/ Detected(w) \/ (DomainAnswered(w) /\ Good(w, "domain"))
           \/ LeaveRecords(w) \/ LeaveDns(w) \/ LeaveFirewall(w) \/ LeaveTls(w)
           \/ (\E e \in Emails : SubmitCredentials(w, e)) \/ RetryKeys(w)
    PROVE  OnboardingInv'
<1> DEFINE q == page[w]
           c == call[w]
           Early(p, s, done) ==
              /\ q.step < 8 /\ q.ready = {} /\ s \in 1..7 /\ done \subseteq {"status", "domain"}
              /\ DOMAIN p = PageFields /\ p.mode # "loading" /\ p.keys = q.keys
              /\ p.ready = q.ready /\ p.token = q.token /\ (s = 7 => p.email \in Emails)
              /\ s >= 5 \/ Idle(c["certbot"])
              /\ "domain" \in done \/ Idle(c["domain"])
              /\ Idle(c["tlsStatus"]) /\ Idle(c["getDomain"])
<1>0. UNCHANGED <<install, user, mishaps>>
  BY DEF Detected, DomainAnswered, LeaveRecords, LeaveDns, LeaveFirewall, LeaveTls,
         SubmitCredentials, RetryKeys
<1>1. WizardOK(w, q, c) /\ PageOK(q) /\ RequestsOK(q, c) /\ KeysOK(w, q)
  BY DEF OnboardingInv, WizardOK
<1>2. ASSUME NEW s \in 1..7, NEW done \in SUBSET {"domain"}, OnStep(w, q.step), q.step < 8,
             q.ready = {}, s >= 5 \/ q.step < 5, "domain" \in done \/ q.step # 1,
             q.step # 5 \/ q.tls # "loading", s # 7
      PROVE  Early(q, s, done)
  BY <1>1, <1>2, OpsAre DEF OnStep, PageOK, RequestsOK, Inbox
<1>3. PICK p, s, done : GoTo(w, s, p, done) /\ Early(p, s, done)
  <2>1. CASE Detected(w)
    <3>1. /\ q = BlankPage /\ \A op \in Ops : op # "status" => Idle(c[op])
          /\ q.step = 1 /\ q.ready = {}
      BY <1>1, <2>1, BlankOK DEF Detected, PageOK, RequestsOK
    <3>2. PICK m \in {"existing", "fresh"}, s \in {6, 1} :
             GoTo(w, s, [q EXCEPT !.mode = m], {"status"})
      BY <2>1 DEF Detected
    <3>3. PICK p : p = [q EXCEPT !.mode = m]
      OBVIOUS
    <3>4. /\ DOMAIN p = PageFields /\ p.mode # "loading" /\ p.keys = q.keys
          /\ p.ready = q.ready /\ p.token = q.token
      BY <1>1, <3>3 DEF PageOK, PageFields
    <3>5. Early(p, s, {"status"})
      BY <3>1, <3>4, OpsAre
    <3> HIDE DEF Early
    <3> QED BY <3>2, <3>3, <3>5
  <2>2. CASE DomainAnswered(w) /\ Good(w, "domain")
    <3>1. Early(q, 2, {"domain"})
      <4>1. q.step = 1 /\ OnStep(w, q.step)
        BY <2>2 DEF DomainAnswered, OnStep
      <4>2. q.ready = {} /\ q.step < 8
        BY <1>1, <4>1 DEF KeysOK
      <4> HIDE DEF Early, q
      <4> QED BY <1>2, <4>1, <4>2
    <3> HIDE DEF Early
    <3> QED BY <2>2, <3>1 DEF DomainAnswered
  <2>3. CASE LeaveRecords(w)
    <3>1. Early(q, 3, {})
      <4>1. q.step = 2 /\ OnStep(w, q.step)
        BY <2>3 DEF LeaveRecords, OnStep
      <4>2. q.ready = {} /\ q.step < 8
        BY <1>1, <4>1 DEF KeysOK
      <4> HIDE DEF Early, q
      <4> QED BY <1>2, <4>1, <4>2
    <3> HIDE DEF Early
    <3> QED BY <2>3, <3>1 DEF LeaveRecords
  <2>4. CASE LeaveDns(w)
    <3>1. Early(q, 4, {})
      <4>1. q.step = 3 /\ OnStep(w, q.step)
        BY <2>4 DEF LeaveDns, OnStep
      <4>2. q.ready = {} /\ q.step < 8
        BY <1>1, <4>1 DEF KeysOK
      <4> HIDE DEF Early, q
      <4> QED BY <1>2, <4>1, <4>2
    <3> HIDE DEF Early
    <3> QED BY <2>4, <3>1 DEF LeaveDns
  <2>5. CASE LeaveFirewall(w)
    <3>1. Early(q, 5, {})
      <4>1. q.step = 4 /\ OnStep(w, q.step)
        BY <2>5 DEF LeaveFirewall, OnStep
      <4>2. q.ready = {} /\ q.step < 8
        BY <1>1, <4>1 DEF KeysOK
      <4> HIDE DEF Early, q
      <4> QED BY <1>2, <4>1, <4>2
    <3> HIDE DEF Early
    <3> QED BY <2>5, <3>1 DEF LeaveFirewall
  <2>6. CASE LeaveTls(w)
    <3>1. Early(q, 6, {})
      <4>1. q.step = 5 /\ q.tls # "loading" /\ OnStep(w, q.step)
        BY <2>6 DEF LeaveTls, OnStep
      <4>2. q.ready = {} /\ q.step < 8
        BY <1>1, <4>1 DEF KeysOK
      <4> HIDE DEF Early, q
      <4> QED BY <1>2, <4>1, <4>2
    <3> HIDE DEF Early
    <3> QED BY <2>6, <3>1 DEF LeaveTls
  <2>7. ASSUME NEW e \in Emails, SubmitCredentials(w, e)
        PROVE  \E p : GoTo(w, 7, p, {}) /\ Early(p, 7, {})
    <3>1. PICK p : p = [q EXCEPT !.email = e] /\ GoTo(w, 7, p, {})
      BY <2>7 DEF SubmitCredentials
    <3>2. q.step = 6 /\ q.mode # "loading"
      BY <2>7 DEF SubmitCredentials, OnStep
    <3>3. /\ DOMAIN p = PageFields /\ p.mode = q.mode /\ p.keys = q.keys
          /\ p.ready = q.ready /\ p.token = q.token /\ p.email = e
      BY <1>1, <3>1 DEF PageOK, PageFields
    <3>4. Early(p, 7, {})
      BY <1>1, <3>2, <3>3 DEF KeysOK, RequestsOK
    <3> HIDE DEF Early
    <3> QED BY <3>1, <3>4
  <2>8. CASE RetryKeys(w)
    <3>1. Early(q, 6, {})
      <4>1. q.step = 7 /\ q.keyError /\ OnStep(w, q.step)
        BY <2>8 DEF RetryKeys, OnStep
      <4>2. q.ready = {} /\ q.step < 8
        BY <1>1, <4>1 DEF KeysOK
      <4> HIDE DEF Early, q
      <4> QED BY <1>2, <4>1, <4>2
    <3> HIDE DEF Early
    <3> QED BY <2>8, <3>1 DEF RetryKeys
  <2> HIDE DEF Early
  <2> QED BY <2>1, <2>2, <2>3, <2>4, <2>5, <2>6, <2>7, <2>8
<1>4. WizardOK(w, NewPage(p, s), NewRequests(c, s, done))
  BY <1>1, <1>3, EarlyStep
<1>5. page' = [page EXCEPT ![w] = NewPage(p, s)] /\ call' = [call EXCEPT ![w] = NewRequests(c, s, done)]
  BY <1>3, Goes
<1> QED BY <1>0, <1>4, <1>5, OneWizard

(* What the requests of a page become when another is mounted.              *)
LEMMA NewRequestsKeep ==
    ASSUME NEW q, NEW c, RequestsOK(q, c), NEW s
    PROVE  \E d : /\ d = NewRequests(c, s, {}) /\ d = [o \in Ops |-> d[o]]
                  /\ \A op \in Ops : /\ DOMAIN d[op] = RequestFields
                                     /\ d[op] = IF op \in Mounts(s) THEN Sent ELSE c[op]
<1>1. PICK d : d = NewRequests(c, s, {})
  OBVIOUS
<1>2. \A op \in Ops : /\ DOMAIN d[op] = RequestFields
                      /\ d[op] = IF op \in Mounts(s) THEN Sent ELSE c[op]
  BY <1>1, NewRequestsAre
<1>3. d = [o \in Ops |-> d[o]]
  BY <1>1 DEF NewRequests
<1> QED BY <1>1, <1>2, <1>3

LEMMA ToBackupLeft ==
    ASSUME NEW w, NEW q, NEW c, WizardOK(w, q, c), q.step = 8, q.mode # "loading", q.downloaded
    PROVE  WizardOK(w, NewPage(q, 9), NewRequests(c, 9, {}))
<1>0. PageOK(q) /\ RequestsOK(q, c)
  BY DEF WizardOK
<1>1. PICK n : n = NewPage(q, 9) /\ IsNew(n, q, 9)
  BY <1>0, NewPageIs DEF PageOK
<1>2. PICK d : /\ d = NewRequests(c, 9, {}) /\ d = [o \in Ops |-> d[o]]
               /\ \A op \in Ops : DOMAIN d[op] = RequestFields /\ d[op] = c[op]
  BY <1>0, NewRequestsKeep, MountsIs
<1>3. \A op \in Ops \ {"status", "records", "dns", "certbot"} : Idle(d[op])
  BY <1>0, <1>2, OpsAre DEF RequestsOK, Inbox
<1>4. PageOK(n)
  <2>1. n.enabled \in BOOLEAN
    BY <1>1 DEF IsNew
  <2> QED BY <1>1, <2>1 DEF IsNew, PageOK, Inbox
<1>5. RequestsOK(n, d)
  BY <1>0, <1>1, <1>2, <1>3, OpsAre DEF IsNew, RequestsOK, Inbox
<1>6. KeysOK(w, n) /\ TokenOK(w, n)
  BY <1>0, <1>1 DEF IsNew, WizardOK, KeysOK, TokenOK, Inbox
<1>7. CreateOK(n, d)
  BY <1>1, <1>3, OpsAre DEF IsNew, CreateOK, Idle, IsGood
<1>8. LuckyOK(w, n, d)
  <2>1. \A e \in Emails : mishaps[w] = {} => account[e].keys \notin Own(w)
    BY <1>0 DEF WizardOK, LuckyOK
  <2> QED BY <1>1, <1>3, <2>1, OpsAre DEF IsNew, LuckyOK, Idle, IsAnswered, Inbox
<1>9. DomainOK(w, n, d)
  BY <1>1, <1>2, <1>3, OpsAre DEF IsNew, WizardOK, DomainOK, Idle, IsAnswered, IsGood
<1>10. SwitchOK(w, n, d)
  BY <1>1, <1>3, OpsAre DEF IsNew, WizardOK, SwitchOK, KeysOK, Inbox
<1> QED BY <1>1, <1>2, <1>4, <1>5, <1>6, <1>7, <1>8, <1>9, <1>10 DEF WizardOK

LEMMA ToSwitch ==
    ASSUME NEW w, NEW q, NEW c, WizardOK(w, q, c), q.step = 9, q.status = "unlocking",
           q.mode # "loading", NoEmail \notin Emails
    PROVE  WizardOK(w, NewPage(q, 10), NewRequests(c, 10, {}))
<1>0. PageOK(q) /\ RequestsOK(q, c)
  BY DEF WizardOK
<1>1. PICK n : n = NewPage(q, 10) /\ IsNew(n, q, 10)
  BY <1>0, NewPageIs DEF PageOK
<1>2. PICK d : /\ d = NewRequests(c, 10, {}) /\ d = [o \in Ops |-> d[o]]
               /\ \A op \in Ops : /\ DOMAIN d[op] = RequestFields
                                  /\ d[op] = IF op \in {"regRead"} THEN Sent ELSE c[op]
  BY <1>0, NewRequestsKeep, MountsIs
<1>3. \A op \in Ops \ {"status", "records", "dns", "certbot", "regRead"} : Idle(d[op])
  BY <1>0, <1>2, OpsAre DEF RequestsOK, Inbox
<1>4. d["regRead"] = Sent /\ d["certbot"] = c["certbot"]
  BY <1>2, OpsAre
<1>5. PageOK(n)
  <2>1. n.enabled \in BOOLEAN
    BY <1>1 DEF IsNew
  <2> QED BY <1>1, <2>1 DEF IsNew, PageOK, Inbox
<1>6. RequestsOK(n, d)
  <2>1. d["regRead"].yes \in BOOLEAN /\ d["regWrite"].yes \in BOOLEAN
    BY <1>0, <1>2, SentIs, OpsAre DEF RequestsOK
  <2> QED BY <1>0, <1>1, <1>2, <1>3, <2>1, OpsAre DEF IsNew, RequestsOK, Inbox
<1>7. /\ q.token = q.email /\ q.email \in Emails /\ q.token # NoEmail
      /\ account[q.token].keys = q.keys /\ q.keys \in Own(w)
  BY DEF WizardOK, CreateOK, KeysOK, TokenOK
<1>8. KeysOK(w, n) /\ TokenOK(w, n)
  BY <1>1, <1>7 DEF IsNew, WizardOK, KeysOK, TokenOK, Inbox
<1>9. CreateOK(n, d)
  BY <1>1, <1>3, OpsAre DEF IsNew, CreateOK, Idle, IsGood
<1>10. LuckyOK(w, n, d)
  <2>1. mishaps[w] = {} => account[q.token].confirmed
    BY <1>7 DEF WizardOK, LuckyOK
  <2> QED BY <1>1, <1>3, <2>1, OpsAre DEF IsNew, LuckyOK, Idle, IsAnswered, Inbox
<1>11. DomainOK(w, n, d)
  BY <1>1, <1>3, <1>4, OpsAre DEF IsNew, WizardOK, DomainOK, Idle, IsAnswered, IsGood
<1>12. SwitchOK(w, n, d)
  <2>1. account[q.token].admin /\ Sole(q.token) => open
    BY <1>7 DEF WizardOK, SwitchOK
  <2>2. ~Idle(d["regRead"]) /\ ~IsGood(d["regRead"]) /\ Idle(d["regWrite"])
    BY <1>3, <1>4, SentIs, OpsAre DEF Idle, IsGood
  <2> QED BY <1>1, <2>1, <2>2 DEF IsNew, SwitchOK
<1> QED BY <1>1, <1>2, <1>5, <1>6, <1>8, <1>9, <1>10, <1>11, <1>12 DEF WizardOK

LEMMA ToInbox ==
    ASSUME NEW w, NEW q, NEW c, WizardOK(w, q, c), q.step >= 6, Idle(c["regRead"]),
           Idle(c["create"]), Idle(c["login"]), Idle(c["confirm"]),
           NEW p, DOMAIN p = PageFields, p.mode # "loading", p.token \in Emails, p.token # NoEmail,
           Made(p.token, w),
           mishaps[w] = {} /\ account[p.token].keys \in Own(w) => account[p.token].confirmed,
           Idle(c["regWrite"]) \/ account[p.token].keys \in Own(w)
    PROVE  WizardOK(w, NewPage(p, Inbox), NewRequests(c, Inbox, {}))
<1>0. PageOK(q) /\ RequestsOK(q, c)
  BY DEF WizardOK
<1>1. PICK n : n = NewPage(p, Inbox) /\ IsNew(n, p, Inbox)
  BY <1>0, NewPageIs DEF PageOK
<1>2. PICK d : /\ d = NewRequests(c, Inbox, {}) /\ d = [o \in Ops |-> d[o]]
               /\ \A op \in Ops : /\ DOMAIN d[op] = RequestFields
                                  /\ d[op] = IF op \in {"mail"} THEN Sent ELSE c[op]
  BY <1>0, NewRequestsKeep, MountsIs
<1>3. \A op \in Ops \ {"status", "records", "dns", "certbot", "regWrite", "mail"} : Idle(d[op])
  BY <1>0, <1>2, OpsAre DEF RequestsOK, PageOK, Inbox
<1>4. /\ d["mail"] = Sent /\ d["certbot"] = c["certbot"] /\ d["regWrite"] = c["regWrite"]
      /\ d["regRead"] = c["regRead"]
  BY <1>2, OpsAre
<1>5. PageOK(n)
  <2>1. n.enabled \in BOOLEAN
    BY <1>1 DEF IsNew
  <2> QED BY <1>1, <2>1 DEF IsNew, PageOK, Inbox
<1>6. RequestsOK(n, d)
  <2>1. d["regRead"].yes \in BOOLEAN /\ d["regWrite"].yes \in BOOLEAN
    BY <1>0, <1>4 DEF RequestsOK
  <2> QED BY <1>0, <1>1, <1>2, <1>3, <2>1, OpsAre DEF IsNew, RequestsOK, PageOK, Inbox
<1>8. KeysOK(w, n) /\ TokenOK(w, n)
  BY <1>1 DEF IsNew, KeysOK, TokenOK, Inbox
<1>9. CreateOK(n, d)
  BY <1>1, <1>3, OpsAre DEF IsNew, CreateOK, Idle, IsGood
<1>10. LuckyOK(w, n, d)
  <2>1. ~IsAnswered(d["mail"]) /\ ~IsAnswered(d["login"]) /\ ~IsAnswered(d["confirm"])
    BY <1>3, <1>4, SentIs, OpsAre DEF Idle, IsAnswered
  <2> QED BY <1>1, <2>1 DEF IsNew, LuckyOK, Inbox
<1>11. DomainOK(w, n, d)
  BY <1>1, <1>3, <1>4, OpsAre DEF IsNew, WizardOK, DomainOK, Idle, IsAnswered, IsGood, Inbox
<1>12. SwitchOK(w, n, d)
  BY <1>1, <1>4 DEF IsNew, SwitchOK, Inbox
<1> QED BY <1>1, <1>2, <1>5, <1>6, <1>8, <1>9, <1>10, <1>11, <1>12 DEF WizardOK

LEMMA LatePagesKeep ==
    ASSUME OnboardingInv, NEW w \in Wizards,
           LeaveBackup(w) \/ ConfirmComplete(w) \/ SignIn(w) \/ FinishSetup(w)
    PROVE  OnboardingInv'
<1> DEFINE q == page[w]
           c == call[w]
<1>0. UNCHANGED <<install, user, mishaps>> /\ WizardOK(w, q, c)
  BY DEF LeaveBackup, ConfirmComplete, SignIn, FinishSetup, OnboardingInv
<1>1. NoEmail \notin Emails
  BY OnboardingAssumption
<1>2. ASSUME NEW p, NEW s, GoTo(w, s, p, {}), WizardOK(w, NewPage(p, s), NewRequests(c, s, {}))
      PROVE  OnboardingInv'
  <2>1. /\ page' = [page EXCEPT ![w] = NewPage(p, s)]
        /\ call' = [call EXCEPT ![w] = NewRequests(c, s, {})]
    BY <1>2, Goes
  <2> QED BY <1>0, <1>2, <2>1, OneWizard
<1>3. q.step = 10 => q.token \in Emails /\ account[q.token].keys \in Own(w)
  BY <1>0 DEF WizardOK, TokenOK, KeysOK
<1>4. DOMAIN q = PageFields
  BY <1>0 DEF WizardOK, PageOK
<1>5. CASE LeaveBackup(w)
  <2>1. WizardOK(w, NewPage(q, 9), NewRequests(c, 9, {}))
    BY <1>0, <1>5, ToBackupLeft DEF LeaveBackup, OnStep
  <2> HIDE DEF q, c
  <2>2. GoTo(w, 9, q, {})
    BY <1>5 DEF LeaveBackup, q
  <2> QED BY <1>2, <2>1, <2>2
<1>6. CASE ConfirmComplete(w)
  <2>1. q.step = 9 /\ q.status = "unlocking" /\ q.mode # "loading"
    BY <1>6 DEF ConfirmComplete, OnStep
  <2>2. WizardOK(w, NewPage(q, 10), NewRequests(c, 10, {}))
    BY <1>0, <1>1, <2>1, ToSwitch
  <2>3. WizardOK(w, NewPage(q, Inbox), NewRequests(c, Inbox, {}))
    <3>1. q.token = q.email /\ q.email \in Emails /\ account[q.token].keys \in Own(w)
          /\ (mishaps[w] = {} => account[q.token].confirmed)
      BY <1>0, <1>1, <2>1 DEF WizardOK, CreateOK, KeysOK, TokenOK, LuckyOK
    <3>2. Idle(c["regRead"]) /\ Idle(c["create"]) /\ Idle(c["login"]) /\ Idle(c["confirm"])
      BY <1>0, <2>1 DEF WizardOK, RequestsOK
    <3>3. Made(q.token, w)
      BY <3>1 DEF Made
    <3> QED BY <1>0, <1>1, <1>4, <2>1, <3>1, <3>2, <3>3, ToInbox
  <2> HIDE DEF q, c
  <2>4. GoTo(w, 10, q, {}) \/ GoTo(w, Inbox, q, {})
    BY <1>6 DEF ConfirmComplete, q
  <2> QED BY <1>2, <2>2, <2>3, <2>4
<1>7. CASE SignIn(w)
  <2>1. PICK e \in Emails, v \in Visits(w) :
           account[e].keys \in Own(v) /\ GoTo(w, Inbox, [q EXCEPT !.token = e], {})
    BY <1>7 DEF SignIn
  <2>2. PICK p : p = [q EXCEPT !.token = e] /\ GoTo(w, Inbox, p, {})
    BY <2>1
  <2>3. DOMAIN p = PageFields /\ p.mode = q.mode /\ p.token = e
    BY <1>4, <2>2 DEF PageFields
  <2>4. Made(e, w)
    BY <2>1 DEF Made, Visits, Over
  <2>5. /\ q.mode # "loading"
        /\ q.step = 6 \/ (q.step = 9 /\ q.status \in {"taken", "locked"})
    BY <1>7 DEF SignIn, OnStep
  <2>6. /\ Idle(c["regRead"]) /\ Idle(c["create"]) /\ Idle(c["login"]) /\ Idle(c["confirm"])
        /\ Idle(c["regWrite"])
    BY <1>0, <2>5 DEF WizardOK, RequestsOK
  <2>7. mishaps[w] = {} /\ account[e].keys \in Own(w) => account[e].confirmed
    <3> HAVE mishaps[w] = {} /\ account[e].keys \in Own(w)
    <3>1. q.step = 9 /\ account[e].keys = q.keys /\ Created(q, c)
      BY <1>0, <2>5 DEF WizardOK, LuckyOK
    <3>2. q.status = "locked"
      BY <2>5, <2>6, <3>1 DEF Created, Idle, IsGood
    <3>3. q.token = q.email /\ e = q.email
      BY <1>0, <3>1, <3>2 DEF WizardOK, CreateOK, KeysOK
    <3> QED BY <1>0, <3>2, <3>3 DEF WizardOK, LuckyOK
  <2>8. WizardOK(w, NewPage(p, Inbox), NewRequests(c, Inbox, {}))
    BY <1>0, <1>1, <2>3, <2>4, <2>5, <2>6, <2>7, ToInbox
  <2> HIDE DEF q, c
  <2> QED BY <1>2, <2>2, <2>8
<1>8. CASE FinishSetup(w)
  <2>1. q.step = 10 /\ q.mode # "loading" /\ Idle(c["regRead"])
    BY <1>8 DEF FinishSetup, OnStep, Quiet, Idle
  <2>2. Idle(c["create"]) /\ Idle(c["login"]) /\ Idle(c["confirm"])
    BY <1>0, <2>1 DEF WizardOK, RequestsOK
  <2>3. q.token # NoEmail /\ (mishaps[w] = {} => account[q.token].confirmed)
    BY <1>0, <1>3, <2>1 DEF WizardOK, TokenOK, LuckyOK
  <2>4. WizardOK(w, NewPage(q, Inbox), NewRequests(c, Inbox, {}))
    <3>1. Made(q.token, w)
      BY <1>3, <2>1 DEF Made
    <3> QED BY <1>0, <1>3, <1>4, <2>1, <2>2, <2>3, <3>1, ToInbox
  <2> HIDE DEF q, c
  <2>5. GoTo(w, Inbox, q, {})
    BY <1>8 DEF FinishSetup, q
  <2> QED BY <1>2, <2>4, <2>5
<1> QED BY <1>5, <1>6, <1>7, <1>8

-----------------------------------------------------------------------------
(* The page of the certificate.                                             *)
LEMMA CertificatePageKeeps ==
    ASSUME OnboardingInv, NEW w \in Wizards,
           TlsAnswered(w) \/ TriggerCertbot(w) \/ CertbotAnswered(w) \/ DropAnswer(w, "certbot")
    PROVE  OnboardingInv'
<1> DEFINE q == page[w]
           c == call[w]
<1>0. /\ UNCHANGED <<install, user, mishaps>>
      /\ WizardOK(w, q, c) /\ PageOK(q) /\ RequestsOK(q, c) /\ DomainOK(w, q, c)
      /\ q = page[w] /\ c = call[w]
  BY DEF TlsAnswered, TriggerCertbot, CertbotAnswered, DropAnswer, OnboardingInv, WizardOK
<1>1. ASSUME NEW p, NEW d, page' = [page EXCEPT ![w] = p], call' = [call EXCEPT ![w] = d],
             DOMAIN p = PageFields,
             p.mode = q.mode /\ p.step = q.step /\ p.email = q.email /\ p.keys = q.keys,
             p.started = q.started /\ p.ready = q.ready /\ p.keyError = q.keyError,
             p.downloaded = q.downloaded /\ p.status = q.status /\ p.token = q.token,
             p.enabled = q.enabled /\ p.mail = q.mail, q.mode # "loading" \/ p = q,
             RequestsOK(p, d), DomainOK(w, p, d),
             \A o \in Ops \ {"tlsStatus", "getDomain", "certbot"} : d[o] = c[o]
      PROVE  OnboardingInv'
  <2>1. AccountView(p, d) = AccountView(q, c) /\ SwitchView(p, d) = SwitchView(q, c)
    BY <1>1, OpsAre DEF AccountView, SwitchView
  <2>2. PageOK(p)
    BY <1>0, <1>1 DEF PageOK
  <2> QED BY <1>0, <1>1, <2>1, <2>2, WizardPage
<1> HIDE DEF q, c
<1>2. CASE TlsAnswered(w)
  <2>1. PICK p : /\ \E s, t : p = [q EXCEPT !.shown = s, !.tls = t]
                 /\ p.tls \in {"cert", "none"}
                 /\ p.tls = "cert" => c["tlsStatus"].got = "ok" /\ c["tlsStatus"].yes
                 /\ p.shown \in {q.shown, c["getDomain"].dom, c["tlsStatus"].dom}
                 /\ Stay(w, p, {"tlsStatus", "getDomain"})
    <3> DEFINE lost == c["tlsStatus"].got = "lost" \/ c["getDomain"].got = "lost"
               s == IF lost THEN q.shown
                    ELSE IF c["getDomain"].got = "ok" /\ c["getDomain"].dom # NoDomain
                         THEN c["getDomain"].dom ELSE c["tlsStatus"].dom
               t == IF ~lost /\ c["tlsStatus"].got = "ok" /\ c["tlsStatus"].yes THEN "cert" ELSE "none"
    <3>1. Stay(w, [q EXCEPT !.shown = s, !.tls = t], {"tlsStatus", "getDomain"})
      BY <1>2 DEF TlsAnswered, q, c
    <3>2. /\ t \in {"cert", "none"}
          /\ t = "cert" => c["tlsStatus"].got = "ok" /\ c["tlsStatus"].yes
          /\ s \in {q.shown, c["getDomain"].dom, c["tlsStatus"].dom}
      OBVIOUS
    <3> HIDE DEF s, t
    <3>3. [q EXCEPT !.shown = s, !.tls = t].shown = s /\ [q EXCEPT !.shown = s, !.tls = t].tls = t
      BY <1>0 DEF PageOK, PageFields
    <3> QED BY <3>1, <3>2, <3>3
  <2>2. /\ q.step = 5 /\ q.mode # "loading"
        /\ IsAnswered(c["tlsStatus"]) /\ IsAnswered(c["getDomain"])
    BY <1>2 DEF TlsAnswered, OnStep, Answered, IsAnswered, q, c
  <2>3. PICK d : /\ d = UsedUp(c, {"tlsStatus", "getDomain"})
                 /\ \A o \in Ops : d[o] = IF o \in {"tlsStatus", "getDomain"} THEN NoCall ELSE c[o]
    BY UsedAre
  <2>4. page' = [page EXCEPT ![w] = p] /\ call' = [call EXCEPT ![w] = d]
    BY <1>0, <2>1, <2>3, Stays
  <2>5. /\ DOMAIN p = PageFields
        /\ p.mode = q.mode /\ p.step = q.step /\ p.email = q.email /\ p.keys = q.keys
        /\ p.started = q.started /\ p.ready = q.ready /\ p.keyError = q.keyError
        /\ p.downloaded = q.downloaded /\ p.status = q.status /\ p.token = q.token
        /\ p.enabled = q.enabled /\ p.mail = q.mail /\ p.trigger = q.trigger
    BY <1>0, <2>1 DEF PageOK, PageFields
  <2>6. RequestsOK(p, d)
    BY <1>0, <2>3, <2>5, UsedOK
  <2>7. DomainOK(w, p, d)
    <3>1. /\ Idle(d["tlsStatus"]) /\ Idle(d["getDomain"]) /\ d["certbot"] = c["certbot"]
      BY <2>3, SentIs, OpsAre DEF Idle
    <3> QED BY <1>0, <2>1, <2>2, <2>5, <3>1 DEF DomainOK, Idle, IsAnswered, IsGood
  <2> QED BY <1>1, <2>2, <2>3, <2>4, <2>5, <2>6, <2>7
<1>3. CASE TriggerCertbot(w)
  <2>1. PICK p : p = [q EXCEPT !.trigger = "running"] /\ Ask(w, p, "certbot", Sent)
    BY <1>3 DEF TriggerCertbot, q
  <2>2. q.step = 5 /\ q.mode # "loading"
    BY <1>3 DEF TriggerCertbot, OnStep, q
  <2>3. "certbot" \in Ops /\ ~Idle(Sent) /\ ~IsGood(Sent) /\ Sent.at # "running"
    BY SentIs, OpsAre DEF Idle, IsGood
  <2>4. PICK d : d = [c EXCEPT !["certbot"] = Sent] /\ page' = [page EXCEPT ![w] = p]
                 /\ call' = [call EXCEPT ![w] = d]
    BY <1>0, <2>1, <2>3, OneRequest DEF Ask, c
  <2>5. d["certbot"] = Sent /\ \A o \in Ops \ {"certbot"} : d[o] = c[o]
    BY <1>0, <2>3, <2>4, Replaced
  <2>6. /\ DOMAIN p = PageFields
        /\ p.mode = q.mode /\ p.step = q.step /\ p.email = q.email /\ p.keys = q.keys
        /\ p.started = q.started /\ p.ready = q.ready /\ p.keyError = q.keyError
        /\ p.downloaded = q.downloaded /\ p.status = q.status /\ p.token = q.token
        /\ p.enabled = q.enabled /\ p.mail = q.mail /\ p.trigger = "running"
        /\ p.tls = q.tls /\ p.shown = q.shown
    BY <1>0, <2>1 DEF PageOK, PageFields
  <2>7. RequestsOK(p, d)
    BY <1>0, <2>2, <2>3, <2>4, <2>6, SentIs, AskedOK
  <2>8. DomainOK(w, p, d)
    BY <1>0, <2>3, <2>5, <2>6, OpsAre DEF DomainOK, IsGood
  <2> QED BY <1>1, <2>2, <2>4, <2>5, <2>6, <2>7, <2>8
<1>4. CASE CertbotAnswered(w)
  <2>1. PICK t : /\ t = "success" => c["certbot"].got = "ok" /\ c["certbot"].yes
                 /\ Stay(w, [q EXCEPT !.trigger = t], {"certbot"})
    BY <1>4 DEF CertbotAnswered, Good, q, c
  <2>2. PICK p : p = [q EXCEPT !.trigger = t] /\ Stay(w, p, {"certbot"})
    BY <2>1
  <2>3. q.step = 5 /\ q.mode # "loading" /\ IsAnswered(c["certbot"])
    BY <1>4 DEF CertbotAnswered, OnStep, Answered, IsAnswered, q, c
  <2>4. PICK d : /\ d = UsedUp(c, {"certbot"})
                 /\ \A o \in Ops : d[o] = IF o \in {"certbot"} THEN NoCall ELSE c[o]
    BY UsedAre
  <2>5. page' = [page EXCEPT ![w] = p] /\ call' = [call EXCEPT ![w] = d]
    BY <1>0, <2>2, <2>4, Stays
  <2>6. /\ DOMAIN p = PageFields
        /\ p.mode = q.mode /\ p.step = q.step /\ p.email = q.email /\ p.keys = q.keys
        /\ p.started = q.started /\ p.ready = q.ready /\ p.keyError = q.keyError
        /\ p.downloaded = q.downloaded /\ p.status = q.status /\ p.token = q.token
        /\ p.enabled = q.enabled /\ p.mail = q.mail /\ p.trigger = t
        /\ p.tls = q.tls /\ p.shown = q.shown
    BY <1>0, <2>2 DEF PageOK, PageFields
  <2>7. RequestsOK(p, d)
    BY <1>0, <2>4, <2>6, UsedOK
  <2>8. DomainOK(w, p, d)
    <3>1. /\ Idle(d["certbot"]) /\ d["tlsStatus"] = c["tlsStatus"] /\ d["getDomain"] = c["getDomain"]
      BY <2>4, SentIs, OpsAre DEF Idle
    <3> QED BY <1>0, <2>1, <2>3, <2>6, <3>1 DEF DomainOK, Idle, IsAnswered, IsGood
  <2> QED BY <1>1, <2>3, <2>4, <2>5, <2>6, <2>7, <2>8
<1>5. CASE DropAnswer(w, "certbot")
  <2>1. q.step # 5 /\ Stay(w, q, {"certbot"})
    BY <1>5 DEF DropAnswer, StepOf, q
  <2>2. PICK d : /\ d = UsedUp(c, {"certbot"})
                 /\ \A o \in Ops : d[o] = IF o \in {"certbot"} THEN NoCall ELSE c[o]
    BY UsedAre
  <2>3. page' = [page EXCEPT ![w] = q] /\ call' = [call EXCEPT ![w] = d]
    BY <1>0, <2>1, <2>2, Stays
  <2>4. RequestsOK(q, d) /\ DOMAIN q = PageFields
    BY <1>0, <2>2, UsedOK DEF PageOK
  <2>5. DomainOK(w, q, d)
    <3>1. /\ Idle(d["certbot"]) /\ d["tlsStatus"] = c["tlsStatus"] /\ d["getDomain"] = c["getDomain"]
      BY <2>2, SentIs, OpsAre DEF Idle
    <3> QED BY <1>0, <2>1, <3>1 DEF DomainOK, Idle, IsGood
  <2> QED BY <1>1, <2>2, <2>3, <2>4, <2>5
<1> QED BY <1>2, <1>3, <1>4, <1>5

-----------------------------------------------------------------------------
(* The page of the switch.                                                  *)
LEMMA SwitchPageKeeps ==
    ASSUME OnboardingInv, NEW w \in Wizards,
           RegistrationAnswered(w) \/ Toggle(w) \/ ToggleAnswered(w) \/ DropAnswer(w, "regWrite")
    PROVE  OnboardingInv'
<1> DEFINE q == page[w]
           c == call[w]
<1>0. /\ UNCHANGED <<install, user, mishaps>>
      /\ WizardOK(w, q, c) /\ PageOK(q) /\ RequestsOK(q, c) /\ SwitchOK(w, q, c)
      /\ q = page[w] /\ c = call[w] /\ open \in BOOLEAN
  BY DEF RegistrationAnswered, Toggle, ToggleAnswered, DropAnswer, OnboardingInv, AccountsOK, WizardOK
<1>1. ASSUME NEW p, NEW d, page' = [page EXCEPT ![w] = p], call' = [call EXCEPT ![w] = d],
             (\E v \in BOOLEAN : p = [q EXCEPT !.enabled = v]) \/ p = q,
             q.mode # "loading" \/ p = q,
             RequestsOK(p, d), SwitchOK(w, p, d),
             \A o \in Ops \ {"regRead", "regWrite"} : d[o] = c[o]
      PROVE  OnboardingInv'
  <2>0. /\ DOMAIN p = PageFields /\ p.enabled \in BOOLEAN
        /\ p.mode = q.mode /\ p.step = q.step /\ p.email = q.email /\ p.keys = q.keys
        /\ p.started = q.started /\ p.ready = q.ready /\ p.keyError = q.keyError
        /\ p.downloaded = q.downloaded /\ p.status = q.status /\ p.token = q.token
        /\ p.mail = q.mail /\ p.shown = q.shown /\ p.tls = q.tls /\ p.trigger = q.trigger
    BY <1>0, <1>1 DEF PageOK, PageFields
  <2>1. AccountView(p, d) = AccountView(q, c) /\ DomainView(p, d) = DomainView(q, c)
    BY <1>1, <2>0, OpsAre DEF AccountView, DomainView
  <2>2. PageOK(p)
    BY <1>0, <1>1, <2>0 DEF PageOK
  <2> QED BY <1>0, <1>1, <2>1, <2>2, WizardPage
<1>2. ASSUME NEW p, NEW v \in BOOLEAN, p = [q EXCEPT !.enabled = v]
      PROVE  /\ p.mode = q.mode /\ p.step = q.step /\ p.keys = q.keys /\ p.status = q.status
             /\ p.token = q.token /\ p.tls = q.tls /\ p.enabled = v
  BY <1>0, <1>2 DEF PageOK, PageFields
<1> HIDE DEF q, c
<1>3. CASE RegistrationAnswered(w)
  <2>1. q.step = 10 /\ q.mode # "loading" /\ IsAnswered(c["regRead"])
    BY <1>3 DEF RegistrationAnswered, OnStep, Answered, IsAnswered, q, c
  <2>2. PICK v : /\ v = IF c["regRead"].got = "ok" THEN c["regRead"].yes ELSE q.enabled
                 /\ Stay(w, [q EXCEPT !.enabled = v], {"regRead"})
    BY <1>3 DEF RegistrationAnswered, Good, q, c
  <2>3. v \in BOOLEAN
    BY <1>0, <2>2 DEF PageOK, RequestsOK
  <2>4. PICK p : p = [q EXCEPT !.enabled = v] /\ Stay(w, p, {"regRead"})
    BY <2>2
  <2>5. PICK d : /\ d = UsedUp(c, {"regRead"})
                 /\ \A o \in Ops : d[o] = IF o \in {"regRead"} THEN NoCall ELSE c[o]
    BY UsedAre
  <2>6. page' = [page EXCEPT ![w] = p] /\ call' = [call EXCEPT ![w] = d]
    BY <1>0, <2>4, <2>5, Stays
  <2>7. RequestsOK(p, d)
    BY <1>0, <1>2, <2>3, <2>4, <2>5, UsedOK
  <2>8. SwitchOK(w, p, d)
    <3>1. Idle(d["regRead"]) /\ d["regWrite"] = c["regWrite"] /\ Idle(c["regWrite"])
      BY <1>0, <2>1, <2>5, SentIs, OpsAre DEF Idle, RequestsOK, IsAnswered
    <3>2. /\ p.step = 10 /\ p.token = q.token /\ p.enabled = v
      BY <1>2, <2>1, <2>3, <2>4
    <3>3. account[q.token].admin /\ Sole(q.token) /\ "lost" \notin mishaps[w] => v = open
      BY <1>0, <2>1, <2>2 DEF SwitchOK, Idle, IsAnswered, IsGood
    <3>4. account[p.token].admin /\ Sole(p.token) /\ "lost" \notin mishaps[w] => p.enabled = open
      BY <3>2, <3>3
    <3>5. Idle(d["regRead"]) /\ Idle(d["regWrite"]) /\ p.step # 9
      BY <3>1, <3>2
    <3> QED BY <3>4, <3>5 DEF SwitchOK, Idle, IsGood
  <2> QED BY <1>1, <2>1, <2>3, <2>4, <2>5, <2>6, <2>7, <2>8
<1>4. CASE Toggle(w)
  <2>1. q.step = 10 /\ q.mode # "loading" /\ Idle(c["regRead"]) /\ Idle(c["regWrite"])
    BY <1>4 DEF Toggle, OnStep, Quiet, Idle, q, c
  <2>2. PICK v : v = ~q.enabled /\ Ask(w, [q EXCEPT !.enabled = v], "regWrite", [Sent EXCEPT !.yes = v])
    BY <1>4 DEF Toggle, q
  <2>3. v \in BOOLEAN
    BY <2>2
  <2>4. PICK p, r : /\ p = [q EXCEPT !.enabled = v] /\ r = [Sent EXCEPT !.yes = v]
                    /\ Ask(w, p, "regWrite", r)
    BY <2>2
  <2>5. "regWrite" \in Ops /\ DOMAIN r = RequestFields /\ r.at = "sent" /\ r.yes = v
    BY <2>4, SentIs, OpsAre DEF RequestFields
  <2>6. PICK d : d = [c EXCEPT !["regWrite"] = r] /\ page' = [page EXCEPT ![w] = p]
                 /\ call' = [call EXCEPT ![w] = d]
    BY <1>0, <2>4, <2>5, OneRequest DEF Ask, c
  <2>7. d["regWrite"] = r /\ \A o \in Ops \ {"regWrite"} : d[o] = c[o]
    BY <1>0, <2>5, <2>6, Replaced
  <2>8. RequestsOK(p, d)
    <3>1. ~Idle(r) /\ r.yes \in BOOLEAN
      BY <2>3, <2>5 DEF Idle
    <3>2. p.step = q.step /\ p.mode = q.mode /\ p.status = q.status /\ p.tls = q.tls
      BY <1>2, <2>3, <2>4
    <3> QED BY <1>0, <2>1, <2>5, <2>6, <3>1, <3>2, AskedOK
  <2>9. SwitchOK(w, p, d)
    <3>1. Idle(d["regRead"]) /\ ~Idle(r) /\ ~IsGood(r)
      BY <2>1, <2>5, <2>7, OpsAre DEF Idle, IsGood
    <3>2. p.step = 10 /\ p.token = q.token
      BY <1>2, <2>1, <2>3, <2>4
    <3>3. account[q.token].admin /\ Sole(q.token) /\ "lost" \notin mishaps[w] => v # open
      BY <1>0, <2>1, <2>2 DEF SwitchOK, PageOK
    <3>4. /\ Idle(d["regRead"]) /\ ~Idle(d["regWrite"]) /\ ~IsGood(d["regWrite"]) /\ p.step # 9
          /\ d["regWrite"].yes = v
      BY <2>5, <2>7, <3>1, <3>2
    <3>5. account[p.token].admin /\ Sole(p.token) /\ "lost" \notin mishaps[w]
             => d["regWrite"].yes # open
      BY <3>2, <3>3, <3>4
    <3>6. account[p.token].keys \in Own(w)
      BY <1>0, <2>1, <3>2 DEF WizardOK, TokenOK, KeysOK
    <3> QED BY <3>4, <3>5, <3>6 DEF SwitchOK, Idle, IsGood
  <2> QED BY <1>1, <2>1, <2>3, <2>4, <2>6, <2>7, <2>8, <2>9
<1>5. CASE ToggleAnswered(w)
  <2>1. q.step = 10 /\ q.mode # "loading" /\ IsAnswered(c["regWrite"])
    BY <1>5 DEF ToggleAnswered, OnStep, Answered, IsAnswered, q, c
  <2>2. PICK v : /\ v = IF c["regWrite"].got = "ok" THEN c["regWrite"].yes ELSE ~c["regWrite"].yes
                 /\ Stay(w, [q EXCEPT !.enabled = v], {"regWrite"})
    BY <1>5 DEF ToggleAnswered, Good, q, c
  <2>3. v \in BOOLEAN
    BY <1>0, <2>2 DEF RequestsOK
  <2>4. PICK p : p = [q EXCEPT !.enabled = v] /\ Stay(w, p, {"regWrite"})
    BY <2>2
  <2>5. PICK d : /\ d = UsedUp(c, {"regWrite"})
                 /\ \A o \in Ops : d[o] = IF o \in {"regWrite"} THEN NoCall ELSE c[o]
    BY UsedAre
  <2>6. page' = [page EXCEPT ![w] = p] /\ call' = [call EXCEPT ![w] = d]
    BY <1>0, <2>4, <2>5, Stays
  <2>7. RequestsOK(p, d)
    BY <1>0, <1>2, <2>3, <2>4, <2>5, UsedOK
  <2>8. SwitchOK(w, p, d)
    <3>1. Idle(d["regWrite"]) /\ d["regRead"] = c["regRead"] /\ Idle(c["regRead"])
      BY <1>0, <2>1, <2>5, SentIs, OpsAre DEF Idle, RequestsOK, IsAnswered
    <3>2. p.step = 10 /\ p.token = q.token /\ p.enabled = v
      BY <1>2, <2>1, <2>3, <2>4
    <3>3. account[q.token].admin /\ Sole(q.token) /\ "lost" \notin mishaps[w] => v = open
      BY <1>0, <2>1, <2>2 DEF SwitchOK, RequestsOK, Idle, IsAnswered, IsGood
    <3>4. account[p.token].admin /\ Sole(p.token) /\ "lost" \notin mishaps[w] => p.enabled = open
      BY <3>2, <3>3
    <3>5. Idle(d["regRead"]) /\ Idle(d["regWrite"]) /\ p.step # 9
      BY <3>1, <3>2
    <3> QED BY <3>4, <3>5 DEF SwitchOK, Idle, IsGood
  <2> QED BY <1>1, <2>1, <2>3, <2>4, <2>5, <2>6, <2>7, <2>8
<1>6. CASE DropAnswer(w, "regWrite")
  <2>1. q.step # 10 /\ Stay(w, q, {"regWrite"}) /\ IsAnswered(c["regWrite"])
    BY <1>6 DEF DropAnswer, StepOf, Answered, IsAnswered, q, c
  <2>2. PICK d : /\ d = UsedUp(c, {"regWrite"})
                 /\ \A o \in Ops : d[o] = IF o \in {"regWrite"} THEN NoCall ELSE c[o]
    BY UsedAre
  <2>3. page' = [page EXCEPT ![w] = q] /\ call' = [call EXCEPT ![w] = d]
    BY <1>0, <2>1, <2>2, Stays
  <2>4. RequestsOK(q, d)
    BY <1>0, <2>2, UsedOK DEF PageOK
  <2>5. SwitchOK(w, q, d)
    <3>1. q.step \notin {9, 10}
      BY <1>0, <2>1 DEF RequestsOK, Idle, IsAnswered
    <3>2. Idle(d["regWrite"])
      BY <2>2, SentIs, OpsAre DEF Idle
    <3> QED BY <3>1, <3>2 DEF SwitchOK
  <2> QED BY <1>1, <2>2, <2>3, <2>4, <2>5
<1> QED BY <1>3, <1>4, <1>5, <1>6

-----------------------------------------------------------------------------
(* The pages of the account.                                                *)
LEMMA AccountPageStep ==
    ASSUME OnboardingInv, UNCHANGED <<install, user, mishaps>>, NEW w \in Wizards, NEW p, NEW d,
           page' = [page EXCEPT ![w] = p], call' = [call EXCEPT ![w] = d],
           page[w].mode # "loading", DOMAIN p = PageFields,
           p.mode = page[w].mode /\ p.step = page[w].step /\ p.email = page[w].email,
           p.keys = page[w].keys /\ p.ready = page[w].ready,
           p.downloaded = page[w].downloaded /\ p.shown = page[w].shown,
           p.tls = page[w].tls /\ p.trigger = page[w].trigger /\ p.enabled = page[w].enabled,
           p.step # 9 => p.status = page[w].status /\ p.token = page[w].token,
           p.step # Inbox => p.mail = page[w].mail,
           (p.started = page[w].started /\ p.keyError = page[w].keyError) \/ KeysOK(w, p),
           p.token = page[w].token \/ TokenOK(w, p),
           RequestsOK(p, d), CreateOK(p, d), LuckyOK(w, p, d),
           \A o \in Ops \ {"create", "login", "confirm", "mail"} : d[o] = call[w][o]
    PROVE  OnboardingInv'
<1> DEFINE q == page[w]
           c == call[w]
<1>0. /\ WizardOK(w, q, c) /\ q = page[w] /\ c = call[w]
      /\ p.mode = q.mode /\ p.step = q.step /\ p.email = q.email
      /\ p.keys = q.keys /\ p.ready = q.ready
      /\ p.downloaded = q.downloaded /\ p.shown = q.shown
      /\ p.tls = q.tls /\ p.trigger = q.trigger /\ p.enabled = q.enabled
      /\ p.step # 9 => p.status = q.status /\ p.token = q.token
      /\ p.step # Inbox => p.mail = q.mail
      /\ \A o \in Ops \ {"create", "login", "confirm", "mail"} : d[o] = c[o]
      /\ q.mode # "loading"
  BY DEF OnboardingInv
<1>1. (p.started = q.started /\ p.keyError = q.keyError) \/ KeysOK(w, p)
  OBVIOUS
<1>2. p.token = q.token \/ TokenOK(w, p)
  OBVIOUS
<1>3. UNCHANGED <<install, user, mishaps>>
  OBVIOUS
<1> HIDE DEF q, c
<1>4. PageOK(p)
  BY <1>0 DEF WizardOK, PageOK
<1>5. KeysOK(w, p)
  BY <1>0, <1>1 DEF WizardOK, KeysOK
<1>6. TokenOK(w, p)
  BY <1>0, <1>2 DEF WizardOK, TokenOK
<1>7. DomainView(p, d) = DomainView(q, c)
  BY <1>0, OpsAre DEF DomainView
<1>8. SwitchOK(w, p, d)
  <2>1. d["regRead"] = c["regRead"] /\ d["regWrite"] = c["regWrite"]
    BY <1>0, OpsAre
  <2>2. ~Idle(c["regWrite"]) => p.token = q.token
    BY <1>0 DEF WizardOK, RequestsOK
  <2> QED BY <1>0, <2>1, <2>2 DEF WizardOK, SwitchOK
<1> QED BY <1>0, <1>3, <1>4, <1>5, <1>6, <1>7, <1>8, WizardPage

Rest(p, q) ==
    /\ DOMAIN p = PageFields
    /\ p.mode = q.mode /\ p.step = q.step /\ p.email = q.email /\ p.keys = q.keys
    /\ p.ready = q.ready /\ p.started = q.started /\ p.keyError = q.keyError
    /\ p.downloaded = q.downloaded /\ p.shown = q.shown /\ p.tls = q.tls
    /\ p.trigger = q.trigger /\ p.enabled = q.enabled

LEMMA StatusSet ==
    ASSUME NEW q, DOMAIN q = PageFields, NEW v, NEW p, p = [q EXCEPT !.status = v]
    PROVE  Rest(p, q) /\ p.token = q.token /\ p.mail = q.mail /\ p.status = v
BY DEF PageFields, Rest

LEMMA MailSet ==
    ASSUME NEW q, DOMAIN q = PageFields, NEW v, NEW p, p = [q EXCEPT !.mail = v]
    PROVE  Rest(p, q) /\ p.token = q.token /\ p.status = q.status /\ p.mail = v
BY DEF PageFields, Rest

LEMMA TokenSet ==
    ASSUME NEW q, DOMAIN q = PageFields, NEW v, NEW p, p = [q EXCEPT !.token = v]
    PROVE  Rest(p, q) /\ p.mail = q.mail /\ p.status = q.status /\ p.token = v
BY DEF PageFields, Rest

LEMMA AccountPageKeeps ==
    ASSUME OnboardingInv, NEW w \in Wizards,
           \/ MailAnswered(w) \/ PressCreate(w) \/ CreateAnswered(w) \/ LoginAnswered(w)
           \/ ConfirmAnswered(w) \/ UnlockFails(w)
    PROVE  OnboardingInv'
<1> DEFINE q == page[w]
           c == call[w]
<1>0. /\ UNCHANGED <<install, user, mishaps>>
      /\ WizardOK(w, q, c) /\ PageOK(q) /\ RequestsOK(q, c) /\ DOMAIN q = PageFields
      /\ q.mode # "loading" /\ q = page[w] /\ c = call[w]
  BY DEF MailAnswered, PressCreate, CreateAnswered, LoginAnswered, ConfirmAnswered, UnlockFails,
         OnboardingInv, WizardOK, PageOK, OnStep
<1>1. ASSUME NEW p, NEW d, page' = [page EXCEPT ![w] = p], call' = [call EXCEPT ![w] = d],
             Rest(p, q), q.step # 9 => p.status = q.status /\ p.token = q.token,
             q.step # Inbox => p.mail = q.mail,
             p.token = q.token \/ TokenOK(w, p),
             RequestsOK(p, d), CreateOK(p, d), LuckyOK(w, p, d),
             \A o \in Ops \ {"create", "login", "confirm", "mail"} : d[o] = c[o]
      PROVE  OnboardingInv'
  <2>1. /\ p.mode = q.mode /\ p.step = q.step /\ p.email = q.email /\ DOMAIN p = PageFields
        /\ p.keys = q.keys /\ p.ready = q.ready
        /\ p.downloaded = q.downloaded /\ p.shown = q.shown
        /\ p.tls = q.tls /\ p.trigger = q.trigger /\ p.enabled = q.enabled
        /\ p.started = q.started /\ p.keyError = q.keyError
        /\ p.step # 9 => p.status = q.status /\ p.token = q.token
        /\ p.step # Inbox => p.mail = q.mail
    BY <1>1 DEF Rest
  <2> QED BY <1>0, <1>1, <2>1, AccountPageStep
<1> HIDE DEF q, c
<1>2. ASSUME NEW done
      PROVE  \A o \in Ops : UsedUp(c, done)[o] = IF o \in done THEN NoCall ELSE c[o]
  BY UsedAre
<1>3. Idle(NoCall)
  BY SentIs DEF Idle
<1>4. CASE MailAnswered(w)
  <2>1. PICK p : p = [q EXCEPT !.mail = c["mail"].got] /\ Stay(w, p, {"mail"})
    BY <1>4 DEF MailAnswered, q, c
  <2>2. q.step = Inbox /\ IsAnswered(c["mail"])
    BY <1>4 DEF MailAnswered, OnStep, Answered, IsAnswered, q, c
  <2>3. Rest(p, q) /\ p.token = q.token /\ p.status = q.status /\ p.mail = c["mail"].got
    BY <1>0, <2>1, MailSet
  <2>4. PICK d : d = UsedUp(c, {"mail"}) /\ \A o \in Ops : d[o] = IF o \in {"mail"} THEN NoCall ELSE c[o]
    BY <1>2
  <2>5. page' = [page EXCEPT ![w] = p] /\ call' = [call EXCEPT ![w] = d]
    BY <1>0, <2>1, <2>4, Stays
  <2>6. RequestsOK(p, d)
    BY <1>0, <2>3, <2>4, UsedOK DEF Rest
  <2>7. /\ Idle(d["mail"]) /\ d["create"] = c["create"] /\ d["login"] = c["login"]
        /\ d["confirm"] = c["confirm"]
    BY <1>3, <2>4, OpsAre
  <2>8. CreateOK(p, d)
    BY <1>0, <2>3, <2>7 DEF Rest, WizardOK, CreateOK
  <2>9. LuckyOK(w, p, d)
    <3>1. ~IsAnswered(d["mail"]) /\ ~(p.step <= 9)
      BY <2>2, <2>3, <2>7 DEF Idle, IsAnswered, Rest, Inbox
    <3> QED BY <1>0, <2>2, <2>3, <2>7, <3>1 DEF Rest, WizardOK, LuckyOK
  <2> QED BY <1>1, <2>2, <2>3, <2>4, <2>5, <2>6, <2>8, <2>9 DEF Inbox
<1>5. CASE PressCreate(w)
  <2>1. PICK p : p = [q EXCEPT !.status = "creating"] /\ Ask(w, p, "create", Sent)
    BY <1>5 DEF PressCreate, q
  <2>2. q.step = 9 /\ q.status \in {"idle", "error", "taken"}
    BY <1>5 DEF PressCreate, OnStep, q
  <2>3. Rest(p, q) /\ p.token = q.token /\ p.mail = q.mail /\ p.status = "creating"
    BY <1>0, <2>1, StatusSet
  <2>4. "create" \in Ops /\ ~Idle(Sent) /\ ~IsAnswered(Sent) /\ ~IsGood(Sent)
    BY SentIs, OpsAre DEF Idle, IsAnswered, IsGood
  <2>5. PICK d : d = [c EXCEPT !["create"] = Sent] /\ page' = [page EXCEPT ![w] = p]
                 /\ call' = [call EXCEPT ![w] = d]
    BY <1>0, <2>1, <2>4, OneRequest DEF Ask, c
  <2>6. d["create"] = Sent /\ \A o \in Ops \ {"create"} : d[o] = c[o]
    BY <1>0, <2>4, <2>5, Replaced
  <2>7. Idle(c["create"]) /\ Idle(c["login"]) /\ Idle(c["confirm"])
    BY <1>0, <2>2 DEF RequestsOK
  <2>8. RequestsOK(p, d)
    <3>1. p.step = q.step /\ p.mode = q.mode /\ p.tls = q.tls
      BY <2>3 DEF Rest
    <3> QED BY <1>0, <2>2, <2>3, <2>4, <2>5, <2>7, <3>1, SentIs, AskedOK
  <2>9. Idle(d["login"]) /\ Idle(d["confirm"]) /\ d["mail"] = c["mail"] /\ ~IsGood(d["create"])
    BY <2>4, <2>6, <2>7, OpsAre
  <2>10. CreateOK(p, d)
    BY <2>3, <2>9 DEF CreateOK
  <2>11. LuckyOK(w, p, d)
    <3>1. ~Created(q, c)
      BY <2>2, <2>7 DEF Created, Idle, IsGood
    <3>2. ~IsAnswered(d["login"]) /\ ~IsAnswered(d["confirm"])
      BY <2>9 DEF Idle, IsAnswered
    <3> QED BY <1>0, <2>2, <2>3, <2>9, <3>1, <3>2 DEF Rest, WizardOK, LuckyOK, Inbox
  <2> QED BY <1>1, <2>2, <2>3, <2>5, <2>6, <2>8, <2>10, <2>11
<1>6. CASE CreateAnswered(w) /\ Good(w, "create")
  <2>1. q.step = 9 /\ IsGood(c["create"])
    BY <1>6 DEF CreateAnswered, OnStep, Answered, Good, IsGood, q, c
  <2>2. PICK d : /\ d = [c EXCEPT !["create"] = NoCall, !["login"] = Sent]
                 /\ call' = [call EXCEPT ![w] = d] /\ page' = [page EXCEPT ![w] = q]
    <3>1. page' = page /\ call' = [call EXCEPT ![w]["create"] = NoCall, ![w]["login"] = Sent]
      BY <1>6 DEF CreateAnswered
    <3>2. /\ call = [u \in Wizards |-> call[u]] /\ page = [u \in Wizards |-> page[u]]
          /\ c = call[w] /\ q = page[w]
      BY <1>0 DEF OnboardingInv, HistoryOK
    <3>3. call' = [call EXCEPT ![w] = [c EXCEPT !["create"] = NoCall, !["login"] = Sent]]
      BY <3>1, <3>2, Zenon
    <3>4. page' = [page EXCEPT ![w] = q]
      BY <3>1, <3>2, Zenon
    <3> QED BY <3>3, <3>4
  <2>3. /\ d = [o \in Ops |-> d[o]] /\ d["create"] = NoCall /\ d["login"] = Sent
        /\ \A o \in Ops \ {"create", "login"} : d[o] = c[o]
    BY <1>0, <2>2, OpsAre DEF RequestsOK
  <2>4. Idle(d["create"]) /\ ~Idle(d["login"]) /\ ~IsAnswered(d["login"]) /\ d["mail"] = c["mail"]
        /\ d["confirm"] = c["confirm"] /\ Idle(c["confirm"]) /\ q.status = "creating"
    BY <1>0, <1>3, <2>1, <2>3, SentIs, OpsAre DEF RequestsOK, Idle, IsAnswered, IsGood
  <2>5. RequestsOK(q, d)
    <3>1. \A o \in Ops : DOMAIN d[o] = RequestFields
      BY <1>0, <2>3, SentIs DEF RequestsOK
    <3>2. d["regRead"].yes \in BOOLEAN /\ d["regWrite"].yes \in BOOLEAN
      BY <1>0, <2>3, OpsAre DEF RequestsOK
    <3>3. \A o \in Ops \ {"create", "login"} : Idle(d[o]) <=> Idle(c[o])
      BY <2>3
    <3> QED BY <1>0, <2>1, <2>3, <2>4, <3>1, <3>2, <3>3, OpsAre DEF RequestsOK
  <2>6. CreateOK(q, d)
    BY <1>0, <2>1, <2>4 DEF WizardOK, CreateOK, Idle, IsGood
  <2>7. LuckyOK(w, q, d)
    <3>1. Created(q, d)
      BY <2>4 DEF Created
    <3> QED BY <1>0, <2>4, <3>1 DEF WizardOK, LuckyOK
  <2> QED BY <1>0, <1>1, <2>2, <2>3, <2>5, <2>6, <2>7 DEF Rest
<1>7. CASE CreateAnswered(w) /\ ~Good(w, "create")
  <2>1. q.step = 9 /\ IsAnswered(c["create"]) /\ ~IsGood(c["create"])
    BY <1>7 DEF CreateAnswered, OnStep, Answered, Good, IsAnswered, IsGood, q, c
  <2>2. PICK v \in {"taken", "error"} : Stay(w, [q EXCEPT !.status = v], {"create"})
    BY <1>7 DEF CreateAnswered, q
  <2>3. PICK p : p = [q EXCEPT !.status = v] /\ Stay(w, p, {"create"})
    BY <2>2
  <2>4. Rest(p, q) /\ p.token = q.token /\ p.mail = q.mail /\ p.status = v
    BY <1>0, <2>3, StatusSet
  <2>5. PICK d : d = UsedUp(c, {"create"}) /\ \A o \in Ops : d[o] = IF o \in {"create"} THEN NoCall ELSE c[o]
    BY <1>2
  <2>6. page' = [page EXCEPT ![w] = p] /\ call' = [call EXCEPT ![w] = d]
    BY <1>0, <2>3, <2>5, Stays
  <2>7. q.status = "creating" /\ Idle(c["login"]) /\ Idle(c["confirm"])
    BY <1>0, <2>1 DEF RequestsOK, Idle, IsAnswered
  <2>8. RequestsOK(p, d)
    <3>1. p.step = q.step /\ p.mode = q.mode /\ p.tls = q.tls
      BY <2>4 DEF Rest
    <3> QED BY <1>0, <2>5, <2>7, <3>1, UsedOK
  <2>9. Idle(d["create"]) /\ Idle(d["login"]) /\ Idle(d["confirm"]) /\ d["mail"] = c["mail"]
    BY <1>3, <2>5, <2>7, OpsAre
  <2>10. CreateOK(p, d)
    BY <2>4, <2>9 DEF CreateOK, Idle, IsGood
  <2>11. LuckyOK(w, p, d)
    <3>1. ~Created(q, c)
      BY <2>1, <2>7 DEF Created
    <3>2. ~IsAnswered(d["login"]) /\ ~IsAnswered(d["confirm"])
      BY <2>9 DEF Idle, IsAnswered
    <3> QED BY <1>0, <2>1, <2>4, <2>9, <3>1, <3>2 DEF Rest, WizardOK, LuckyOK, Inbox
  <2> QED BY <1>1, <2>1, <2>4, <2>5, <2>6, <2>8, <2>10, <2>11
<1>8. CASE LoginAnswered(w) /\ Good(w, "login")
  <2>1. q.step = 9 /\ IsGood(c["login"]) /\ IsAnswered(c["login"])
    BY <1>8 DEF LoginAnswered, OnStep, Answered, Good, IsGood, IsAnswered, q, c
  <2>2. PICK p : p = [q EXCEPT !.token = q.email] /\ page' = [page EXCEPT ![w] = p]
    <3>1. page' = [page EXCEPT ![w].token = page[w].email]
      BY <1>8 DEF LoginAnswered
    <3> QED BY <1>0, <3>1 DEF OnboardingInv, HistoryOK
  <2>3. PICK d : /\ d = [c EXCEPT !["login"] = NoCall, !["confirm"] = Sent]
                 /\ call' = [call EXCEPT ![w] = d]
    <3>1. call' = [call EXCEPT ![w]["login"] = NoCall, ![w]["confirm"] = Sent]
      BY <1>8 DEF LoginAnswered
    <3>2. call = [u \in Wizards |-> call[u]] /\ c = call[w]
      BY <1>0 DEF OnboardingInv, HistoryOK
    <3>3. call' = [call EXCEPT ![w] = [c EXCEPT !["login"] = NoCall, !["confirm"] = Sent]]
      BY <3>1, <3>2, Zenon
    <3> QED BY <3>3
  <2>4. Rest(p, q) /\ p.mail = q.mail /\ p.status = q.status /\ p.token = q.email
    BY <1>0, <2>2, TokenSet
  <2>5. /\ d = [o \in Ops |-> d[o]] /\ d["login"] = NoCall /\ d["confirm"] = Sent
        /\ \A o \in Ops \ {"login", "confirm"} : d[o] = c[o]
    BY <1>0, <2>3, OpsAre DEF RequestsOK
  <2>6. /\ Idle(d["login"]) /\ ~Idle(d["confirm"]) /\ ~IsAnswered(d["confirm"])
        /\ d["mail"] = c["mail"] /\ d["create"] = c["create"] /\ Idle(c["create"])
        /\ q.status = "creating"
    BY <1>0, <1>3, <2>1, <2>5, SentIs, OpsAre DEF RequestsOK, Idle, IsAnswered, IsGood
  <2>7. RequestsOK(p, d)
    <3>1. \A o \in Ops : DOMAIN d[o] = RequestFields
      BY <1>0, <2>5, SentIs DEF RequestsOK
    <3>2. d["regRead"].yes \in BOOLEAN /\ d["regWrite"].yes \in BOOLEAN
      BY <1>0, <2>5, OpsAre DEF RequestsOK
    <3>3. \A o \in Ops \ {"login", "confirm"} : Idle(d[o]) <=> Idle(c[o])
      BY <2>5
    <3>4. p.step = q.step /\ p.mode = q.mode /\ p.tls = q.tls
      BY <2>4 DEF Rest
    <3> QED BY <1>0, <2>1, <2>4, <2>5, <2>6, <3>1, <3>2, <3>3, <3>4, OpsAre DEF RequestsOK
  <2>8. CreateOK(p, d)
    BY <2>4, <2>6 DEF CreateOK, Rest, Idle, IsGood
  <2>9. LuckyOK(w, p, d)
    <3>1. Created(p, d) /\ ~IsAnswered(d["login"]) /\ ~IsAnswered(d["mail"])
      BY <1>0, <2>1, <2>6 DEF Created, RequestsOK, Idle, IsAnswered, Inbox
    <3> QED BY <1>0, <2>1, <2>4, <2>6, <3>1 DEF WizardOK, LuckyOK, Rest, Inbox
  <2>10. TokenOK(w, p)
    <3>1. account[q.email].keys = q.keys /\ q.email \in Emails /\ q.keys \in Own(w)
      BY <1>0, <2>1 DEF WizardOK, CreateOK, KeysOK, Idle, IsAnswered
    <3> QED BY <2>1, <2>4, <3>1 DEF TokenOK, Made, Rest
  <2> QED BY <1>1, <2>1, <2>2, <2>3, <2>4, <2>5, <2>7, <2>8, <2>9, <2>10
<1>9. CASE LoginAnswered(w) /\ ~Good(w, "login")
  <2>1. q.step = 9 /\ IsAnswered(c["login"]) /\ c["login"].got # "ok"
    BY <1>9 DEF LoginAnswered, OnStep, Answered, Good, IsAnswered, q, c
  <2>2. PICK p : p = [q EXCEPT !.status = "error"] /\ Stay(w, p, {"login"})
    BY <1>9 DEF LoginAnswered, q
  <2>3. Rest(p, q) /\ p.token = q.token /\ p.mail = q.mail /\ p.status = "error"
    BY <1>0, <2>2, StatusSet
  <2>4. PICK d : d = UsedUp(c, {"login"}) /\ \A o \in Ops : d[o] = IF o \in {"login"} THEN NoCall ELSE c[o]
    BY <1>2
  <2>5. page' = [page EXCEPT ![w] = p] /\ call' = [call EXCEPT ![w] = d]
    BY <1>0, <2>2, <2>4, Stays
  <2>6. q.status = "creating" /\ Idle(c["create"]) /\ Idle(c["confirm"])
    BY <1>0, <2>1 DEF RequestsOK, Idle, IsAnswered
  <2>7. RequestsOK(p, d)
    <3>1. p.step = q.step /\ p.mode = q.mode /\ p.tls = q.tls
      BY <2>3 DEF Rest
    <3> QED BY <1>0, <2>4, <2>6, <3>1, UsedOK
  <2>8. Idle(d["create"]) /\ Idle(d["login"]) /\ Idle(d["confirm"])
    BY <1>3, <2>4, <2>6, OpsAre
  <2>9. CreateOK(p, d)
    BY <2>3, <2>8 DEF CreateOK, Idle, IsGood
  <2>10. LuckyOK(w, p, d)
    BY <1>0, <2>1 DEF WizardOK, LuckyOK
  <2> QED BY <1>1, <2>1, <2>3, <2>4, <2>5, <2>7, <2>9, <2>10
<1>10. CASE ConfirmAnswered(w)
  <2>1. q.step = 9 /\ IsAnswered(c["confirm"])
    BY <1>10 DEF ConfirmAnswered, OnStep, Answered, IsAnswered, q, c
  <2>2. PICK v : /\ v = IF c["confirm"].got = "lost" THEN "error" ELSE "unlocking"
                 /\ Stay(w, [q EXCEPT !.status = v], {"confirm"})
    BY <1>10 DEF ConfirmAnswered, q, c
  <2>3. PICK p : p = [q EXCEPT !.status = v] /\ Stay(w, p, {"confirm"})
    BY <2>2
  <2>4. Rest(p, q) /\ p.token = q.token /\ p.mail = q.mail /\ p.status = v
    BY <1>0, <2>3, StatusSet
  <2>5. PICK d : d = UsedUp(c, {"confirm"}) /\ \A o \in Ops : d[o] = IF o \in {"confirm"} THEN NoCall ELSE c[o]
    BY <1>2
  <2>6. page' = [page EXCEPT ![w] = p] /\ call' = [call EXCEPT ![w] = d]
    BY <1>0, <2>3, <2>5, Stays
  <2>7. /\ q.status = "creating" /\ Idle(c["create"]) /\ Idle(c["login"])
        /\ ~Idle(c["confirm"]) /\ q.token = q.email
    BY <1>0, <2>1 DEF WizardOK, CreateOK, RequestsOK, Idle, IsAnswered
  <2>8. RequestsOK(p, d)
    <3>1. p.step = q.step /\ p.mode = q.mode /\ p.tls = q.tls
      BY <2>4 DEF Rest
    <3> QED BY <1>0, <2>5, <2>7, <3>1, UsedOK
  <2>9. Idle(d["create"]) /\ Idle(d["login"]) /\ Idle(d["confirm"]) /\ d["mail"] = c["mail"]
    BY <1>3, <2>5, <2>7, OpsAre
  <2>10. CreateOK(p, d)
    BY <2>4, <2>7, <2>9 DEF CreateOK, Rest, Idle, IsGood
  <2>11. LuckyOK(w, p, d)
    <3>1. mishaps[w] = {} => v = "unlocking" /\ account[q.token].confirmed
      <4>1. account[q.token].keys \in Own(w)
        BY <1>0, <2>1, <2>7, OnboardingAssumption DEF WizardOK, TokenOK, KeysOK
      <4> QED BY <1>0, <2>1, <2>2, <4>1 DEF WizardOK, LuckyOK
    <3>2. v = "unlocking" => Created(p, d)
      BY <2>4 DEF Created
    <3>3. ~IsAnswered(d["login"]) /\ ~IsAnswered(d["confirm"])
      BY <2>9 DEF Idle, IsAnswered
    <3> QED BY <1>0, <2>1, <2>4, <2>9, <3>1, <3>2, <3>3 DEF Rest, WizardOK, LuckyOK
  <2> QED BY <1>1, <2>1, <2>4, <2>5, <2>6, <2>8, <2>10, <2>11
<1>11. CASE UnlockFails(w)
  <2>1. q.step = 9 /\ q.status = "unlocking"
    BY <1>11 DEF UnlockFails, OnStep, q
  <2>2. PICK p : p = [q EXCEPT !.status = "locked"] /\ Stay(w, p, {})
    BY <1>11 DEF UnlockFails, q
  <2>3. Rest(p, q) /\ p.token = q.token /\ p.mail = q.mail /\ p.status = "locked"
    BY <1>0, <2>2, StatusSet
  <2>4. PICK d : d = UsedUp(c, {}) /\ \A o \in Ops : d[o] = c[o]
    BY <1>2
  <2>5. page' = [page EXCEPT ![w] = p] /\ call' = [call EXCEPT ![w] = d]
    BY <1>0, <2>2, <2>4, Stays
  <2>6. Idle(c["create"]) /\ Idle(c["login"]) /\ Idle(c["confirm"]) /\ q.token = q.email
    BY <1>0, <2>1 DEF WizardOK, CreateOK, RequestsOK
  <2>7. RequestsOK(p, d)
    <3>1. p.step = q.step /\ p.mode = q.mode /\ p.tls = q.tls
      BY <2>3 DEF Rest
    <3> QED BY <1>0, <2>4, <2>6, <3>1, UsedOK
  <2>8. Idle(d["create"]) /\ Idle(d["login"]) /\ Idle(d["confirm"]) /\ d["mail"] = c["mail"]
    BY <2>4, <2>6, OpsAre
  <2>9. CreateOK(p, d)
    BY <2>3, <2>6, <2>8 DEF CreateOK, Rest, Idle, IsGood
  <2>10. LuckyOK(w, p, d)
    <3>1. Created(p, d)
      BY <2>3 DEF Created
    <3>2. ~IsAnswered(d["login"]) /\ ~IsAnswered(d["confirm"])
      BY <2>8 DEF Idle, IsAnswered
    <3> QED BY <1>0, <2>1, <2>3, <2>8, <3>1, <3>2 DEF Rest, WizardOK, LuckyOK
  <2> QED BY <1>1, <2>1, <2>3, <2>4, <2>5, <2>7, <2>9, <2>10
<1> QED BY <1>4, <1>5, <1>6, <1>7, <1>8, <1>9, <1>10, <1>11

LEMMA KeysPageKeeps ==
    ASSUME OnboardingInv, NEW w \in Wizards,
           KeysFail(w) \/ (\E b \in page[w].ready : KeysReady(w, b))
    PROVE  OnboardingInv'
<1> DEFINE q == page[w]
           c == call[w]
<1>0. /\ UNCHANGED <<install, user, mishaps>>
      /\ WizardOK(w, q, c) /\ PageOK(q) /\ RequestsOK(q, c) /\ KeysOK(w, q) /\ DOMAIN q = PageFields
      /\ q = page[w] /\ c = call[w]
  BY DEF KeysFail, KeysReady, OnboardingInv, WizardOK, PageOK
<1> HIDE DEF q, c
<1>1. CASE KeysFail(w)
  <2>1. PICK p : p = [q EXCEPT !.started = TRUE, !.keyError = TRUE] /\ Stay(w, p, {})
    BY <1>1 DEF KeysFail, q
  <2>2. q.step = 7 /\ q.mode # "loading" /\ ~q.started
    BY <1>1 DEF KeysFail, OnStep, q
  <2>3. /\ DOMAIN p = PageFields /\ p.started = TRUE /\ p.keyError = TRUE
        /\ p.mode = q.mode /\ p.step = q.step /\ p.email = q.email /\ p.keys = q.keys
        /\ p.ready = q.ready /\ p.downloaded = q.downloaded /\ p.shown = q.shown
        /\ p.tls = q.tls /\ p.trigger = q.trigger /\ p.enabled = q.enabled
        /\ p.token = q.token /\ p.mail = q.mail /\ p.status = q.status
    BY <1>0, <2>1 DEF PageFields
  <2>4. PICK d : d = UsedUp(c, {}) /\ \A o \in Ops : d[o] = c[o]
    BY UsedAre
  <2>5. page' = [page EXCEPT ![w] = p] /\ call' = [call EXCEPT ![w] = d]
    BY <1>0, <2>1, <2>4, Stays
  <2>6. RequestsOK(p, d)
    BY <1>0, <2>3, <2>4, UsedOK
  <2>7. KeysOK(w, p)
    BY <1>0, <2>2, <2>3 DEF KeysOK
  <2>8. d["create"] = c["create"] /\ d["login"] = c["login"] /\ d["confirm"] = c["confirm"]
        /\ d["mail"] = c["mail"]
    BY <2>4, OpsAre
  <2>9. CreateOK(p, d) /\ LuckyOK(w, p, d)
    <3>1. Created(p, d) <=> Created(q, c)
      BY <2>3, <2>8 DEF Created
    <3> QED BY <1>0, <2>3, <2>8, <3>1 DEF WizardOK, CreateOK, LuckyOK
  <2> QED BY <1>0, <2>2, <2>3, <2>4, <2>5, <2>6, <2>7, <2>9, AccountPageStep
<1>2. ASSUME NEW b \in q.ready, KeysReady(w, b)
      PROVE  OnboardingInv'
  <2>0. q.step = 7 /\ q.ready = {b} /\ b \in Own(w) /\ \A e \in Emails : account[e].keys # b
    BY <1>0, <1>2 DEF KeysOK
  <2>1. PICK p, n : /\ p = [q EXCEPT !.ready = @ \ {b}, !.keys = b] /\ n = NewPage(p, 8)
                    /\ page' = [page EXCEPT ![w] = n] /\ UNCHANGED call
    <3>1. PICK p : /\ p = [q EXCEPT !.ready = @ \ {b}, !.keys = b]
                   /\ p.step # 8 => page' = [page EXCEPT ![w] = NewPage(p, 8)]
                   /\ UNCHANGED call
      BY <1>2 DEF KeysReady, NewPage, q
    <3>2. p.step # 8
      BY <1>0, <2>0, <3>1 DEF PageFields
    <3>3. page' = [page EXCEPT ![w] = NewPage(p, 8)]
      BY <3>1, <3>2
    <3> QED BY <3>1, <3>3
  <2>2. /\ DOMAIN p = PageFields /\ p.ready = {} /\ p.keys = b /\ p.mode = q.mode
        /\ p.email = q.email /\ p.token = q.token
    <3>1. p.ready = q.ready \ {b}
      BY <1>0, <2>1 DEF PageFields
    <3>2. /\ DOMAIN p = PageFields /\ p.keys = b /\ p.mode = q.mode
          /\ p.email = q.email /\ p.token = q.token
      BY <1>0, <2>1 DEF PageFields
    <3> QED BY <2>0, <3>1, <3>2
  <2>3. IsNew(n, p, 8)
    BY <2>1, <2>2, NewPageIs
  <2>4. q.mode # "loading"
    BY <1>0, <2>0, BlankOK DEF PageOK
  <2>5. PageOK(n)
    <3>1. n.enabled \in BOOLEAN
      BY <2>3 DEF IsNew
    <3> QED BY <2>2, <2>3, <2>4, <3>1 DEF IsNew, PageOK, Inbox
  <2>6. \A o \in Ops \ {"status", "records", "dns", "certbot"} : Idle(c[o])
    BY <1>0, <2>0, OpsAre DEF RequestsOK, Inbox
  <2>7. RequestsOK(n, c)
    BY <1>0, <2>2, <2>3, <2>4, <2>6, OpsAre DEF IsNew, RequestsOK
  <2>8. KeysOK(w, n) /\ TokenOK(w, n)
    BY <1>0, <2>0, <2>2, <2>3 DEF IsNew, WizardOK, KeysOK, TokenOK, Inbox
  <2>9. CreateOK(n, c)
    BY <2>3, <2>6, OpsAre DEF IsNew, CreateOK, Idle, IsGood
  <2>10. LuckyOK(w, n, c)
    <3>1. \A e \in Emails : mishaps[w] = {} => account[e].keys \notin Own(w)
      BY <1>0, <2>0 DEF WizardOK, LuckyOK
    <3> QED BY <2>3, <2>6, <3>1, OpsAre DEF IsNew, LuckyOK, Idle, IsAnswered, Inbox
  <2>11. DomainOK(w, n, c)
    BY <1>0, <2>3, <2>6, OpsAre DEF IsNew, WizardOK, DomainOK, Idle, IsAnswered, IsGood
  <2>12. SwitchOK(w, n, c)
    BY <2>3, <2>6, OpsAre DEF IsNew, SwitchOK
  <2>13. call' = [call EXCEPT ![w] = c]
    BY <1>0, <2>1, OneRequest
  <2> QED BY <1>0, <2>1, <2>5, <2>7, <2>8, <2>9, <2>10, <2>11, <2>12, <2>13, OneWizard DEF WizardOK
<1> QED BY <1>1, <1>2 DEF q

-----------------------------------------------------------------------------
(* Keys, accounts, administrators and what went wrong: none is taken back.  *)
Grows ==
    /\ \A v \in Wizards : /\ gens'[v] \in Nat /\ gens'[v] >= gens[v]
                          /\ mishaps[v] # {} => mishaps'[v] # {}
    /\ \A e \in Emails : /\ account[e].keys # NoBundle => account'[e].keys = account[e].keys
                         /\ account[e].admin => account'[e].admin

LEMMA StillGrows ==
    ASSUME OnboardingInv, UNCHANGED <<account, gens, mishaps>>
    PROVE  Grows
BY DEF Grows, OnboardingInv, HistoryOK

LEMMA MadeGrows ==
    ASSUME OnboardingInv, Grows, NEW w, NEW e \in Emails, Made(e, w)
    PROVE  Made(e, w)'
<1>1. PICK v \in Wizards : account[e].keys \in Own(v) /\ (v = w \/ mishaps[v] # {})
  BY DEF Made
<1>2. gens[v] \in Nat /\ gens'[v] \in Nat /\ gens'[v] >= gens[v]
  BY DEF OnboardingInv, HistoryOK, Grows
<1>3. Own(v) \subseteq Own(v)' /\ NoBundle \notin Own(v)
  BY <1>2, OnboardingAssumption DEF Own
<1>4. account'[e].keys = account[e].keys
  BY <1>1, <1>3 DEF Grows
<1>5. v = w \/ mishaps'[v] # {}
  BY <1>1 DEF Grows
<1> QED BY <1>1, <1>3, <1>4, <1>5 DEF Made

(* What a step of wizard w may do to the server, and still leave the others *)
(* as they were: it touches no account of theirs, nor the switch when one   *)
(* of them is the only administrator's.                                     *)
LEMMA OthersKeep ==
    ASSUME OnboardingInv, NEW w \in Wizards, NEW u \in Wizards \ {w}, NEW q, NEW c,
           q = page[u], c = call[u], Grows,
           gens'[u] = gens[u], files'[u] = files[u], mishaps'[u] = mishaps[u],
           \A e \in Emails : \/ account'[e] = account[e]
                             \/ account[e].keys \notin Own(u) /\ account'[e].keys \notin Own(u),
           \/ open' = open
           \/ \A e \in Emails : account[e].admin /\ Sole(e) => account[e].keys \notin Own(u),
           \/ domain' = domain /\ setter' = setter /\ certs \subseteq certs'
           \/ setter' = {w}
    PROVE  WizardOK(u, q, c)'
<1>0. /\ PageOK(q) /\ RequestsOK(q, c) /\ KeysOK(u, q) /\ TokenOK(u, q) /\ CreateOK(q, c)
      /\ LuckyOK(u, q, c) /\ DomainOK(u, q, c) /\ SwitchOK(u, q, c)
  BY DEF OnboardingInv, WizardOK
<1>1. PageOK(q)' /\ RequestsOK(q, c)'
  BY <1>0 DEF PageOK, RequestsOK
<1>2. Own(u)' = Own(u) /\ NoEmail \notin Emails
  BY OnboardingAssumption DEF Own
<1>3. \A e \in Emails : /\ account'[e] # account[e] => account'[e].keys \notin Own(u)
                        /\ account'[e] # account[e] => account[e].keys \notin Own(u)
  OBVIOUS
<1>4. KeysOK(u, q)'
  <2>1. \A e \in Emails : \A b \in Own(u) : account'[e].keys = b => account[e].keys = b
    BY <1>3
  <2>2. q.step \in 8..10 => q.keys \in Own(u)
    BY <1>0 DEF KeysOK
  <2>3. \A b \in q.ready, e \in Emails : account'[e].keys # b
    BY <1>0, <2>1 DEF KeysOK
  <2>4. q.step = 8 => \A e \in Emails : account'[e].keys # q.keys
    BY <1>0, <2>1, <2>2 DEF KeysOK
  <2>5. q.step = 9 => \A e \in Emails : account'[e].keys = q.keys => e = q.email
    BY <1>0, <2>1, <2>2 DEF KeysOK
  <2> QED BY <1>0, <1>2, <2>3, <2>4, <2>5 DEF KeysOK
<1>5. TokenOK(u, q)' /\ (q.token # NoEmail /\ account'[q.token].keys \in Own(u)
                             => account'[q.token] = account[q.token])
  <2>1. q.token # NoEmail => q.token \in Emails /\ Made(q.token, u)'
    BY <1>0, MadeGrows DEF TokenOK
  <2>2. q.token # NoEmail /\ q.step \in {9, 10} => account'[q.token].keys = q.keys
    <3>1. q.token # NoEmail /\ q.step \in {9, 10} => account[q.token].keys \in Own(u)
      BY <1>0 DEF TokenOK, KeysOK
    <3> QED BY <1>0, <1>3, <2>1, <3>1 DEF TokenOK
  <2> QED BY <1>0, <1>3, <2>1, <2>2 DEF TokenOK
<1>6. CreateOK(q, c)'
  <2>1. q.step = 9 /\ (IsGood(c["create"]) \/ ~Idle(c["login"])) =>
           account'[q.email] = account[q.email]
    BY <1>0, <1>3 DEF CreateOK, KeysOK
  <2> QED BY <1>0, <2>1 DEF CreateOK
<1>7. LuckyOK(u, q, c)'
  <2>1. IsAnswered(c["confirm"]) \/ q.status \in {"unlocking", "locked"} \/ q.step \in {10, Inbox}
           => q.token # NoEmail
    <3>1. ~Idle(c["confirm"]) \/ q.status \in {"unlocking", "locked"} => q.token = q.email /\ q.step = 9
      BY <1>0 DEF CreateOK, RequestsOK, PageOK
    <3>2. q.step = 9 => q.email \in Emails
      BY <1>0 DEF KeysOK
    <3>3. q.step \in {10, Inbox} => q.token # NoEmail
      BY <1>0 DEF TokenOK, Inbox
    <3>4. IsAnswered(c["confirm"]) => ~Idle(c["confirm"])
      BY DEF IsAnswered, Idle
    <3> QED BY <1>2, <3>1, <3>2, <3>3, <3>4
  <2>2. \A e \in Emails : account'[e].keys \in Own(u) => account[e] = account'[e]
    BY <1>3
  <2>3. Created(q, c)' <=> Created(q, c)
    BY DEF Created
  <2>4. IsAnswered(c["mail"]) \/ q.step = Inbox => q.token # NoEmail
    BY <1>0 DEF RequestsOK, TokenOK, IsAnswered, Idle, Inbox
  <2> QED BY <1>0, <1>2, <1>5, <2>1, <2>2, <2>3, <2>4 DEF LuckyOK
<1>8. DomainOK(u, q, c)'
  BY <1>0 DEF DomainOK
<1>9. SwitchOK(u, q, c)'
  <2>1. \A e \in Emails : account'[e].keys \in Own(u) =>
           account[e] = account'[e] /\ (account[e].admin /\ Sole(e) => open' = open)
    BY <1>3
  <2>2. \A e \in Emails : Sole(e)' => Sole(e)
    BY DEF Sole, Grows
  <2>3. q.step = 9 => q.keys \in Own(u)
    BY <1>0 DEF KeysOK
  <2>4. q.step = 10 \/ ~Idle(c["regWrite"]) =>
           account[q.token].keys \in Own(u) /\ q.token \in Emails
    BY <1>0 DEF TokenOK, KeysOK, SwitchOK, RequestsOK
  <2>5. q.step = 10 \/ ~Idle(c["regWrite"]) => account'[q.token] = account[q.token]
    BY <1>3, <2>4
  <2>6. q.step = 10 /\ account'[q.token].admin /\ Sole(q.token)'
           => account[q.token].admin /\ Sole(q.token) /\ open' = open
    BY <2>1, <2>2, <2>4, <2>5
  <2>7. q.step = 9 => \A e \in Emails :
           account'[e].admin /\ Sole(e)' /\ account'[e].keys = q.keys => open'
    BY <1>0, <2>1, <2>2, <2>3 DEF SwitchOK
  <2>8. ~Idle(c["regWrite"]) => account'[q.token].keys \in Own(u)'
    BY <1>2, <2>4, <2>5
  <2> QED BY <1>0, <2>6, <2>7, <2>8 DEF SwitchOK
<1> QED BY <1>1, <1>4, <1>5, <1>6, <1>7, <1>8, <1>9 DEF WizardOK

LEMMA WizardStep ==
    ASSUME OnboardingInv, NEW w \in Wizards, NEW p, NEW d, Grows,
           page' = [page EXCEPT ![w] = p], call' = [call EXCEPT ![w] = d],
           \A u \in Wizards \ {w} :
              gens'[u] = gens[u] /\ files'[u] = files[u] /\ mishaps'[u] = mishaps[u],
           \A u \in Wizards \ {w}, e \in Emails :
              \/ account'[e] = account[e]
              \/ account[e].keys \notin Own(u) /\ account'[e].keys \notin Own(u),
           \/ open' = open
           \/ \A u \in Wizards \ {w}, e \in Emails :
                 account[e].admin /\ Sole(e) => account[e].keys \notin Own(u),
           \/ domain' = domain /\ setter' = setter /\ certs \subseteq certs'
           \/ setter' = {w},
           AccountsOK', gens' \in [Wizards -> Nat], DOMAIN files' = Wizards,
           files'[w] \subseteq Own(w)', DOMAIN mishaps' = Wizards,
           WizardOK(w, p, d)'
    PROVE  OnboardingInv'
<1>1. ASSUME NEW u \in Wizards
      PROVE  WizardOK(u, page[u], call[u])'
  <2>1. CASE u = w
    <3>1. page'[u] = p /\ call'[u] = d
      BY <2>1 DEF OnboardingInv, HistoryOK
    <3>2. \A x, y : x = p /\ y = d => WizardOK(w, x, y)'
      OBVIOUS
    <3> QED BY <2>1, <3>1, <3>2
  <2>2. CASE u # w
    <3>1. PICK q, c : q = page[u] /\ c = call[u]
      OBVIOUS
    <3>2. page'[u] = q /\ call'[u] = c
      BY <2>2, <3>1 DEF OnboardingInv, HistoryOK
    <3>3. WizardOK(u, q, c)'
      BY <2>2, <3>1, OthersKeep
    <3> QED BY <3>2, <3>3
  <2> QED BY <2>1, <2>2
<1>2. HistoryOK'
  <2>1. ASSUME NEW u \in Wizards PROVE files'[u] \subseteq Own(u)'
    BY DEF OnboardingInv, HistoryOK, Own
  <2> QED BY <2>1 DEF OnboardingInv, HistoryOK
<1> QED BY <1>1, <1>2 DEF OnboardingInv

-----------------------------------------------------------------------------
(* Parts of the invariant that a step leaves alone.                         *)
LEMMA AccountsUntouched ==
    ASSUME NEW w, NEW p, NEW d, WizardOK(w, p, d),
           UNCHANGED <<account, gens, files, mishaps>>
    PROVE  /\ PageOK(p)' /\ RequestsOK(p, d)' /\ KeysOK(w, p)' /\ TokenOK(w, p)'
           /\ CreateOK(p, d)' /\ LuckyOK(w, p, d)'
           /\ open' = open => SwitchOK(w, p, d)'
<1>1. Own(w)' = Own(w) /\ (Created(p, d)' <=> Created(p, d))
  BY DEF Own, Created
<1>2. PageOK(p)' /\ RequestsOK(p, d)' /\ KeysOK(w, p)' /\ CreateOK(p, d)' /\ LuckyOK(w, p, d)'
  BY <1>1 DEF WizardOK, PageOK, RequestsOK, KeysOK, CreateOK, LuckyOK
<1>3. TokenOK(w, p)'
  BY DEF WizardOK, TokenOK, Made, Own
<1>4. open' = open => SwitchOK(w, p, d)'
  BY <1>1 DEF WizardOK, SwitchOK, Sole
<1> QED BY <1>2, <1>3, <1>4

LEMMA DomainUntouched ==
    ASSUME NEW w, NEW p, NEW d, WizardOK(w, p, d), UNCHANGED <<domain, setter>>,
           certs \subseteq certs'
    PROVE  DomainOK(w, p, d)'
BY DEF WizardOK, DomainOK

LEMMA AccountsOKKeeps ==
    ASSUME OnboardingInv, UNCHANGED <<account, open>>, gens \in [Wizards -> Nat],
           \A w \in Wizards : gens'[w] \in Nat /\ gens'[w] >= gens[w] /\ files[w] \subseteq files'[w]
    PROVE  AccountsOK'
<1>1. \A w \in Wizards : Own(w) \subseteq Own(w)'
  BY DEF Own
<1> QED BY <1>1 DEF OnboardingInv, AccountsOK

(* The domain is stored; its wizard is on the first page.                   *)
LEMMA StoreDomainKeeps ==
    ASSUME OnboardingInv, NEW w \in Wizards, StoreDomain(w)
    PROVE  OnboardingInv'
<1> DEFINE q == page[w]
           c == call[w]
<1>0. /\ UNCHANGED <<account, open, certs, page, files, gens, mishaps>> /\ setter' = {w}
      /\ WizardOK(w, q, c) /\ RequestsOK(q, c) /\ q = page[w] /\ c = call[w]
      /\ call[w]["domain"].at = "passed"
  BY DEF StoreDomain, user, OnboardingInv, WizardOK
<1>1. PICK r : r = Response("ok", domain', TRUE) /\ call' = [call EXCEPT ![w]["domain"] = r]
  BY DEF StoreDomain, Reply, Response
<1>2. DOMAIN r = RequestFields /\ ~Idle(r) /\ ~Idle(c["domain"]) /\ "domain" \in Ops
  BY <1>0, <1>1, OpsAre DEF Response, RequestFields, Idle
<1> HIDE DEF q, c
<1>3. PICK p : p = q
  OBVIOUS
<1>4. PICK d : d = [c EXCEPT !["domain"] = r] /\ call' = [call EXCEPT ![w] = d]
  BY <1>0, <1>1, <1>2, OneRequest
<1>5. \A o \in Ops \ {"domain"} : d[o] = c[o]
  BY <1>0, <1>2, <1>4, Replaced
<1>6. RequestsOK(p, d)
  BY <1>0, <1>2, <1>3, <1>4, RequestMoved
<1>7. AccountView(p, d) = AccountView(q, c) /\ SwitchView(p, d) = SwitchView(q, c)
      /\ DomainView(p, d) = DomainView(q, c)
  BY <1>3, <1>5, OpsAre DEF AccountView, SwitchView, DomainView
<1>8. WizardOK(w, p, d)
  BY <1>0, <1>3, <1>6, <1>7, SameAccount, SameSwitch, SameDomain DEF WizardOK
<1>9. DomainOK(w, p, d)'
  <2>1. p.step = 1 /\ Idle(c["tlsStatus"]) /\ Idle(c["getDomain"]) /\ Idle(c["certbot"])
    BY <1>0, <1>2, <1>3 DEF RequestsOK
  <2>2. Idle(d["tlsStatus"]) /\ Idle(d["getDomain"]) /\ Idle(d["certbot"])
    BY <1>5, <2>1, OpsAre
  <2> QED BY <2>1, <2>2 DEF DomainOK, Idle, IsAnswered, IsGood
<1>10. WizardOK(w, p, d)'
  BY <1>0, <1>8, <1>9, AccountsUntouched DEF WizardOK
<1>11. gens \in [Wizards -> Nat] /\ DOMAIN files = Wizards /\ DOMAIN mishaps = Wizards
       /\ files[w] \subseteq Own(w) /\ Own(w)' = Own(w)
  BY <1>0 DEF OnboardingInv, HistoryOK, Own
<1>12. AccountsOK'
  BY <1>0, <1>11, AccountsOKKeeps
<1>13. page' = [page EXCEPT ![w] = p]
  BY <1>0, <1>3, OneRequest
<1>14. /\ \A u \in Wizards \ {w} :
             gens'[u] = gens[u] /\ files'[u] = files[u] /\ mishaps'[u] = mishaps[u]
       /\ \A u \in Wizards \ {w}, e \in Emails :
             \/ account'[e] = account[e]
             \/ account[e].keys \notin Own(u) /\ account'[e].keys \notin Own(u)
       /\ open' = open /\ gens' \in [Wizards -> Nat] /\ DOMAIN files' = Wizards
       /\ files'[w] \subseteq Own(w)' /\ DOMAIN mishaps' = Wizards
  BY <1>0, <1>11
<1>15. Grows
  BY <1>0, StillGrows
<1> QED BY <1>0, <1>4, <1>10, <1>12, <1>13, <1>14, <1>15, WizardStep

(* certbot ends or is killed.                                               *)
LEMMA CertbotKeeps ==
    ASSUME OnboardingInv, NEW w \in Wizards, CertbotEnds(w) \/ KillCertbot(w)
    PROVE  OnboardingInv'
<1> DEFINE q == page[w]
           c == call[w]
<1>0. /\ UNCHANGED <<account, domain, open, setter, page, files, gens, mishaps>>
      /\ WizardOK(w, q, c) /\ RequestsOK(q, c) /\ q = page[w] /\ c = call[w]
      /\ c["certbot"].at = "running"
  BY DEF CertbotEnds, KillCertbot, user, OnboardingInv, WizardOK
<1>1. PICK r : /\ DOMAIN r = RequestFields /\ r.at = "answered" /\ certs \subseteq certs'
               /\ r.yes => c["certbot"].dom \in certs'
               /\ call' = [call EXCEPT ![w]["certbot"] = r]
  <2>1. PICK issued \in BOOLEAN :
           /\ Reply(w, "certbot", "ok", c["certbot"].dom, issued)
           /\ certs \subseteq certs' /\ (issued => c["certbot"].dom \in certs')
    <3>1. CASE CertbotEnds(w)
      <4>1. PICK issued \in BOOLEAN :
               /\ certs' = IF issued THEN certs \cup {c["certbot"].dom} ELSE certs
               /\ Reply(w, "certbot", "ok", c["certbot"].dom, issued)
        BY <3>1 DEF CertbotEnds
      <4> QED BY <4>1
    <3>2. CASE KillCertbot(w)
      <4>1. /\ Reply(w, "certbot", "ok", c["certbot"].dom, FALSE) /\ certs \subseteq certs'
        BY <3>2 DEF KillCertbot
      <4> QED BY <4>1
    <3> QED BY <3>1, <3>2
  <2>2. PICK r : /\ r = Response("ok", c["certbot"].dom, issued)
                 /\ call' = [call EXCEPT ![w]["certbot"] = r]
    BY <2>1 DEF Reply, Response
  <2>3. DOMAIN r = RequestFields /\ r.at = "answered" /\ r.yes = issued
    BY <2>2 DEF Response, RequestFields
  <2> QED BY <2>1, <2>2, <2>3
<1>2. ~Idle(r) /\ ~Idle(c["certbot"]) /\ "certbot" \in Ops
  BY <1>0, <1>1, OpsAre DEF Idle
<1> HIDE DEF q, c
<1>3. PICK p : p = q
  OBVIOUS
<1>4. PICK d : d = [c EXCEPT !["certbot"] = r] /\ call' = [call EXCEPT ![w] = d]
  BY <1>0, <1>1, <1>2, OneRequest
<1>5. d["certbot"] = r /\ \A o \in Ops \ {"certbot"} : d[o] = c[o]
  BY <1>0, <1>2, <1>4, Replaced
<1>6. RequestsOK(p, d)
  BY <1>0, <1>1, <1>2, <1>3, <1>4, RequestMoved
<1>7. AccountView(p, d) = AccountView(q, c) /\ SwitchView(p, d) = SwitchView(q, c)
  BY <1>3, <1>5, OpsAre DEF AccountView, SwitchView
<1>8. DomainOK(w, p, d)'
  <2>1. d["tlsStatus"] = c["tlsStatus"] /\ d["getDomain"] = c["getDomain"]
    BY <1>5, OpsAre
  <2>2. setter = {w} => c["certbot"].dom = domain
    BY <1>0 DEF WizardOK, DomainOK
  <2>3. setter = {w} /\ r.yes => domain \in certs'
    BY <1>1, <2>2
  <2> QED BY <1>0, <1>1, <1>3, <1>5, <2>1, <2>3 DEF WizardOK, DomainOK, IsAnswered, IsGood
<1>9. KeysOK(w, p) /\ TokenOK(w, p) /\ CreateOK(p, d) /\ LuckyOK(w, p, d) /\ SwitchOK(w, p, d)
  BY <1>0, <1>7, SameAccount, SameSwitch
<1>10. WizardOK(w, p, d)'
  <2>1. Own(w)' = Own(w) /\ (Created(p, d)' <=> Created(p, d))
    BY <1>0 DEF Own, Created
  <2>2. PageOK(p)
    BY <1>0, <1>3 DEF WizardOK
  <2>3. PageOK(p)' /\ RequestsOK(p, d)'
    BY <1>6, <2>2 DEF PageOK, RequestsOK
  <2>4. KeysOK(w, p)' /\ TokenOK(w, p)' /\ CreateOK(p, d)'
    BY <1>0, <1>9, <2>1 DEF KeysOK, TokenOK, Made, Own, CreateOK
  <2>5. LuckyOK(w, p, d)' /\ SwitchOK(w, p, d)'
    BY <1>0, <1>9, <2>1 DEF LuckyOK, SwitchOK, Sole
  <2> QED BY <1>8, <2>3, <2>4, <2>5 DEF WizardOK
<1>11. gens \in [Wizards -> Nat] /\ DOMAIN files = Wizards /\ DOMAIN mishaps = Wizards
       /\ files[w] \subseteq Own(w) /\ Own(w)' = Own(w)
  BY <1>0 DEF OnboardingInv, HistoryOK, Own
<1>12. AccountsOK'
  BY <1>0, <1>11, AccountsOKKeeps
<1>13. page' = [page EXCEPT ![w] = p]
  BY <1>0, <1>3, OneRequest
<1>14. /\ \A u \in Wizards \ {w} :
             gens'[u] = gens[u] /\ files'[u] = files[u] /\ mishaps'[u] = mishaps[u]
       /\ \A u \in Wizards \ {w}, e \in Emails :
             \/ account'[e] = account[e]
             \/ account[e].keys \notin Own(u) /\ account'[e].keys \notin Own(u)
       /\ open' = open /\ gens' \in [Wizards -> Nat] /\ DOMAIN files' = Wizards
       /\ files'[w] \subseteq Own(w)' /\ DOMAIN mishaps' = Wizards
  BY <1>0, <1>11
<1>15. Grows
  BY <1>0, StillGrows
<1> QED BY <1>0, <1>1, <1>4, <1>10, <1>12, <1>13, <1>14, <1>15, WizardStep

(* Keys are made: nobody has had them before.                               *)
LEMMA GenerateKeeps ==
    ASSUME OnboardingInv, NEW w \in Wizards, Generate(w)
    PROVE  OnboardingInv'
<1> DEFINE q == page[w]
           c == call[w]
<1>0. /\ UNCHANGED <<account, domain, open, certs, setter, files, mishaps>>
      /\ gens' = [gens EXCEPT ![w] = @ + 1] /\ gens \in [Wizards -> Nat]
      /\ WizardOK(w, q, c) /\ PageOK(q) /\ RequestsOK(q, c) /\ q = page[w] /\ c = call[w]
      /\ q.step = 7 /\ q.mode # "loading" /\ ~q.keyError /\ ~q.started
  BY DEF Generate, install, OnStep, OnboardingInv, HistoryOK, WizardOK
<1>1. PICK n : n = <<w, gens[w] + 1>>
  OBVIOUS
<1>2. /\ gens[w] \in Nat /\ gens'[w] = gens[w] + 1
      /\ \A v \in Wizards \ {w} : gens'[v] = gens[v]
      /\ gens' \in [Wizards -> Nat]
  BY <1>0
<1>3. \A v \in Wizards : gens'[v] \in Nat /\ gens'[v] >= gens[v]
  BY <1>0, <1>2
<1>4. \A v \in Wizards : n \notin Own(v)
  BY <1>1, <1>2 DEF Own
<1>5. Own(w)' = Own(w) \cup {n}
  <2>1. 1..gens'[w] = 1..gens[w] \cup {gens[w] + 1}
    BY <1>2
  <2> QED BY <1>1, <2>1 DEF Own
<1>6. n \in Own(w)' /\ n # NoBundle
  <2>1. n # NoBundle
    BY <1>1, <1>2, OnboardingAssumption
  <2> QED BY <1>5, <2>1
<1>7. \A e \in Emails : account[e].keys # n
  BY <1>4, <1>6 DEF OnboardingInv, AccountsOK
<1>8. PICK p : p = [q EXCEPT !.started = TRUE, !.ready = @ \cup {n}] /\ Stay(w, p, {})
  BY <1>1 DEF Generate, NewKeys
<1> HIDE DEF q, c
<1>9. /\ DOMAIN p = PageFields /\ p.started = TRUE /\ p.ready = q.ready \cup {n}
      /\ p.mode = q.mode /\ p.step = q.step /\ p.email = q.email /\ p.keys = q.keys
      /\ p.keyError = q.keyError /\ p.downloaded = q.downloaded /\ p.shown = q.shown
      /\ p.tls = q.tls /\ p.trigger = q.trigger /\ p.enabled = q.enabled
      /\ p.token = q.token /\ p.mail = q.mail /\ p.status = q.status
  BY <1>0, <1>8 DEF PageOK, PageFields
<1>10. PICK d : d = UsedUp(c, {}) /\ \A o \in Ops : d[o] = c[o]
  BY UsedAre
<1>11. page' = [page EXCEPT ![w] = p] /\ call' = [call EXCEPT ![w] = d]
  BY <1>0, <1>8, <1>10, Stays
<1>12. RequestsOK(p, d) /\ PageOK(p)
  BY <1>0, <1>9, <1>10, UsedOK DEF PageOK
<1>13. DomainView(p, d) = DomainView(q, c)
  BY <1>9, <1>10, OpsAre DEF DomainView
<1>14. DomainOK(w, p, d)
  BY <1>0, <1>13, SameDomain
<1>15. p.ready = {n} /\ p.step = 7
  BY <1>0, <1>9 DEF WizardOK, KeysOK
<1>16. KeysOK(w, p)'
  <2>1. p.keys = NoBundle /\ p.email \in Emails /\ ~p.keyError
    BY <1>0, <1>9 DEF WizardOK, KeysOK
  <2>2. \A e \in Emails : account'[e].keys # n
    BY <1>0, <1>7
  <2> QED BY <1>6, <1>9, <1>15, <2>1, <2>2 DEF KeysOK
<1>17. TokenOK(w, p)'
  BY <1>0, <1>9 DEF WizardOK, TokenOK
<1>18. /\ Idle(d["create"]) /\ Idle(d["login"]) /\ Idle(d["confirm"]) /\ Idle(d["mail"])
       /\ Idle(d["regWrite"]) /\ p.status = "idle"
  BY <1>0, <1>9, <1>10, OpsAre DEF RequestsOK, PageOK, Inbox
<1>19. CreateOK(p, d)'
  BY <1>18 DEF CreateOK, Idle, IsGood
<1>20. LuckyOK(w, p, d)'
  <2>1. \A e \in Emails : mishaps[w] = {} => account'[e].keys \notin Own(w)'
    BY <1>0, <1>5, <1>7 DEF WizardOK, LuckyOK
  <2> QED BY <1>0, <1>9, <1>15, <1>18, <2>1 DEF WizardOK, LuckyOK, Idle, IsAnswered, Inbox
<1>21. DomainOK(w, p, d)' /\ SwitchOK(w, p, d)'
  BY <1>0, <1>14, <1>15, <1>18 DEF DomainOK, SwitchOK
<1>22. WizardOK(w, p, d)'
  BY <1>12, <1>16, <1>17, <1>19, <1>20, <1>21 DEF WizardOK, PageOK, RequestsOK
<1>23. AccountsOK'
  BY <1>0, <1>3, AccountsOKKeeps
<1>24. /\ \A u \in Wizards \ {w} :
             gens'[u] = gens[u] /\ files'[u] = files[u] /\ mishaps'[u] = mishaps[u]
       /\ \A u \in Wizards \ {w}, e \in Emails :
             \/ account'[e] = account[e]
             \/ account[e].keys \notin Own(u) /\ account'[e].keys \notin Own(u)
       /\ open' = open /\ gens' \in [Wizards -> Nat] /\ DOMAIN files' = Wizards
       /\ files'[w] \subseteq Own(w)' /\ DOMAIN mishaps' = Wizards
  BY <1>0, <1>2, <1>5 DEF OnboardingInv, HistoryOK
<1>25. Grows
  BY <1>0, <1>3 DEF Grows
<1> QED BY <1>0, <1>11, <1>22, <1>23, <1>24, <1>25, WizardStep

(* The backup is downloaded.                                                *)
LEMMA DownloadKeeps ==
    ASSUME OnboardingInv, NEW w \in Wizards, Download(w)
    PROVE  OnboardingInv'
<1> DEFINE q == page[w]
           c == call[w]
<1>0. /\ UNCHANGED <<account, domain, open, certs, setter, gens, mishaps>>
      /\ files' = [files EXCEPT ![w] = @ \cup {q.keys}]
      /\ gens \in [Wizards -> Nat] /\ DOMAIN files = Wizards /\ files[w] \subseteq Own(w)
      /\ WizardOK(w, q, c) /\ PageOK(q) /\ RequestsOK(q, c) /\ q = page[w] /\ c = call[w]
      /\ q.step = 8 /\ q.mode # "loading"
  BY DEF Download, install, OnStep, OnboardingInv, HistoryOK, WizardOK
<1>1. PICK p : p = [q EXCEPT !.downloaded = TRUE] /\ Stay(w, p, {})
  BY DEF Download
<1> HIDE DEF q, c
<1>2. /\ files'[w] = files[w] \cup {q.keys} /\ DOMAIN files' = Wizards
      /\ \A u \in Wizards \ {w} : files'[u] = files[u]
      /\ Own(w)' = Own(w) /\ q.keys \in Own(w)
  BY <1>0 DEF Own, WizardOK, KeysOK
<1>3. /\ DOMAIN p = PageFields /\ p.started = q.started /\ p.ready = q.ready
      /\ p.mode = q.mode /\ p.step = q.step /\ p.email = q.email /\ p.keys = q.keys
      /\ p.keyError = q.keyError /\ p.shown = q.shown
      /\ p.tls = q.tls /\ p.trigger = q.trigger /\ p.enabled = q.enabled
      /\ p.token = q.token /\ p.mail = q.mail /\ p.status = q.status
  BY <1>0, <1>1 DEF PageOK, PageFields
<1>4. PICK d : d = UsedUp(c, {}) /\ \A o \in Ops : d[o] = c[o]
  BY UsedAre
<1>5. page' = [page EXCEPT ![w] = p] /\ call' = [call EXCEPT ![w] = d]
  BY <1>0, <1>1, <1>4, Stays
<1>6. RequestsOK(p, d) /\ PageOK(p)
  BY <1>0, <1>3, <1>4, UsedOK DEF PageOK
<1>7. DomainView(p, d) = DomainView(q, c) /\ SwitchView(p, d) = SwitchView(q, c)
  BY <1>3, <1>4, OpsAre DEF DomainView, SwitchView
<1>8. DomainOK(w, p, d) /\ SwitchOK(w, p, d)
  BY <1>0, <1>7, SameDomain, SameSwitch
<1>9. DomainOK(w, p, d)' /\ SwitchOK(w, p, d)'
  BY <1>0, <1>2, <1>8 DEF DomainOK, SwitchOK, Sole
<1>10. KeysOK(w, p)'
  BY <1>0, <1>2, <1>3 DEF WizardOK, KeysOK
<1>11. TokenOK(w, p)'
  BY <1>0, <1>3 DEF WizardOK, TokenOK
<1>12. /\ d["create"] = c["create"] /\ d["login"] = c["login"] /\ d["confirm"] = c["confirm"]
       /\ d["mail"] = c["mail"]
  BY <1>4, OpsAre
<1>13. CreateOK(p, d)'
  BY <1>0, <1>3, <1>12 DEF WizardOK, CreateOK
<1>14. LuckyOK(w, p, d)'
  <2>1. Created(p, d)' <=> Created(q, c)
    BY <1>3, <1>12 DEF Created
  <2> QED BY <1>0, <1>2, <1>3, <1>12, <2>1 DEF WizardOK, LuckyOK
<1>15. WizardOK(w, p, d)'
  BY <1>6, <1>9, <1>10, <1>11, <1>13, <1>14 DEF WizardOK, PageOK, RequestsOK
<1>16. \A v \in Wizards : gens'[v] \in Nat /\ gens'[v] >= gens[v] /\ files[v] \subseteq files'[v]
  BY <1>0, <1>2
<1>17. AccountsOK'
  BY <1>0, <1>16, AccountsOKKeeps
<1>18. /\ \A u \in Wizards \ {w} :
             gens'[u] = gens[u] /\ files'[u] = files[u] /\ mishaps'[u] = mishaps[u]
       /\ \A u \in Wizards \ {w}, e \in Emails :
             \/ account'[e] = account[e]
             \/ account[e].keys \notin Own(u) /\ account'[e].keys \notin Own(u)
       /\ open' = open /\ gens' \in [Wizards -> Nat] /\ DOMAIN files' = Wizards
       /\ files'[w] \subseteq Own(w)' /\ DOMAIN mishaps' = Wizards
  BY <1>0, <1>2 DEF OnboardingInv, HistoryOK
<1>19. Grows
  BY <1>0, StillGrows
<1> QED BY <1>0, <1>5, <1>15, <1>17, <1>18, <1>19, WizardStep

-----------------------------------------------------------------------------
(* The row is inserted, unless the address has been taken meanwhile.        *)
LEMMA InsertUserKeeps ==
    ASSUME OnboardingInv, NEW w \in Wizards, InsertUser(w)
    PROVE  OnboardingInv'
<1> DEFINE q == page[w]
           c == call[w]
<1>0. /\ UNCHANGED <<domain, open, certs, setter, page, files, gens, mishaps>>
      /\ WizardOK(w, q, c) /\ PageOK(q) /\ RequestsOK(q, c) /\ q = page[w] /\ c = call[w]
      /\ c["create"].at \in {"first", "later"}
  BY DEF InsertUser, user, OnboardingInv, WizardOK
<1>1. ~Idle(c["create"]) /\ ~IsAnswered(c["create"]) /\ ~IsGood(c["create"]) /\ "create" \in Ops
  BY <1>0, OpsAre DEF Idle, IsAnswered, IsGood
<1>2. CASE account[q.email].keys # NoBundle
  <2>1. Reply(w, "create", "refused", NoDomain, FALSE) /\ UNCHANGED account
    BY <1>2 DEF InsertUser
  <2>2. PICK r : r = Response("refused", NoDomain, FALSE) /\ call' = [call EXCEPT ![w]["create"] = r]
    BY <2>1 DEF Reply, Response
  <2>3. DOMAIN r = RequestFields /\ ~Idle(r) /\ ~IsGood(r)
    BY <2>2 DEF Response, RequestFields, Idle, IsGood
  <2>4. UNCHANGED <<install, page, user, mishaps>>
    BY <1>0, <2>1 DEF install, user
  <2> QED BY <1>0, <1>1, <2>2, <2>3, <2>4, AccountRequest
<1>3. CASE account[q.email].keys = NoBundle
  <2>0. /\ q.step = 9 /\ q.status = "creating" /\ Idle(c["login"]) /\ Idle(c["confirm"])
        /\ q.email \in Emails /\ q.keys \in Own(w) /\ q.keys \in files[w] /\ q.ready = {}
        /\ \A e \in Emails : account[e].keys = q.keys => e = q.email
        /\ Idle(c["mail"])
    BY <1>0, <1>1 DEF RequestsOK, WizardOK, KeysOK, Inbox
  <2>1. \A u \in Wizards : NoBundle \notin Own(u) /\ (u # w => q.keys \notin Own(u))
    BY <2>0, OnboardingAssumption DEF Own, OnboardingInv, HistoryOK
  <2>2. PICK x : account' = [account EXCEPT ![q.email] = [keys |-> q.keys, confirmed |-> FALSE, admin |-> x]]
    BY <1>3 DEF InsertUser
  <2>3. PICK a : /\ account' = [account EXCEPT ![q.email] = a] /\ a.keys = q.keys
                 /\ DOMAIN a = {"keys", "confirmed", "admin"} /\ a.confirmed = FALSE
    <3>1. PICK a : a = [keys |-> q.keys, confirmed |-> FALSE, admin |-> x]
      OBVIOUS
    <3>2. a.keys = q.keys /\ a.confirmed = FALSE
          /\ DOMAIN a = {"keys", "confirmed", "admin"}
      BY <3>1
    <3> QED BY <2>2, <3>1, <3>2
  <2>4. PICK r : r = Response("ok", NoDomain, TRUE) /\ call' = [call EXCEPT ![w]["create"] = r]
    BY <1>3 DEF InsertUser, Reply, Response
  <2>5. DOMAIN r = RequestFields /\ ~Idle(r) /\ IsGood(r)
    BY <2>4 DEF Response, RequestFields, Idle, IsGood
  <2> HIDE DEF q, c
  <2>6. PICK p : p = q
    OBVIOUS
  <2>7. PICK d : d = [c EXCEPT !["create"] = r] /\ call' = [call EXCEPT ![w] = d]
    BY <1>0, <1>1, <2>4, OneRequest
  <2>8. d["create"] = r /\ \A o \in Ops \ {"create"} : d[o] = c[o]
    BY <1>0, <1>1, <2>7, Replaced
  <2>9. RequestsOK(p, d)
    BY <1>0, <1>1, <2>5, <2>6, <2>7, RequestMoved
  <2>10. DomainView(p, d) = DomainView(q, c)
    BY <2>6, <2>8, OpsAre DEF DomainView
  <2>11. DomainOK(w, p, d)
    BY <1>0, <2>10, SameDomain
  <2>12. /\ AccountsOK /\ DOMAIN account' = Emails /\ account'[q.email] = a
         /\ \A e \in Emails \ {q.email} : account'[e] = account[e]
    BY <2>0, <2>3 DEF OnboardingInv, AccountsOK
  <2>13. \A u \in Wizards : Own(u)' = Own(u)
    BY <1>0 DEF Own
  <2>14. \A e \in Emails : account[e].admin => account[e].keys # NoBundle
    BY <2>12 DEF AccountsOK
  <2>16. KeysOK(w, p)'
    <3>1. \A e \in Emails : account'[e].keys = q.keys => e = q.email
      BY <2>0, <2>12
    <3> QED BY <1>0, <2>0, <2>6, <2>13, <3>1 DEF WizardOK, KeysOK
  <2>17. TokenOK(w, p)'
    <3>1. p.token = NoEmail
      BY <1>0, <1>3, <2>0, <2>1, <2>6 DEF WizardOK, TokenOK
    <3> QED BY <2>0, <2>6, <3>1 DEF TokenOK
  <2>18. Idle(d["login"]) /\ Idle(d["confirm"]) /\ Idle(d["mail"])
    BY <2>0, <2>8, OpsAre
  <2>19. CreateOK(p, d)'
    BY <2>0, <2>3, <2>6, <2>12, <2>18 DEF CreateOK
  <2>20. LuckyOK(w, p, d)'
    <3>1. ~Created(q, c)
      BY <1>1, <2>0 DEF Created
    <3>2. \A e \in Emails \ {q.email} : mishaps[w] = {} => account[e].keys \notin Own(w)
      <4>1. q.step <= 9
        BY <2>0
      <4> QED BY <1>0, <3>1, <4>1 DEF WizardOK, LuckyOK
    <3>3. \A e \in Emails : mishaps[w] = {} /\ account'[e].keys \in Own(w) => account'[e].keys = q.keys
      BY <2>3, <2>12, <3>2
    <3>4. Created(p, d)'
      BY <2>5, <2>8 DEF Created
    <3>5. ~IsAnswered(d["login"]) /\ ~IsAnswered(d["confirm"]) /\ ~IsAnswered(d["mail"])
      BY <2>18 DEF Idle, IsAnswered
    <3> QED BY <1>0, <2>0, <2>6, <2>13, <3>3, <3>4, <3>5 DEF LuckyOK, Inbox
  <2>21. SwitchOK(w, p, d)'
    <3>0. PICK m : m = q.email
      OBVIOUS
    <3>1. Sole(m)' => open
      <4>1. Sole(m)' => \A e \in Emails : ~account[e].admin
        BY <1>3, <2>0, <2>12, <2>14, <3>0 DEF Sole
      <4> QED BY <2>12, <4>1 DEF AccountsOK
    <3>2. \A e \in Emails : account'[e].keys = q.keys => e = q.email
      BY <2>0, <2>12
    <3>3. \A e \in Emails : Sole(e)' /\ account'[e].keys = q.keys => open
      BY <3>0, <3>1, <3>2
    <3>4. Idle(d["regWrite"])
      BY <1>0, <2>0, <2>8, OpsAre DEF RequestsOK
    <3> QED BY <1>0, <2>0, <2>6, <3>3, <3>4 DEF SwitchOK
  <2>22. WizardOK(w, p, d)'
    <3>1. PageOK(p)' /\ RequestsOK(p, d)' /\ DomainOK(w, p, d)'
      BY <1>0, <2>6, <2>9, <2>11 DEF PageOK, RequestsOK, DomainOK
    <3> QED BY <2>16, <2>17, <2>19, <2>20, <2>21, <3>1 DEF WizardOK
  <2>23. AccountsOK'
    <3>1. ASSUME NEW e \in Emails
          PROVE  /\ DOMAIN account'[e] = {"keys", "confirmed", "admin"}
                 /\ account'[e].keys # NoBundle => \E v \in Wizards : account'[e].keys \in Own(v)
                 /\ account'[e].confirmed => \E v \in Wizards : account'[e].keys \in files[v]
                 /\ account'[e].admin => account'[e].keys # NoBundle
      <4>1. CASE e = q.email
        BY <2>0, <2>1, <2>3, <2>12, <4>1
      <4>2. CASE e # q.email
        BY <2>12, <4>2 DEF AccountsOK
      <4> QED BY <4>1, <4>2
    <3>3. (\A e \in Emails : ~account'[e].admin) => open
      <4>1. ~account[q.email].admin
        BY <1>3, <2>0, <2>14
      <4> QED BY <2>12, <4>1 DEF AccountsOK
    <3>4. open \in BOOLEAN
      BY <2>12 DEF AccountsOK
    <3> QED BY <1>0, <2>12, <2>13, <3>1, <3>3, <3>4 DEF AccountsOK
  <2>24. page' = [page EXCEPT ![w] = p]
    BY <1>0, <2>6, OneRequest
  <2>25. /\ \A u \in Wizards \ {w} :
               gens'[u] = gens[u] /\ files'[u] = files[u] /\ mishaps'[u] = mishaps[u]
         /\ \A u \in Wizards \ {w}, e \in Emails :
               \/ account'[e] = account[e]
               \/ account[e].keys \notin Own(u) /\ account'[e].keys \notin Own(u)
         /\ open' = open /\ gens' \in [Wizards -> Nat] /\ DOMAIN files' = Wizards
         /\ files'[w] \subseteq Own(w)' /\ DOMAIN mishaps' = Wizards
    <3>1. \A u \in Wizards \ {w}, e \in Emails :
             \/ account'[e] = account[e]
             \/ account[e].keys \notin Own(u) /\ account'[e].keys \notin Own(u)
      BY <1>3, <2>1, <2>3, <2>12
    <3>2. gens \in [Wizards -> Nat] /\ DOMAIN files = Wizards /\ files[w] \subseteq Own(w)
          /\ DOMAIN mishaps = Wizards
      BY DEF OnboardingInv, HistoryOK
    <3> QED BY <1>0, <2>13, <3>1, <3>2
  <2>26. Grows
    <3>1. ~account[q.email].admin
      BY <1>3, <2>0, <2>14
    <3> QED BY <1>0, <1>3, <2>0, <2>12, <3>1 DEF Grows, OnboardingInv, HistoryOK
  <2> QED BY <1>0, <2>7, <2>22, <2>23, <2>24, <2>25, <2>26, WizardStep
<1> QED BY <1>2, <1>3

(* The backup is confirmed: its keys are the account's.                     *)
LEMMA ConfirmKeyExportKeeps ==
    ASSUME OnboardingInv, NEW w \in Wizards, ConfirmKeyExport(w)
    PROVE  OnboardingInv'
<1> DEFINE q == page[w]
           c == call[w]
<1>0. /\ UNCHANGED <<domain, open, certs, setter, page, files, gens, mishaps>>
      /\ WizardOK(w, q, c) /\ PageOK(q) /\ RequestsOK(q, c) /\ q = page[w] /\ c = call[w]
      /\ c["confirm"].at = "sent" /\ AccountsOK
      /\ account' = [account EXCEPT ![q.token].confirmed = TRUE]
  BY DEF ConfirmKeyExport, user, OnboardingInv, WizardOK
<1>1. ~Idle(c["confirm"]) /\ "confirm" \in Ops
  BY <1>0, OpsAre DEF Idle
<1>2. /\ q.step = 9 /\ q.status = "creating" /\ Idle(c["create"]) /\ Idle(c["login"])
      /\ q.email \in Emails /\ q.token = q.email /\ q.keys \in Own(w) /\ q.keys \in files[w]
      /\ Idle(c["mail"]) /\ NoEmail \notin Emails
  BY <1>0, <1>1, OnboardingAssumption DEF RequestsOK, WizardOK, KeysOK, CreateOK, Inbox
<1>3. account[q.email].keys = q.keys
  BY <1>0, <1>2 DEF WizardOK, TokenOK
<1>4. PICK r : r = Response("ok", NoDomain, TRUE) /\ call' = [call EXCEPT ![w]["confirm"] = r]
  BY DEF ConfirmKeyExport, Reply, Response
<1>5. DOMAIN r = RequestFields /\ ~Idle(r) /\ r.got = "ok"
  BY <1>4 DEF Response, RequestFields, Idle
<1> HIDE DEF q, c
<1>6. PICK a : /\ a.keys = q.keys /\ DOMAIN a = {"keys", "confirmed", "admin"}
               /\ a.confirmed = TRUE /\ a.admin = account[q.email].admin
               /\ DOMAIN account' = Emails /\ account'[q.email] = a
               /\ \A e \in Emails \ {q.email} : account'[e] = account[e]
  <2> DEFINE a == [account[q.email] EXCEPT !.confirmed = TRUE]
  <2>1. account' = [account EXCEPT ![q.email] = a]
    BY <1>0, <1>2
  <2>2. a.keys = q.keys /\ DOMAIN a = {"keys", "confirmed", "admin"}
        /\ a.confirmed = TRUE /\ a.admin = account[q.email].admin
    BY <1>0, <1>2, <1>3 DEF AccountsOK
  <2> HIDE DEF a
  <2>3. DOMAIN account' = Emails /\ account'[q.email] = a
        /\ \A e \in Emails \ {q.email} : account'[e] = account[e]
    BY <1>0, <1>2, <2>1 DEF AccountsOK
  <2> QED BY <2>2, <2>3
<1>7. PICK p : p = q
  OBVIOUS
<1>8. PICK d : d = [c EXCEPT !["confirm"] = r] /\ call' = [call EXCEPT ![w] = d]
  BY <1>0, <1>1, <1>4, OneRequest
<1>9. d["confirm"] = r /\ \A o \in Ops \ {"confirm"} : d[o] = c[o]
  BY <1>0, <1>1, <1>8, Replaced
<1>10. RequestsOK(p, d)
  BY <1>0, <1>1, <1>5, <1>7, <1>8, RequestMoved
<1>11. DomainView(p, d) = DomainView(q, c)
  BY <1>7, <1>9, OpsAre DEF DomainView
<1>12. DomainOK(w, p, d)
  BY <1>0, <1>11, SameDomain
<1>13. \A u \in Wizards : Own(u)' = Own(u)
  BY <1>0 DEF Own
<1>14. \A e \in Emails : account'[e].keys = account[e].keys /\ account'[e].admin = account[e].admin
  BY <1>3, <1>6
<1>15. KeysOK(w, p)'
  BY <1>0, <1>7, <1>13, <1>14 DEF WizardOK, KeysOK
<1>14a. Grows
  BY <1>0, <1>14 DEF Grows, OnboardingInv, HistoryOK
<1>16. TokenOK(w, p)'
  BY <1>0, <1>2, <1>7, <1>14, <1>14a, MadeGrows DEF WizardOK, TokenOK
<1>17. Idle(d["create"]) /\ Idle(d["login"]) /\ Idle(d["mail"]) /\ ~Idle(d["confirm"])
  BY <1>2, <1>5, <1>9, OpsAre
<1>18. CreateOK(p, d)'
  BY <1>2, <1>7, <1>17 DEF CreateOK, Idle, IsGood
<1>19. LuckyOK(w, p, d)'
  <2>1. Created(p, d)'
    BY <1>17 DEF Created
  <2>2. ~IsAnswered(d["login"]) /\ ~IsAnswered(d["mail"]) /\ d["confirm"].got = "ok"
    BY <1>5, <1>9, <1>17 DEF Idle, IsAnswered
  <2>3. account'[p.token].confirmed
    BY <1>2, <1>6, <1>7
  <2>4. \A e \in Emails : mishaps[w] = {} /\ account[e].keys \in Own(w) => account[e].keys = q.keys
    BY <1>0, <1>2 DEF WizardOK, LuckyOK
  <2> QED BY <1>0, <1>2, <1>7, <1>13, <1>14, <2>1, <2>2, <2>3, <2>4 DEF LuckyOK, Inbox
<1>20. SwitchOK(w, p, d)'
  <2>1. \A e \in Emails : Sole(e)' <=> Sole(e)
    BY <1>14 DEF Sole
  <2>2. Idle(d["regWrite"])
    BY <1>0, <1>2, <1>9, OpsAre DEF RequestsOK
  <2> QED BY <1>0, <1>2, <1>7, <1>14, <2>1, <2>2 DEF WizardOK, SwitchOK
<1>21. WizardOK(w, p, d)'
  <2>1. PageOK(p)' /\ RequestsOK(p, d)' /\ DomainOK(w, p, d)'
    BY <1>0, <1>7, <1>10, <1>12 DEF PageOK, RequestsOK, DomainOK
  <2> QED BY <1>15, <1>16, <1>18, <1>19, <1>20, <2>1 DEF WizardOK
<1>22. AccountsOK'
  <2>1. ASSUME NEW e \in Emails
        PROVE  /\ DOMAIN account'[e] = {"keys", "confirmed", "admin"}
               /\ account'[e].keys # NoBundle => \E v \in Wizards : account'[e].keys \in Own(v)
               /\ account'[e].confirmed => \E v \in Wizards : account'[e].keys \in files[v]
               /\ account'[e].admin => account'[e].keys # NoBundle
    <3>1. CASE e = q.email
      BY <1>0, <1>2, <1>3, <1>6, <3>1 DEF AccountsOK
    <3>2. CASE e # q.email
      BY <1>0, <1>6, <3>2 DEF AccountsOK
    <3> QED BY <3>1, <3>2
  <2> QED BY <1>0, <1>6, <1>13, <1>14, <2>1 DEF AccountsOK
<1>23. page' = [page EXCEPT ![w] = p]
  BY <1>0, <1>7, OneRequest
<1>24. /\ \A u \in Wizards \ {w} :
             gens'[u] = gens[u] /\ files'[u] = files[u] /\ mishaps'[u] = mishaps[u]
       /\ \A u \in Wizards \ {w}, e \in Emails :
             \/ account'[e] = account[e]
             \/ account[e].keys \notin Own(u) /\ account'[e].keys \notin Own(u)
       /\ open' = open /\ gens' \in [Wizards -> Nat] /\ DOMAIN files' = Wizards
       /\ files'[w] \subseteq Own(w)' /\ DOMAIN mishaps' = Wizards
  <2>1. \A u \in Wizards \ {w} : q.keys \notin Own(u)
    BY <1>2 DEF Own
  <2>2. \A u \in Wizards \ {w}, e \in Emails :
           \/ account'[e] = account[e]
           \/ account[e].keys \notin Own(u) /\ account'[e].keys \notin Own(u)
    BY <1>3, <1>6, <2>1
  <2>3. gens \in [Wizards -> Nat] /\ DOMAIN files = Wizards /\ files[w] \subseteq Own(w)
        /\ DOMAIN mishaps = Wizards
    BY DEF OnboardingInv, HistoryOK
  <2> QED BY <1>0, <1>13, <2>2, <2>3
<1> QED BY <1>0, <1>8, <1>21, <1>22, <1>23, <1>24, <1>14a, WizardStep

(* The switch is the administrator's.                                       *)
LEMMA ServeToggleKeeps ==
    ASSUME OnboardingInv, NEW w \in Wizards, ServeToggle(w)
    PROVE  OnboardingInv'
<1> DEFINE q == page[w]
           c == call[w]
<1>0. /\ UNCHANGED <<account, domain, certs, setter, page, files, gens, mishaps>>
      /\ WizardOK(w, q, c) /\ PageOK(q) /\ RequestsOK(q, c) /\ q = page[w] /\ c = call[w]
      /\ c["regWrite"].at = "sent" /\ AccountsOK
  BY DEF ServeToggle, user, OnboardingInv, WizardOK
<1>1. ~Idle(c["regWrite"]) /\ ~IsGood(c["regWrite"]) /\ "regWrite" \in Ops
      /\ c["regWrite"].yes \in BOOLEAN
  BY <1>0, OpsAre DEF Idle, IsGood, RequestsOK
<1>2. /\ q.step \in {10, Inbox} /\ Idle(c["regRead"])
      /\ q.token \in Emails /\ account[q.token].keys \in Own(w)
  BY <1>0, <1>1 DEF RequestsOK, WizardOK, TokenOK, SwitchOK, PageOK, Inbox
<1>3. PICK r : /\ call' = [call EXCEPT ![w]["regWrite"] = r]
               /\ DOMAIN r = RequestFields /\ ~Idle(r) /\ r.yes = c["regWrite"].yes
               /\ IF account[q.token].admin THEN open' = r.yes /\ IsGood(r)
                                            ELSE open' = open
  <2>1. CASE account[q.token].admin
    <3>1. PICK r : /\ r = Response("ok", NoDomain, c["regWrite"].yes)
                   /\ call' = [call EXCEPT ![w]["regWrite"] = r]
                   /\ open' = c["regWrite"].yes
      BY <2>1 DEF ServeToggle, Reply, Response
    <3>2. DOMAIN r = RequestFields /\ ~Idle(r) /\ r.yes = c["regWrite"].yes /\ IsGood(r)
      BY <3>1 DEF Response, RequestFields, Idle, IsGood
    <3> QED BY <2>1, <3>1, <3>2
  <2>2. CASE ~account[q.token].admin
    <3>1. PICK r : /\ r = Response("refused", NoDomain, c["regWrite"].yes)
                   /\ call' = [call EXCEPT ![w]["regWrite"] = r]
                   /\ open' = open
      BY <2>2 DEF ServeToggle, Reply, Response
    <3>2. DOMAIN r = RequestFields /\ ~Idle(r) /\ r.yes = c["regWrite"].yes
      BY <3>1 DEF Response, RequestFields, Idle
    <3> QED BY <2>2, <3>1, <3>2
  <2> QED BY <2>1, <2>2
<1> HIDE DEF q, c
<1>4. PICK p : p = q
  OBVIOUS
<1>5. PICK d : d = [c EXCEPT !["regWrite"] = r] /\ call' = [call EXCEPT ![w] = d]
  BY <1>0, <1>1, <1>3, OneRequest
<1>6. d["regWrite"] = r /\ \A o \in Ops \ {"regWrite"} : d[o] = c[o]
  BY <1>0, <1>1, <1>5, Replaced
<1>7. RequestsOK(p, d)
  BY <1>0, <1>1, <1>3, <1>4, <1>5, RequestMoved
<1>8. AccountView(p, d) = AccountView(q, c) /\ DomainView(p, d) = DomainView(q, c)
  BY <1>4, <1>6, OpsAre DEF AccountView, DomainView
<1>9. /\ KeysOK(w, p) /\ TokenOK(w, p) /\ CreateOK(p, d) /\ LuckyOK(w, p, d) /\ DomainOK(w, p, d)
  BY <1>0, <1>8, SameAccount, SameDomain
<1>10. SwitchOK(w, p, d)'
  <2>1. Idle(d["regRead"]) /\ ~IsGood(d["regRead"])
    BY <1>2, <1>6, OpsAre DEF Idle, IsGood
  <2>2. p.step = 10 /\ account'[p.token].admin => d["regWrite"].yes = open' /\ IsGood(d["regWrite"])
    BY <1>0, <1>3, <1>4, <1>6
  <2>3. account'[p.token].keys \in Own(w)'
    BY <1>0, <1>2, <1>4 DEF Own
  <2> QED BY <1>2, <1>3, <1>4, <1>6, <2>1, <2>2, <2>3 DEF SwitchOK, Inbox
<1>11. WizardOK(w, p, d)'
  <2>1. Own(w)' = Own(w) /\ (Created(p, d)' <=> Created(p, d))
    BY <1>0 DEF Own, Created
  <2>2. PageOK(p)' /\ RequestsOK(p, d)'
    BY <1>0, <1>4, <1>7 DEF PageOK, RequestsOK
  <2>3. KeysOK(w, p)' /\ TokenOK(w, p)' /\ CreateOK(p, d)'
    BY <1>0, <1>9, <2>1 DEF KeysOK, TokenOK, Made, Own, CreateOK
  <2>4. LuckyOK(w, p, d)' /\ DomainOK(w, p, d)'
    BY <1>0, <1>9, <2>1 DEF LuckyOK, DomainOK
  <2> QED BY <1>10, <2>2, <2>3, <2>4 DEF WizardOK
<1>12. \A u \in Wizards : Own(u)' = Own(u)
  BY <1>0 DEF Own
<1>13. AccountsOK'
  <2>1. open' \in BOOLEAN
    BY <1>0, <1>1, <1>3 DEF AccountsOK
  <2>2. (\A e \in Emails : ~account[e].admin) => open'
    BY <1>0, <1>2, <1>3 DEF AccountsOK
  <2> QED BY <1>0, <1>12, <2>1, <2>2 DEF AccountsOK
<1>14. page' = [page EXCEPT ![w] = p]
  BY <1>0, <1>4, OneRequest
<1>15. /\ \A u \in Wizards \ {w} :
             gens'[u] = gens[u] /\ files'[u] = files[u] /\ mishaps'[u] = mishaps[u]
       /\ \A u \in Wizards \ {w}, e \in Emails :
             \/ account'[e] = account[e]
             \/ account[e].keys \notin Own(u) /\ account'[e].keys \notin Own(u)
       /\ \/ open' = open
          \/ \A u \in Wizards \ {w}, e \in Emails :
                account[e].admin /\ Sole(e) => account[e].keys \notin Own(u)
       /\ gens' \in [Wizards -> Nat] /\ DOMAIN files' = Wizards
       /\ files'[w] \subseteq Own(w)' /\ DOMAIN mishaps' = Wizards
  <2>1. \A u \in Wizards \ {w} : account[q.token].keys \notin Own(u)
    BY <1>2 DEF Own
  <2>2. account[q.token].admin => \A e \in Emails : Sole(e) => e = q.token
    BY <1>2 DEF Sole
  <2>3. \/ open' = open
        \/ \A u \in Wizards \ {w}, e \in Emails :
              account[e].admin /\ Sole(e) => account[e].keys \notin Own(u)
    BY <1>3, <2>1, <2>2
  <2>4. gens \in [Wizards -> Nat] /\ DOMAIN files = Wizards /\ files[w] \subseteq Own(w)
        /\ DOMAIN mishaps = Wizards
    BY DEF OnboardingInv, HistoryOK
  <2> QED BY <1>0, <1>12, <2>3, <2>4
<1>16. Grows
  BY <1>0, StillGrows
<1> QED BY <1>0, <1>5, <1>11, <1>13, <1>14, <1>15, <1>16, WizardStep

-----------------------------------------------------------------------------
(* What goes wrong: a request that fails, an answer that is lost, a reload. *)
LEMMA SuffersIs ==
    ASSUME OnboardingInv, NEW w \in Wizards, NEW fault, Suffers(w, fault)
    PROVE  /\ mishaps'[w] = mishaps[w] \cup {fault} /\ mishaps'[w] # {} /\ DOMAIN mishaps' = Wizards
           /\ \A u \in Wizards \ {w} : mishaps'[u] = mishaps[u]
BY DEF Suffers, OnboardingInv, HistoryOK

LEMMA MishapStep ==
    ASSUME OnboardingInv, NEW w \in Wizards, UNCHANGED <<install, user>>,
           NEW fault, Suffers(w, fault), NEW p, NEW d,
           page' = [page EXCEPT ![w] = p], call' = [call EXCEPT ![w] = d],
           PageOK(p), RequestsOK(p, d), KeysOK(w, p), TokenOK(w, p), CreateOK(p, d),
           DomainOK(w, p, d), SwitchOK(w, p, d)'
    PROVE  OnboardingInv'
<1>1. /\ UNCHANGED <<account, domain, open, certs, setter, files, gens>>
      /\ mishaps'[w] # {} /\ DOMAIN mishaps' = Wizards
      /\ \A u \in Wizards \ {w} : mishaps'[u] = mishaps[u]
  BY SuffersIs DEF install, user
<1>2. /\ PageOK(p) /\ RequestsOK(p, d) /\ KeysOK(w, p) /\ TokenOK(w, p) /\ CreateOK(p, d)
      /\ DomainOK(w, p, d)
  OBVIOUS
<1>3. \A u \in Wizards : Own(u)' = Own(u)
  BY <1>1 DEF Own
<1>3a. Grows
  BY <1>1 DEF Grows, OnboardingInv, HistoryOK
<1>4. PageOK(p)' /\ RequestsOK(p, d)'
  BY <1>2 DEF PageOK, RequestsOK
<1>5. KeysOK(w, p)' /\ TokenOK(w, p)' /\ CreateOK(p, d)'
  BY <1>1, <1>2, <1>3, <1>3a, MadeGrows DEF KeysOK, TokenOK, CreateOK
<1>6. LuckyOK(w, p, d)' /\ DomainOK(w, p, d)'
  BY <1>1, <1>2 DEF LuckyOK, DomainOK
<1>7. WizardOK(w, p, d)'
  BY <1>4, <1>5, <1>6 DEF WizardOK
<1>8. AccountsOK /\ gens \in [Wizards -> Nat] /\ DOMAIN files = Wizards /\ files[w] \subseteq Own(w)
  BY DEF OnboardingInv, HistoryOK
<1>9. AccountsOK'
  BY <1>1, <1>3, <1>8 DEF AccountsOK
<1>10. /\ \A u \in Wizards \ {w} :
             gens'[u] = gens[u] /\ files'[u] = files[u] /\ mishaps'[u] = mishaps[u]
       /\ \A u \in Wizards \ {w}, e \in Emails :
             \/ account'[e] = account[e]
             \/ account[e].keys \notin Own(u) /\ account'[e].keys \notin Own(u)
       /\ open' = open /\ gens' \in [Wizards -> Nat] /\ DOMAIN files' = Wizards
       /\ files'[w] \subseteq Own(w)' /\ DOMAIN mishaps' = Wizards
  BY <1>1, <1>3, <1>8
<1>11. /\ page' = [page EXCEPT ![w] = p] /\ call' = [call EXCEPT ![w] = d]
  OBVIOUS
<1> QED BY <1>1, <1>7, <1>9, <1>10, <1>11, <1>3a, WizardStep

LEMMA RequestLost ==
    ASSUME OnboardingInv, NEW w \in Wizards, UNCHANGED <<install, page, user>>, NEW op \in Ops,
           NEW fault, Suffers(w, fault), ~Idle(call[w][op]), NEW r,
           call' = [call EXCEPT ![w][op] = r],
           DOMAIN r = RequestFields, r.at = "answered", r.got # "ok", r.yes = call[w][op].yes,
           r.dom = NoDomain \/ (r.dom = call[w][op].dom /\ IsAnswered(call[w][op])),
           fault = "lost" \/ ~IsGood(call[w][op])
    PROVE  OnboardingInv'
<1> DEFINE q == page[w]
           c == call[w]
<1>0. /\ WizardOK(w, q, c) /\ PageOK(q) /\ RequestsOK(q, c) /\ q = page[w] /\ c = call[w]
      /\ ~Idle(c[op]) /\ r.yes = c[op].yes /\ ~Idle(r) /\ ~IsGood(r) /\ IsAnswered(r)
      /\ r.dom = NoDomain \/ (r.dom = c[op].dom /\ IsAnswered(c[op]))
      /\ fault = "lost" \/ ~IsGood(c[op])
  BY DEF OnboardingInv, WizardOK, Idle, IsGood, IsAnswered
<1>1. UNCHANGED <<account, open>> /\ UNCHANGED <<install, user>>
  BY DEF install
<1>2. mishaps'[w] = mishaps[w] \cup {fault}
  BY SuffersIs
<1> HIDE DEF q, c
<1>3. PICK p : p = q
  OBVIOUS
<1>4. PICK d : d = [c EXCEPT ![op] = r] /\ call' = [call EXCEPT ![w] = d]
  BY <1>0, OneRequest
<1>5. d[op] = r /\ \A o \in Ops \ {op} : d[o] = c[o]
  BY <1>0, <1>4, Replaced
<1>6. RequestsOK(p, d)
  <2>1. op \in {"regRead", "regWrite"} => r.yes \in BOOLEAN
    BY <1>0 DEF RequestsOK
  <2> QED BY <1>0, <1>3, <1>4, <2>1, RequestMoved
<1>7. PageOK(p) /\ KeysOK(w, p) /\ TokenOK(w, p)
  BY <1>0, <1>3 DEF WizardOK
<1>8. CreateOK(p, d)
  <2>1. /\ IsGood(d["create"]) => IsGood(c["create"])
        /\ ~Idle(d["login"]) => ~Idle(c["login"])
        /\ ~Idle(d["confirm"]) => ~Idle(c["confirm"])
    BY <1>0, <1>5, OpsAre
  <2> QED BY <1>0, <1>3, <2>1 DEF WizardOK, CreateOK
<1>9. DomainOK(w, p, d)
  <2>1. d["tlsStatus"] = c["tlsStatus"] \/ (op = "tlsStatus" /\ d["tlsStatus"] = r)
    BY <1>5, OpsAre
  <2>2. d["getDomain"] = c["getDomain"] \/ (op = "getDomain" /\ d["getDomain"] = r)
    BY <1>5, OpsAre
  <2>3. d["certbot"] = c["certbot"] \/ (op = "certbot" /\ d["certbot"] = r)
    BY <1>5, OpsAre
  <2> QED BY <1>0, <1>3, <2>1, <2>2, <2>3 DEF WizardOK, DomainOK, IsAnswered, IsGood
<1>10. SwitchOK(w, p, d)'
  <2>1. \/ fault = "lost"
        \/ /\ Idle(d["regRead"]) <=> Idle(c["regRead"])
           /\ Idle(d["regWrite"]) <=> Idle(c["regWrite"])
           /\ IsGood(d["regRead"]) => IsGood(c["regRead"]) /\ d["regRead"] = c["regRead"]
           /\ IsGood(d["regWrite"]) <=> IsGood(c["regWrite"])
           /\ d["regWrite"].yes = c["regWrite"].yes
    BY <1>0, <1>5, OpsAre
  <2>2. \/ "lost" \in mishaps'[w]
        \/ SwitchOK(w, p, c) /\ fault # "lost" /\ "lost" \notin mishaps[w]
    BY <1>0, <1>2, <1>3 DEF WizardOK
  <2>3. /\ p.step = 9 => \A e \in Emails :
              account[e].admin /\ Sole(e) /\ account[e].keys = p.keys => open
        /\ ~Idle(d["regWrite"]) => account[p.token].keys \in Own(w)
    <3>1. ~Idle(d["regWrite"]) => ~Idle(c["regWrite"])
      BY <1>0, <1>5, OpsAre
    <3> QED BY <1>0, <1>3, <3>1 DEF WizardOK, SwitchOK
  <2>3a. Own(w)' = Own(w) /\ \A e : Sole(e)' <=> Sole(e)
    BY <1>1 DEF user, Own, Sole
  <2>4. CASE "lost" \in mishaps'[w]
    BY <1>1, <2>3, <2>4, <2>3a DEF SwitchOK
  <2>5. CASE SwitchOK(w, p, c) /\ fault # "lost" /\ "lost" \notin mishaps[w]
    BY <1>1, <2>1, <2>3, <2>5, <2>3a DEF SwitchOK
  <2> QED BY <2>2, <2>4, <2>5
<1>11. page' = [page EXCEPT ![w] = p]
  BY <1>0, <1>3, OneRequest
<1> QED BY <1>1, <1>4, <1>6, <1>7, <1>8, <1>9, <1>10, <1>11, MishapStep

LEMMA CallFailsKeeps ==
    ASSUME OnboardingInv, NEW w \in Wizards, NEW op \in Ops, CallFails(w, op)
    PROVE  OnboardingInv'
<1>1. /\ Suffers(w, "failed") /\ UNCHANGED <<install, page, user>>
      /\ ~Idle(call[w][op]) /\ ~IsGood(call[w][op])
  BY DEF CallFails, Idle, IsGood
<1>2. PICK got, r : /\ got \in {"refused", "lost"} /\ r = Response(got, NoDomain, call[w][op].yes)
                     /\ call' = [call EXCEPT ![w][op] = r]
  BY DEF CallFails, Reply, Response
<1>3. /\ DOMAIN r = RequestFields /\ r.at = "answered" /\ r.got # "ok" /\ r.dom = NoDomain
      /\ r.yes = call[w][op].yes
  BY <1>2 DEF Response, RequestFields
<1> QED BY <1>1, <1>2, <1>3, RequestLost

LEMMA AnswerLostKeeps ==
    ASSUME OnboardingInv, NEW w \in Wizards, NEW op \in Ops, AnswerLost(w, op)
    PROVE  OnboardingInv'
<1>1. /\ Suffers(w, "lost") /\ UNCHANGED <<install, page, user>>
      /\ ~Idle(call[w][op]) /\ IsAnswered(call[w][op])
  BY DEF AnswerLost, Answered, Idle, IsAnswered
<1> DEFINE r == [call[w][op] EXCEPT !.got = "lost"]
<1>2. call' = [call EXCEPT ![w][op] = r]
  BY Requests, Zenon DEF AnswerLost
<1>3. /\ DOMAIN r = RequestFields /\ r.at = "answered" /\ r.got # "ok" /\ r.dom = call[w][op].dom
      /\ r.yes = call[w][op].yes
  BY <1>1, Requests DEF RequestFields, IsAnswered
<1> HIDE DEF r
<1> QED BY <1>1, <1>2, <1>3, RequestLost

LEMMA ReloadKeeps ==
    ASSUME OnboardingInv, NEW w \in Wizards, Reload(w)
    PROVE  OnboardingInv'
<1>1. /\ Suffers(w, "reload") /\ UNCHANGED <<install, user>> /\ UNCHANGED <<page, call>>
  BY DEF Reload
<1>2. PICK p, d : p = page[w] /\ d = call[w]
  OBVIOUS
<1>3. page' = [page EXCEPT ![w] = p] /\ call' = [call EXCEPT ![w] = d]
  BY <1>1, <1>2, OneRequest
<1>4. /\ PageOK(p) /\ RequestsOK(p, d) /\ KeysOK(w, p) /\ TokenOK(w, p) /\ CreateOK(p, d)
      /\ DomainOK(w, p, d) /\ SwitchOK(w, p, d)
  BY <1>2 DEF OnboardingInv, WizardOK
<1>5. mishaps[w] \subseteq mishaps'[w] /\ UNCHANGED <<account, open, gens>>
  BY <1>1, SuffersIs DEF install, user
<1>6. SwitchOK(w, p, d)'
  BY <1>4, <1>5 DEF SwitchOK, Sole, Own
<1> QED BY <1>1, <1>3, <1>4, <1>6, MishapStep

-----------------------------------------------------------------------------
LEMMA OnboardingInit == WizardInit => OnboardingInv
<1> SUFFICES ASSUME WizardInit PROVE OnboardingInv
  OBVIOUS
<1>0. /\ account = [e \in Emails |-> [keys |-> NoBundle, confirmed |-> FALSE, admin |-> FALSE]]
      /\ open = TRUE /\ page = [w \in Wizards |-> BlankPage]
      /\ call = [w \in Wizards |-> [op \in Ops |-> NoCall]] /\ files = [w \in Wizards |-> {}]
      /\ gens = [w \in Wizards |-> 0] /\ setter = {} /\ mishaps = [w \in Wizards |-> {}]
  BY DEF WizardInit
<1>1. /\ DOMAIN account = Emails
      /\ \A e \in Emails : /\ DOMAIN account[e] = {"keys", "confirmed", "admin"}
                           /\ account[e].keys = NoBundle
                           /\ account[e].confirmed = FALSE /\ account[e].admin = FALSE
  BY <1>0
<1>2. AccountsOK
  BY <1>0, <1>1 DEF AccountsOK
<1>3. HistoryOK
  BY <1>0 DEF HistoryOK
<1>4. \A w \in Wizards : NoBundle \notin Own(w)
  BY <1>0, OnboardingAssumption DEF Own
<1>5. ASSUME NEW w \in Wizards PROVE WizardOK(w, page[w], call[w])
  <2>1. page[w] = BlankPage /\ call[w] = [op \in Ops |-> NoCall] /\ mishaps[w] = {}
    BY <1>0
  <2>2. PICK d : /\ d = [op \in Ops |-> NoCall] /\ d = [o \in Ops |-> d[o]]
                 /\ \A o \in Ops : /\ DOMAIN d[o] = RequestFields /\ d[o].yes = FALSE
                                   /\ Idle(d[o])
    <3>1. PICK d : d = [op \in Ops |-> NoCall]
      OBVIOUS
    <3>2. d = [o \in Ops |-> d[o]] /\ \A o \in Ops : d[o] = NoCall
      BY <3>1
    <3> QED BY <3>1, <3>2, SentIs DEF Idle
  <2>3. PageOK(BlankPage)
    <3>1. BlankPage.enabled \in BOOLEAN
      BY BlankOK
    <3> QED BY <3>1, BlankOK DEF PageOK, Inbox
  <2>4. RequestsOK(BlankPage, d)
    BY <2>2, BlankOK, OpsAre DEF RequestsOK
  <2>5. KeysOK(w, BlankPage) /\ TokenOK(w, BlankPage)
    BY BlankOK, OnboardingAssumption DEF KeysOK, TokenOK
  <2>6. CreateOK(BlankPage, d)
    BY <2>2, BlankOK, OpsAre DEF CreateOK
  <2>7. LuckyOK(w, BlankPage, d)
    <3>1. \A e \in Emails : account[e].keys \notin Own(w)
      BY <1>1, <1>4
    <3> QED BY <2>2, <3>1, BlankOK, OpsAre DEF LuckyOK, Idle, IsAnswered, Inbox
  <2>8. DomainOK(w, BlankPage, d) /\ SwitchOK(w, BlankPage, d)
    BY <1>0, <2>2, BlankOK, OpsAre DEF DomainOK, SwitchOK
  <2> QED BY <2>1, <2>2, <2>3, <2>4, <2>5, <2>6, <2>7, <2>8 DEF WizardOK
<1> QED BY <1>2, <1>3, <1>5 DEF OnboardingInv

LEMMA OnboardingNext ==
    ASSUME OnboardingInv, [WizardNext]_wizardVars
    PROVE  OnboardingInv'
<1>1. CASE UNCHANGED wizardVars
  <2>1. /\ UNCHANGED <<account, domain, open, certs, setter, page, call, files, gens, mishaps>>
        /\ AccountsOK /\ HistoryOK
    BY <1>1 DEF wizardVars, install, user, OnboardingInv
  <2>2. \A w \in Wizards : Own(w)' = Own(w)
    BY <2>1 DEF Own
  <2>3. AccountsOK' /\ HistoryOK'
    BY <2>1, <2>2 DEF AccountsOK, HistoryOK
  <2>4. ASSUME NEW w \in Wizards PROVE WizardOK(w, page[w], call[w])'
    <3>1. PICK q, c : q = page[w] /\ c = call[w]
      OBVIOUS
    <3>2. WizardOK(w, q, c)
      BY <3>1 DEF OnboardingInv
    <3>3. /\ PageOK(q)' /\ RequestsOK(q, c)' /\ KeysOK(w, q)' /\ TokenOK(w, q)'
          /\ CreateOK(q, c)' /\ LuckyOK(w, q, c)' /\ SwitchOK(w, q, c)'
      BY <2>1, <3>2, AccountsUntouched
    <3>4. DomainOK(w, q, c)'
      BY <2>1, <3>2, DomainUntouched
    <3>5. page'[w] = q /\ call'[w] = c
      BY <2>1, <3>1
    <3> QED BY <3>3, <3>4, <3>5 DEF WizardOK
  <2> QED BY <2>3, <2>4 DEF OnboardingInv
<1>2. ASSUME NEW w \in Wizards, Press(w) PROVE OnboardingInv'
  BY <1>2, OpenKeeps, OtherPagesKeep, EarlyPagesKeep, LatePagesKeep, CertificatePageKeeps, DownloadKeeps,
     AccountPageKeeps, SwitchPageKeeps DEF Press
<1>3. ASSUME NEW w \in Wizards, CertbotStep(w) PROVE OnboardingInv'
  BY <1>3, ServeCertificateKeeps, CertbotKeeps, CertificatePageKeeps DEF CertbotStep
<1>4. ASSUME NEW w \in Wizards, Serve(w) PROVE OnboardingInv'
  BY <1>4, ServeOtherKeeps, StoreDomainKeeps, ServeCertificateKeeps, ServeAccountKeeps,
     InsertUserKeeps, ConfirmKeyExportKeeps, ServeRegistrationKeeps, ServeToggleKeeps DEF Serve
<1>5. ASSUME NEW w \in Wizards, Continue(w) PROVE OnboardingInv'
  BY <1>5, EarlyPagesKeep, OtherPagesKeep, CertificatePageKeeps, AccountPageKeeps,
     SwitchPageKeeps DEF Continue
<1>6. ASSUME NEW w \in Wizards, MakeKeys(w) PROVE OnboardingInv'
  BY <1>6, GenerateKeeps, KeysPageKeeps, LatePagesKeep, AccountPageKeeps DEF MakeKeys
<1>7. ASSUME NEW w \in Wizards, Mishap(w) PROVE OnboardingInv'
  <2>1. CASE CertbotEnds(w)
    BY <2>1, CertbotKeeps
  <2>2. CASE Reload(w)
    BY <2>2, ReloadKeeps
  <2>3. ASSUME NEW op \in Ops, CallFails(w, op) \/ AnswerLost(w, op) PROVE OnboardingInv'
    BY <2>3, CallFailsKeeps, AnswerLostKeeps
  <2> QED BY <1>7, <2>1, <2>2, <2>3 DEF Mishap
<1> QED BY <1>1, <1>2, <1>3, <1>4, <1>5, <1>6, <1>7 DEF WizardNext

(* The invariant of the wizards holds for ever.                             *)
THEOREM OnboardingSafety == WizardSpec => []OnboardingInv
<1>1. OnboardingInv /\ [WizardNext]_wizardVars => OnboardingInv'
  BY OnboardingNext
<1> QED BY OnboardingInit, <1>1, PTL DEF WizardSpec

(* The mail routes open only for an account whose very keys its user has    *)
(* downloaded, and who signs in to an account made in a visit that met no   *)
(* mishap is not refused there: however many wizards run on a fresh server. *)
THEOREM KeyGateHolds == WizardSpec => []KeyGate
<1>1. ASSUME OnboardingInv PROVE KeyGate
  <2>1. \A e \in Emails : account[e].confirmed => \E w \in Wizards : account[e].keys \in files[w]
    BY <1>1 DEF OnboardingInv, AccountsOK
  <2>2. ASSUME NEW w \in Wizards, page[w].mail = "refused"
        PROVE  \E v \in Wizards : account[page[w].token].keys \in Own(v) /\ mishaps[v] # {}
    <3>1. /\ PageOK(page[w]) /\ TokenOK(w, page[w]) /\ LuckyOK(w, page[w], call[w])
      BY <1>1 DEF OnboardingInv, WizardOK
    <3>2. page[w].step = Inbox /\ page[w].token # NoEmail
      BY <2>2, <3>1 DEF PageOK, TokenOK, Inbox
    <3>3. PICK v \in Wizards : /\ account[page[w].token].keys \in Own(v)
                               /\ v = w \/ mishaps[v] # {}
      BY <3>1, <3>2 DEF TokenOK, Made
    <3>4. account[page[w].token].keys \in Own(w) => mishaps[w] # {}
      BY <2>2, <3>1, <3>2 DEF LuckyOK
    <3> QED BY <3>3, <3>4
  <2> QED BY <2>1, <2>2 DEF KeyGate
<1> QED BY OnboardingSafety, <1>1, PTL

(* A page claims a certificate only where there is one, and shows an only   *)
(* administrator who heard every answer whether registration is open.       *)
THEOREM ClaimsHold == WizardSpec => []ClaimsAreTrue
<1>1. OnboardingInv => ClaimsAreTrue
  <2> SUFFICES ASSUME OnboardingInv, NEW w \in Wizards
      PROVE  /\ /\ OnStep(w, 5)
                /\ page[w].tls = "cert" \/ page[w].trigger = "success"
                /\ setter = {w}
                => page[w].shown \in certs \cup {NoDomain}
             /\ /\ OnStep(w, 10)
                /\ Quiet(w, "regRead") /\ Quiet(w, "regWrite")
                /\ account[page[w].token].admin /\ Sole(page[w].token)
                /\ "lost" \notin mishaps[w]
                => page[w].enabled = open
    BY DEF ClaimsAreTrue
  <2>1. DomainOK(w, page[w], call[w]) /\ SwitchOK(w, page[w], call[w])
    BY DEF OnboardingInv, WizardOK
  <2> QED BY <2>1 DEF DomainOK, SwitchOK, OnStep, Quiet, Idle
<1> QED BY OnboardingSafety, <1>1, PTL
=============================================================================
