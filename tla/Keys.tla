-------------------------------- MODULE Keys --------------------------------
(* The identity keys of one person, and their prekeys.  The browser makes   *)
(* the key pairs, encrypts the private halves with a passphrase and uploads *)
(* both; the server keeps every pair and one flag that says which is        *)
(* active.  Mail that arrives is encrypted to an active public key, and a   *)
(* tab that is unlocked holds the private key of the export it fetched.     *)
(* Between any two awaits of a dialog, a route or the inbound worker the    *)
(* others may run.  One row stands for the x25519 and the ed25519 row that  *)
(* an upload inserts together.                                              *)
EXTENDS Naturals, FiniteSets

CONSTANTS Flows, First, Fresh, None,
          OneTimes,    \* names of one-time prekeys in one upload
          Scenarios    \* what happens: [flows, sw, faults]

Passphrases == {"old", "new"}

ASSUME KeysAssumption ==
    /\ First \notin Fresh /\ None \notin Fresh \cup {First}
    /\ \A s \in Scenarios :
          /\ s.flows \in [Flows -> [op : {"rotate", "change", "export", "unlock", "mail",
                                          "prekeys", "bundle", "none"},
                                    typed : Passphrases, pass : Passphrases]]
          /\ s.sw \in BOOLEAN /\ s.faults \in Nat

VARIABLES
    kind,     \* what each flow is: [op, typed, pass]
    sw,       \* the tabs are served through the service worker
    cache,    \* its copy of the last answer to GET /keys/export
    asking,   \* it fetches that answer in the background
    faults,   \* failures still to come
    at,       \* where it stands
    mem,      \* what it holds between its steps
    rows,     \* keypairs: [key, pass, stamp, active]
    uploads,  \* POST /keys/rotate under way
    clock,    \* now()
    version,  \* uploads committed so far
    raced,    \* those that were committed across another one
    retired,  \* keys that a rotation has replaced
    backups,  \* keys in a file the person has downloaded
    crossed,  \* keys that came to a dialog in which another was downloaded
    prekeys   \* [by, name, signed, stamp, used]

server == <<rows, clock, version, raced, retired>>
worker == <<sw, cache, asking>>
vars == <<kind, faults, at, mem, server, worker, uploads, backups, crossed, prekeys>>

Blank == [key |-> None, pass |-> None, seen |-> 0, making |-> {}, downloaded |-> FALSE,
          confirmed |-> FALSE, one |-> None]
Active == {r \in rows : r.active}
Oldest(S) == {r \in S : \A q \in S : r.stamp <= q.stamp}
Newest(S) == {r \in S : \A q \in S : q.stamp <= r.stamp}

Move(f, q) == at' = [at EXCEPT ![f] = q]
Keep(f, m) == mem' = [mem EXCEPT ![f] = m]
Fault == faults > 0 /\ faults' = faults - 1

(* Registration stored the first pair, under the first passphrase.         *)
Init ==
    /\ \E s \in Scenarios : kind = s.flows /\ sw = s.sw /\ faults = s.faults
    /\ at = [f \in Flows |-> "idle"]
    /\ mem = [f \in Flows |-> Blank]
    /\ rows = {[key |-> First, pass |-> "old", stamp |-> 0, active |-> TRUE]}
    /\ uploads = {}
    /\ clock = 0 /\ version = 0 /\ raced = {} /\ retired = {}
    /\ cache = None /\ asking = FALSE
    /\ backups = {First} /\ crossed = {}
    /\ prekeys = {}

(***************************************************************************)
(* The dialog that rotates the keys.  Closing it clears what it holds, but *)
(* not the work it has begun: opened again it may make and upload another  *)
(* pair while the first is on its way.                                     *)
(***************************************************************************)
Rotates(f) == kind[f].op = "rotate"
Reads(f) == kind[f].op \in {"change", "export", "unlock"}
Used == {u.key : u \in uploads} \cup {r.key : r \in rows}
        \cup UNION {mem[f].making \cup {mem[f].key} : f \in Flows} \cup backups

ResetState(f) ==
    /\ Rotates(f) /\ at[f] # "idle"
    /\ Move(f, "idle")
    /\ Keep(f, [Blank EXCEPT !.making = mem[f].making])
    /\ UNCHANGED <<kind, worker, faults, server, uploads, backups, crossed, prekeys>>

MayGenerate(f) == at[f] \in {"idle", "passphrase"}   \* warning read, passphrases typed

HandleGenerate(f) ==
    /\ Rotates(f) /\ MayGenerate(f)
    /\ Move(f, "generating")
    /\ \E k \in Fresh \ Used : Keep(f, [mem[f] EXCEPT !.making = @ \cup {k}])
    /\ UNCHANGED <<kind, worker, faults, server, uploads, backups, crossed, prekeys>>

(* The keys are made, encrypted and exported to a bundle: set in the state *)
(* whatever the dialog shows by now.                                       *)
Generated(f, k) ==
    /\ k \in mem[f].making
    /\ Move(f, "export")
    /\ Keep(f, [mem[f] EXCEPT !.key = k, !.making = @ \ {k}])
    /\ crossed' = IF mem[f].downloaded THEN crossed \cup {k} ELSE crossed
    /\ UNCHANGED <<kind, worker, faults, server, uploads, backups, prekeys>>

GenerateFails(f, k) ==
    /\ k \in mem[f].making /\ Fault
    /\ Move(f, "error")
    /\ Keep(f, [mem[f] EXCEPT !.making = @ \ {k}])
    /\ UNCHANGED <<kind, worker, server, uploads, backups, crossed, prekeys>>

HandleDownloadNewKeys(f) ==
    /\ Rotates(f) /\ at[f] = "export"
    /\ backups' = backups \cup {mem[f].key}
    /\ Keep(f, [mem[f] EXCEPT !.downloaded = TRUE])
    /\ UNCHANGED <<kind, worker, faults, at, server, uploads, crossed, prekeys>>

TickBackup(f) ==
    /\ Rotates(f) /\ at[f] = "export" /\ mem[f].downloaded
    /\ Keep(f, [mem[f] EXCEPT !.confirmed = ~@])
    /\ UNCHANGED <<kind, worker, faults, at, server, uploads, backups, crossed, prekeys>>

Post(f, k) == uploads' = uploads \cup {[by |-> f, key |-> k, pass |-> kind[f].pass,
                                        phase |-> "sent", stamp |-> 0, seen |-> 0, took |-> {}]}

(* Mutation: the tick under the file is not asked for.                     *)
MayCompleteAtOnce(f) == mem[f].key # None

MayComplete(f) == mem[f].key # None /\ mem[f].confirmed

HandleCompleteRotation(f) ==
    /\ Rotates(f) /\ at[f] = "export" /\ MayComplete(f)
    /\ Move(f, "generating")
    /\ Post(f, mem[f].key)
    /\ UNCHANGED <<kind, worker, faults, mem, server, backups, crossed, prekeys>>

TryAgain(f) ==
    /\ at[f] = "error" /\ (Rotates(f) \/ Reads(f))
    /\ Move(f, IF Rotates(f) THEN IF mem[f].key # None THEN "export" ELSE "passphrase"
               ELSE "idle")
    /\ UNCHANGED <<kind, worker, faults, mem, server, uploads, backups, crossed, prekeys>>

(***************************************************************************)
(* The three readers of GET /keys/export: the change of the passphrase,    *)
(* the export of the keys, and the log-in or unlocking of a tab            *)
(***************************************************************************)
FetchActiveKeys == Newest(Active)

Exported == {[key |-> r.key, pass |-> r.pass, seen |-> version] : r \in FetchActiveKeys}

(* The answer of the server; the service worker puts it into its cache and *)
(* answers the next request with that copy, *)
FetchEncryptedKeys(f) ==
    /\ Reads(f) /\ at[f] = "idle"
    /\ Move(f, "read")
    /\ \E e \in IF cache = None THEN Exported ELSE {cache} :
          /\ Keep(f, [mem[f] EXCEPT !.key = e.key, !.pass = e.pass, !.seen = e.seen])
          /\ cache' = IF sw THEN e ELSE None
    /\ asking' = (cache # None)
    /\ UNCHANGED <<kind, sw, faults, server, uploads, backups, crossed, prekeys>>

(* and fetches a new one in the background, whose failure nobody notices.  *)
Revalidate ==
    /\ asking /\ asking' = FALSE
    /\ \/ cache' \in Exported /\ UNCHANGED faults
       \/ Fault /\ UNCHANGED cache
    /\ UNCHANGED <<kind, sw, at, mem, server, uploads, backups, crossed, prekeys>>

(* Without keys, or without an answer, the dialogs report an error; the    *)
(* tab goes on without a private key.                                      *)
FetchFails(f) ==
    /\ Reads(f) /\ at[f] = "idle" /\ cache = None /\ Fault
    /\ Move(f, IF kind[f].op = "unlock" THEN "open" ELSE "error")
    /\ UNCHANGED <<kind, worker, mem, server, uploads, backups, crossed, prekeys>>

Opens(f) == mem[f].pass = kind[f].typed  \* the blob opens with the passphrase typed

HandleChangePassphrase(f) ==
    /\ kind[f].op = "change" /\ at[f] = "read"
    /\ IF Opens(f) THEN Move(f, "processing") /\ Post(f, mem[f].key)
                   ELSE Move(f, "error") /\ UNCHANGED uploads
    /\ UNCHANGED <<kind, worker, faults, mem, server, backups, crossed, prekeys>>

HandleExport(f) ==
    /\ kind[f].op = "export" /\ at[f] = "read"
    /\ Move(f, IF Opens(f) THEN "success" ELSE "error")
    /\ backups' = IF Opens(f) THEN backups \cup {mem[f].key} ELSE backups
    /\ UNCHANGED <<kind, worker, faults, mem, server, uploads, crossed, prekeys>>

Unlock(f) ==
    /\ kind[f].op = "unlock" /\ at[f] = "read"
    /\ Move(f, "open")
    /\ Keep(f, IF Opens(f) THEN mem[f] ELSE Blank)
    /\ UNCHANGED <<kind, worker, faults, server, uploads, backups, crossed, prekeys>>

(***************************************************************************)
(* POST /keys/rotate: one transaction, READ COMMITTED                      *)
(***************************************************************************)
Replace(u, v) == uploads' = (uploads \ {u}) \cup {v}

BeginUpload(u) ==
    /\ u.phase = "sent"
    /\ clock' = clock + 1
    /\ Replace(u, [u EXCEPT !.phase = "begun", !.stamp = clock + 1])
    /\ UNCHANGED <<kind, worker, faults, at, mem, rows, version, raced, retired, backups, crossed, prekeys>>

(* Mutation: the old keys stay active.                                     *)
MatchedNone == {}

Matched == Active

(* The UPDATE finds the active rows, *)
Deactivate(u) ==
    /\ u.phase = "begun"
    /\ Replace(u, [u EXCEPT !.phase = "waiting", !.seen = version, !.took = Matched])
    /\ UNCHANGED <<kind, worker, faults, at, mem, server, backups, crossed, prekeys>>

(* waits for whoever has locked one of them, and then skips the rows that  *)
(* are no longer active.                                                   *)
Lock(u) ==
    /\ u.phase = "waiting"
    /\ \A v \in uploads : v.phase = "locked" => v.took \cap u.took = {}
    /\ Replace(u, [u EXCEPT !.phase = "locked", !.took = @ \cap rows])
    /\ UNCHANGED <<kind, worker, faults, at, mem, server, backups, crossed, prekeys>>

Answer(f, q) == at' = [at EXCEPT ![f] = q]

CommitUpload(u) ==
    /\ u.phase = "locked"
    /\ rows' = (rows \ u.took) \cup {[r EXCEPT !.active = FALSE] : r \in u.took}
               \cup {[key |-> u.key, pass |-> u.pass, stamp |-> u.stamp, active |-> TRUE]}
    /\ version' = version + 1
    /\ retired' = IF Rotates(u.by) THEN retired \cup {r.key : r \in u.took} ELSE retired
    /\ raced' = IF u.seen = version THEN raced ELSE raced \cup {version + 1}
    /\ uploads' = uploads \ {u}
    /\ \/ Answer(u.by, "success") /\ UNCHANGED faults
       \/ Fault /\ Answer(u.by, "error")    \* committed, but the answer is lost
    /\ UNCHANGED <<kind, worker, mem, clock, backups, crossed, prekeys>>

RollBack(u) ==
    /\ Fault
    /\ uploads' = uploads \ {u}
    /\ Answer(u.by, "error")
    /\ UNCHANGED <<kind, worker, mem, server, backups, crossed, prekeys>>

(***************************************************************************)
(* Mail: the worker looks up an active key and stores the mail later       *)
(***************************************************************************)
FindActiveX25519PublicKey(f) ==
    /\ kind[f].op = "mail" /\ at[f] = "idle"
    /\ Move(f, "encrypt")
    /\ \E r \in Active : Keep(f, [Blank EXCEPT !.key = r.key, !.seen = version])
    /\ UNCHANGED <<kind, worker, faults, server, uploads, backups, crossed, prekeys>>

StoreMail(f) ==
    /\ kind[f].op = "mail" /\ at[f] = "encrypt"
    /\ Move(f, "stored")
    /\ UNCHANGED <<kind, worker, faults, mem, server, uploads, backups, crossed, prekeys>>

Tabs == {f \in Flows : kind[f].op = "unlock" /\ at[f] = "open"}
Mails == {f \in Flows : kind[f].op = "mail" /\ at[f] = "stored"}
KeyMaterial(t) == mem[t].key
DecryptWithX25519(k, m) == k = mem[m].key
(* What a tab shows of the body of a mail.                                 *)
Decrypted(t, m) == KeyMaterial(t) # None /\ DecryptWithX25519(KeyMaterial(t), m)

(***************************************************************************)
(* Prekeys                                                                 *)
(***************************************************************************)
Prekey(f, n, signed) == [by |-> f, name |-> n, signed |-> signed, stamp |-> clock + 1, used |-> FALSE]

InsertSigned(f) ==
    /\ kind[f].op = "prekeys" /\ at[f] = "idle"
    /\ Move(f, "signed")
    /\ prekeys' = prekeys \cup {Prekey(f, None, TRUE)}
    /\ clock' = clock + 1
    /\ UNCHANGED <<kind, worker, faults, mem, rows, version, raced, retired, uploads, backups, crossed>>

InsertOneTimes(f) ==
    /\ kind[f].op = "prekeys" /\ at[f] = "signed"
    /\ \/ /\ Move(f, "success")
          /\ prekeys' = prekeys \cup {Prekey(f, n, FALSE) : n \in OneTimes}
          /\ clock' = clock + 1
          /\ UNCHANGED faults
       \/ Fault /\ Move(f, "error") /\ UNCHANGED <<prekeys, clock>>
    /\ UNCHANGED <<kind, worker, mem, rows, version, raced, retired, uploads, backups, crossed>>

Unused(signed) == {p \in prekeys : p.signed = signed /\ ~p.used}

(* GET /keys/:userId/bundle: active keys and newest signed prekey, *)
ReadSigned(f) ==
    /\ kind[f].op = "bundle" /\ at[f] = "idle"
    /\ Move(f, IF Active = {} \/ Unused(TRUE) = {} THEN "notfound" ELSE "candidate")
    /\ UNCHANGED <<kind, worker, faults, mem, server, uploads, backups, crossed, prekeys>>

(* then the oldest one-time prekey that is not used, *)
ReadCandidate(f) ==
    /\ kind[f].op = "bundle" /\ at[f] = "candidate"
    /\ IF Unused(FALSE) = {}
       THEN Move(f, "bundle") /\ UNCHANGED mem
       ELSE /\ Move(f, "claim")
            /\ \E p \in Oldest(Unused(FALSE)) : Keep(f, [mem[f] EXCEPT !.one = p])
    /\ UNCHANGED <<kind, worker, faults, server, uploads, backups, crossed, prekeys>>

(* Mutation: UPDATE ... WHERE id = candidate, whatever is_used says.       *)
WonAnyway(f) == TRUE

Won(f) == mem[f].one \in prekeys   \* it is still unused

(* and the conditional UPDATE that hands it to one reader.                 *)
Claim(f) ==
    /\ kind[f].op = "bundle" /\ at[f] = "claim"
    /\ Move(f, "bundle")
    /\ IF Won(f)
       THEN /\ prekeys' = (prekeys \ {mem[f].one}) \cup {[mem[f].one EXCEPT !.used = TRUE]}
            /\ UNCHANGED mem
       ELSE Keep(f, Blank) /\ UNCHANGED prekeys
    /\ UNCHANGED <<kind, worker, faults, server, uploads, backups, crossed>>

Dialog(f) == ResetState(f) \/ HandleGenerate(f) \/ HandleDownloadNewKeys(f) \/ TickBackup(f)
             \/ HandleCompleteRotation(f) \/ TryAgain(f)
             \/ \E k \in Fresh : Generated(f, k) \/ GenerateFails(f, k)
Reader(f) == FetchEncryptedKeys(f) \/ FetchFails(f) \/ HandleChangePassphrase(f)
             \/ HandleExport(f) \/ Unlock(f)
Upload(u) == BeginUpload(u) \/ Deactivate(u) \/ Lock(u) \/ CommitUpload(u) \/ RollBack(u)
Delivery(f) == FindActiveX25519PublicKey(f) \/ StoreMail(f)
Prekeying(f) == InsertSigned(f) \/ InsertOneTimes(f) \/ ReadSigned(f) \/ ReadCandidate(f) \/ Claim(f)

Next == \/ \E f \in Flows : Dialog(f) \/ Reader(f) \/ Delivery(f) \/ Prekeying(f)
        \/ \E u \in uploads : Upload(u)
        \/ Revalidate

Spec == Init /\ [][Next]_vars

(***************************************************************************)
(* Properties                                                              *)
(***************************************************************************)
(* A tab whose keys the server exported between two uploads can read every *)
(* mail whose key was looked up between the same two: what the export      *)
(* hands out and what the inbound worker encrypts to are the same key,     *)
(* whatever dialogs ran before.  Two exceptions.  What counts for a tab    *)
(* that is unlocked from the service worker's copy is when the copy was    *)
(* made (seen), not when the tab was unlocked: after a rotation such a tab *)
(* holds the key before it, and nothing is promised to it of the mail that *)
(* comes from then on.  And an upload that is committed across another one *)
(* (raced) may leave two active keys, until the next upload.               *)
FreshMailOpens ==
    \A t \in Tabs, m \in Mails :
        mem[t].key # None /\ mem[t].seen = mem[m].seen /\ mem[m].seen \notin raced
            => Decrypted(t, m)

(* A one-time prekey goes to at most one reader of the bundle, even when   *)
(* several have read it as their candidate.                                *)
OneTimeOnce ==
    \A f, g \in Flows :
        kind[f].op = "bundle" /\ kind[g].op = "bundle" /\ at[f] = "bundle" /\ at[g] = "bundle"
        /\ f # g /\ mem[f].one # None => mem[f].one # mem[g].one

(* Every key the server ever made active is in a file the person has       *)
(* downloaded: through closed and reopened dialogs, failed uploads and     *)
(* retries.  Excepted are the keys of a second generation that ends after  *)
(* the first one's file was downloaded: the dialog does not ask again.     *)
KeyKept == \A r \in rows : r.key \in backups \cup crossed

(* "Deactivate your existing keys (kept for decrypting old messages)" and  *)
(* "Your new encryption keys are now active": a key that a rotation has    *)
(* replaced is not active again.  The change of the passphrase uploads the *)
(* pair it has read back through the same route, and what it has read may  *)
(* be the service worker's copy from before the rotation.                  *)
RotatedStaysOut == \A r \in Active : r.key \notin retired
=============================================================================
