--------------------------- MODULE ComposeProofs ---------------------------
(***************************************************************************)
(* Proofs about Compose, for any budget, any finite set of calls at one    *)
(* time, any limit of the queue and any number of lost answers; and about  *)
(* SendLimit, the limiter in front of its routes, for any finite set of    *)
(* requests, any limit and any window.                                     *)
(*                                                                         *)
(* Compose splits in two halves that share only the page: the drafts       *)
(* (DraftInv) and the mails (MailInv), so a step of one half leaves the    *)
(* invariant of the other alone.                                           *)
(***************************************************************************)
EXTENDS Compose, SendLimit, FiniteSetTheorems, TLAPS

-----------------------------------------------------------------------------

RowIds == Nat \cup {None}
AtWork == {"gate", "stored", "counted"}
Over   == {"ok", "denied", "failed"}

SaveType == [file : Nat, head : Nat, body : Nat, row : RowIds, held : BOOLEAN,
             step : {"paused", "encrypt", "request", "ok", "failed", "orphan", "done"}]
RowType  == [there : BOOLEAN, head : Nat, body : Nat]
FileType == [step : {"none", "reading", "waiting", "upload", "there", "failed"},
             row : RowIds, head : Nat]
PostType == {FreePost} \cup
            [mail : Mails, by : {"page", "worker", "nobody"}, step : AtWork \cup Over]

(* The page and its drafts.                                                *)
DraftTypes ==
    /\ page \in {"open", "left"}
    /\ text \in Nat /\ saved \in Nat
    /\ status \in {"idle", "saving", "saved", "error"}
    /\ draft \in RowIds
    /\ saves \in Seq(SaveType)
    /\ files \in [Files -> FileType]
    /\ drafts \in Seq(RowType)
    /\ blobs \subseteq Nat \X Files
    /\ older \in BOOLEAN

(* A row that the page, a run or a file knows has been inserted.           *)
RowsExist ==
    /\ draft # None => draft \in 1..Len(drafts)
    /\ \A n \in 1..Len(saves) :
          /\ saves[n].row # None => saves[n].row \in 1..Len(drafts)
          /\ saves[n].step = "ok" => saves[n].row # None
    /\ \A f \in Files :
          /\ files[f].row # None => files[f].row \in 1..Len(drafts)
          /\ files[f].step \in {"upload", "there"} => files[f].row # None

(* What the runs of the draft mutation carry: an upload's save no body, an *)
(* auto-save one version of head and body, which is the last one while the *)
(* run is pending, unless it was held back, and while it is the last run.  *)
BodiesInv ==
    /\ saved <= text
    /\ \A n \in 1..Len(saves) :
          /\ saves[n].file \in Files \cup {0}
          /\ saves[n].file # 0 => saves[n].body = 0
          /\ saves[n].file = 0 => saves[n].body \in 1..saved /\ saves[n].head = saves[n].body
          /\ saves[n].file = 0 /\ Pending(n) /\ ~saves[n].held => saves[n].body = saved
          /\ saves[n].file = 0 /\ n = Len(saves) => saves[n].body = saved

(* Not only once the page says so: already when the answer is on its way.  *)
Carries(n) == saves[n].file = 0 /\ saves[n].step = "ok" /\ saves[n].body = saved

StoredInv ==
    ~older => /\ status = "saved" => \E n \in 1..Len(saves) : Keeps(n)
              /\ \A n \in 1..Len(saves) : Carries(n) => Keeps(n)

DraftInv == DraftTypes /\ RowsExist /\ BodiesInv /\ StoredInv

(* The mails.                                                              *)
MailTypes ==
    /\ page \in {"open", "left"}
    /\ told \in [Mails -> {"nothing", "sending", "queued", "offline", "error"}]
    /\ sending \in Mails \cup {0}
    /\ queue \subseteq Mails /\ todo \subseteq Mails
    /\ sync \in BOOLEAN
    /\ posts \in [Posts -> PostType]
    /\ sent \in [Mails -> Nat] /\ jobs \in [Mails -> Nat]
    /\ depth \in Nat
    /\ lost \in [Mails -> Nat]
    /\ refused \subseteq Mails

(* Who waits for which call.  The page waits for one and the worker for    *)
(* one; an answer "ok" on its way means that the job is there; what the    *)
(* worker has yet to treat is still in the queue.                          *)
Calls ==
    /\ \A m \in Mails : told[m] = "sending" <=> sending = m
    /\ \A p \in Posts :
          /\ posts[p].by = "page" => page = "open" /\ posts[p].mail = sending
          /\ posts[p].by = "worker" => posts[p].mail \in todo
          /\ posts[p].by \in {"page", "worker"} /\ posts[p].step = "ok"
                => jobs[posts[p].mail] > 0
    /\ \A p, q \in Posts :
          posts[p].by = posts[q].by /\ posts[p].by \in {"page", "worker"} => p = q
    /\ todo \subseteq queue
    /\ \A m \in queue : told[m] = "offline"

(* What a mail has had of the server: its jobs and the calls at work on it *)
WorkOn(m) == {p \in Posts : posts[p].mail = m /\ posts[p].step \in AtWork}
Charge == [m \in Mails |-> jobs[m] + Cardinality(WorkOn(m))]

(* A client waits for a call that was not turned down.                     *)
Going(by, m) ==
    \E p \in Posts : /\ posts[p].by = by /\ posts[p].mail = m
                     /\ posts[p].step \notin {"denied", "failed"}

(* Nobody is charged for this mail yet: it was not sent, or it failed, or  *)
(* the client that has it is about to make its call.                       *)
Spare(m) ==
    \/ told[m] \in {"nothing", "error"}
    \/ told[m] = "sending" /\ page = "open" /\ ~Going("page", m)
    \/ m \in queue /\ ~Going("worker", m)

(* Every call beyond the first is paid for by a lost answer; while a mail  *)
(* is spare, so is the first.                                              *)
OnceInv ==
    \A m \in Mails :
        /\ Charge[m] <= 1 + lost[m]
        /\ Spare(m) => Charge[m] <= lost[m]

CountedCalls == {p \in Posts : posts[p].step = "counted"}
(* A call that has counted will add its job, however full the queue is by  *)
(* then; one other call at least has to be there to fill it.               *)
DepthInv == depth + Cardinality(CountedCalls) <= MaxQueueDepth + Cardinality(Posts) - 1

MailInv == MailTypes /\ Calls /\ ToldIsTrue /\ OnceInv /\ DepthInv

NetTypes == online \in BOOLEAN /\ paused \in BOOLEAN

IInv == budget \in BudgetType /\ NetTypes /\ DraftInv /\ MailInv
-----------------------------------------------------------------------------
(* Two finite sets that differ in one element                              *)
LEMMA CardinalityChange ==
    ASSUME NEW S, IsFiniteSet(S), NEW T, NEW x, S \ {x} = T \ {x}
    PROVE  /\ IsFiniteSet(T)
           /\ Cardinality(S) \in Nat /\ Cardinality(T) \in Nat
           /\ x \in S /\ x \in T => Cardinality(T) = Cardinality(S)
           /\ x \in S /\ x \notin T => Cardinality(T) = Cardinality(S) - 1
           /\ x \notin S /\ x \in T => Cardinality(T) = Cardinality(S) + 1
           /\ x \notin S /\ x \notin T => Cardinality(T) = Cardinality(S)
<1> DEFINE R == S \ {x}
<1>1. /\ IsFiniteSet(R)
      /\ Cardinality(R) = IF x \in S THEN Cardinality(S) - 1 ELSE Cardinality(S)
  BY FS_RemoveElement
<1>2. /\ IsFiniteSet(R \cup {x})
      /\ Cardinality(R \cup {x}) = Cardinality(R) + 1
  BY <1>1, FS_AddElement
<1>3. Cardinality(R) \in Nat /\ Cardinality(S) \in Nat
  BY <1>1, FS_CardinalityType
<1>4. T = IF x \in T THEN R \cup {x} ELSE R
  OBVIOUS
<1>5. IsFiniteSet(T) /\ Cardinality(T) = IF x \in T THEN Cardinality(R) + 1
                                         ELSE Cardinality(R)
  <2>1. CASE x \in T
    BY <2>1, <1>2, <1>4
  <2>2. CASE x \notin T
    BY <2>2, <1>1, <1>4
  <2> QED BY <2>1, <2>2
<1> QED BY <1>1, <1>3, <1>5

(* One element of a sequence changes.                                      *)
LEMMA ExceptSeq ==
    ASSUME NEW S, NEW s \in Seq(S), NEW n \in 1..Len(s), NEW e \in S,
           NEW t, t = [s EXCEPT ![n] = e]
    PROVE  /\ t \in Seq(S) /\ Len(t) = Len(s)
           /\ t[n] = e
           /\ \A k \in 1..Len(s) : k # n => t[k] = s[k]
           /\ \A k \in 1..Len(s) : s[k] \in S /\ t[k] \in S
OBVIOUS

LEMMA AppendSeq ==
    ASSUME NEW S, NEW s \in Seq(S), NEW e \in S, NEW t, t = Append(s, e)
    PROVE  /\ t \in Seq(S) /\ Len(t) = Len(s) + 1 /\ Len(s) \in Nat
           /\ t[Len(s) + 1] = e
           /\ \A k \in 1..Len(s) : t[k] = s[k]
           /\ \A k \in 1..Len(t) : t[k] \in S
OBVIOUS

-----------------------------------------------------------------------------
(* The drafts: one lemma per step of the page or of its routes.            *)

LEMMA DraftInit == Init => DraftInv
<1> SUFFICES ASSUME Init PROVE DraftInv
  OBVIOUS
<1>1. /\ saves = <<>> /\ drafts = <<>> /\ draft = None /\ status = "idle"
      /\ saved = 0 /\ text = 0 /\ page = "open" /\ blobs = {} /\ older = FALSE
      /\ files = [f \in Files |-> [step |-> "none", row |-> None, head |-> 0]]
  BY DEF Init
<1>2. Len(saves) = 0 /\ 1..Len(saves) = {} /\ Len(drafts) = 0
  BY <1>1
<1>3. [step |-> "none", row |-> None, head |-> 0] \in FileType
  BY DEF FileType, RowIds
<1>4. /\ files \in [Files -> FileType] /\ saves \in Seq(SaveType) /\ drafts \in Seq(RowType)
  BY <1>1, <1>3
<1>8. DraftTypes
  BY <1>1, <1>4 DEF DraftTypes, RowIds
<1>5. RowsExist
  BY <1>1, <1>2 DEF RowsExist
<1>6. BodiesInv
  BY <1>1, <1>2 DEF BodiesInv
<1>7. StoredInv
  BY <1>1, <1>2 DEF StoredInv
<1> QED BY <1>8, <1>5, <1>6, <1>7 DEF DraftInv

LEMMA DraftFrame ==
    DraftInv /\ UNCHANGED <<budget, pageVars, rowVars>> => DraftInv'
  BY DEF pageVars, rowVars, DraftInv, DraftTypes, RowsExist, BodiesInv, StoredInv,
         Keeps, Carries, Pending, Files, FileType, RowIds

LEMMA DraftEdit ==
    ASSUME budget \in BudgetType, DraftInv, Edit
    PROVE  DraftInv'
  BY DEF Edit, pageVars, rowVars, DraftInv, DraftTypes, RowsExist, BodiesInv, StoredInv,
         Keeps, Carries, Pending, Files, FileType, RowIds, SaveType, BudgetType

(* mutate(): one more run, at the end.                                     *)
LEMMA MutateAppends ==
    ASSUME DraftTypes, NEW file \in Nat, NEW head \in Nat, NEW body \in Nat,
           Mutate(file, head, body)
    PROVE  /\ saves' \in Seq(SaveType) /\ Len(saves) \in Nat
           /\ Len(saves') = Len(saves) + 1
           /\ \A k \in 1..Len(saves) : saves'[k] = saves[k] /\ saves[k] \in SaveType
           /\ saves'[Len(saves) + 1].file = file
           /\ saves'[Len(saves) + 1].head = head
           /\ saves'[Len(saves) + 1].body = body
           /\ saves'[Len(saves) + 1].row = None
           /\ saves'[Len(saves) + 1].step \in {"encrypt", "paused"}
<1> DEFINE r == [file |-> file, head |-> head, body |-> body, row |-> None,
                 held |-> ~online, step |-> IF online THEN "encrypt" ELSE "paused"]
<1>1. r \in SaveType
  BY DEF SaveType, RowIds
<1>2. saves \in Seq(SaveType) /\ saves' = Append(saves, r)
  BY DEF DraftTypes, Mutate
<1>5. /\ r.file = file /\ r.head = head /\ r.body = body /\ r.row = None
      /\ r.step \in {"encrypt", "paused"}
  OBVIOUS
<1> HIDE DEF r
<1>3. /\ saves' \in Seq(SaveType) /\ Len(saves') = Len(saves) + 1 /\ Len(saves) \in Nat
      /\ saves'[Len(saves) + 1] = r
      /\ \A k \in 1..Len(saves) : saves'[k] = saves[k]
  BY <1>1, <1>2, AppendSeq
<1>4. \A k \in 1..Len(saves) : saves[k] \in SaveType
  BY <1>2
<1> QED BY <1>3, <1>4, <1>5

(* The runs are the same and carry the same.                               *)
SameRuns ==
    /\ Len(saves') = Len(saves)
    /\ \A k \in 1..Len(saves) :
          /\ saves'[k].file = saves[k].file /\ saves'[k].head = saves[k].head
          /\ saves'[k].body = saves[k].body /\ saves'[k].held = saves[k].held

(* One run gets a row or moves on.                                         *)
Moves(n, row, step) == saves' = [saves EXCEPT ![n].row = row, ![n].step = step]

LEMMA RunMoves ==
    ASSUME DraftTypes, NEW n \in 1..Len(saves), NEW row \in RowIds,
           NEW step \in {"paused", "encrypt", "request", "ok", "failed", "orphan", "done"},
           Moves(n, row, step)
    PROVE  /\ saves' \in Seq(SaveType) /\ SameRuns
           /\ \A k \in 1..Len(saves) :
                 /\ saves'[k].row = IF k = n THEN row ELSE saves[k].row
                 /\ saves'[k].step = IF k = n THEN step ELSE saves[k].step
<1>1. saves \in Seq(SaveType) /\ saves[n] \in SaveType
  BY DEF DraftTypes
<1> DEFINE r == [saves[n] EXCEPT !.row = row, !.step = step]
<1>2. saves' = [saves EXCEPT ![n] = r]
  BY <1>1 DEF SaveType, Moves
<1>3. /\ r \in SaveType /\ r.file = saves[n].file /\ r.head = saves[n].head
      /\ r.body = saves[n].body /\ r.held = saves[n].held
      /\ r.row = row /\ r.step = step
  BY <1>1 DEF SaveType
<1> HIDE DEF r
<1> QED BY <1>1, <1>2, <1>3 DEF SameRuns

(* ... without becoming pending again.                                     *)
LEMMA BodiesStay ==
    ASSUME BodiesInv, SameRuns, UNCHANGED <<budget, text, saved>>,
           \A k \in 1..Len(saves) : Pending(k)' => Pending(k)
    PROVE  BodiesInv'
BY DEF BodiesInv, SameRuns, Files

(* A step that stores nothing, and answers no run, keeps what is stored.   *)
LEMMA StoredStays ==
    ASSUME StoredInv, RowsExist, SameRuns, UNCHANGED <<saved, older>>,
           \A k \in 1..Len(saves) :
              /\ saves[k].step \in {"ok", "done"}
                    => saves'[k].row = saves[k].row /\ saves'[k].step \in {"ok", "done"}
              /\ saves'[k].step = "ok" => saves[k].step = "ok",
           \A i \in 1..Len(drafts) :
              drafts'[i].there => /\ drafts[i].there
                                  /\ drafts'[i].head = drafts[i].head
                                  /\ drafts'[i].body = drafts[i].body,
           status' = "saved" => status = "saved" \/ \E n \in 1..Len(saves) : Carries(n)
    PROVE  StoredInv'
<1>1. ASSUME NEW k \in 1..Len(saves), Keeps(k) PROVE Keeps(k)'
  <2>1. saves[k].row \in 1..Len(drafts) /\ saves'[k].row = saves[k].row
    BY <1>1 DEF Keeps, RowsExist
  <2> QED BY <1>1, <2>1 DEF Keeps, SameRuns
<1>2. \A k \in 1..Len(saves) : Carries(k)' => Carries(k)
  BY DEF Carries, SameRuns
<1>3. 1..Len(saves') = 1..Len(saves)
  BY DEF SameRuns
<1>4. ASSUME ~older PROVE \A k \in 1..Len(saves) : Carries(k) => Keeps(k)
  BY <1>4 DEF StoredInv
<1>5. ASSUME ~older, status' = "saved" PROVE \E k \in 1..Len(saves) : Keeps(k)'
  <2>1. \E k \in 1..Len(saves) : Keeps(k)
    BY <1>4, <1>5 DEF StoredInv
  <2> QED BY <1>1, <2>1
<1>6. ASSUME ~older, NEW k \in 1..Len(saves), Carries(k)' PROVE Keeps(k)'
  BY <1>1, <1>2, <1>4, <1>6
<1> QED BY <1>3, <1>5, <1>6 DEF StoredInv

LEMMA DraftAutoSave ==
    ASSUME budget \in BudgetType, DraftInv, AutoSave
    PROVE  DraftInv'
<1> DEFINE L == Len(saves)
<1>1. DraftTypes /\ RowsExist /\ BodiesInv /\ StoredInv
  BY DEF DraftInv
<1>2. /\ Mutate(0, text, text) /\ saved' = text /\ status' = "saving" /\ text # saved
      /\ UNCHANGED <<budget, page, text, draft, files, drafts, blobs, older>>
      /\ \A n \in 1..Len(saves) : saves[n].file = 0 /\ Pending(n) => saves[n].held
  BY DEF AutoSave, rowVars
<1>3. text \in Nat /\ saved \in Nat /\ saved < text /\ text \in 1..text
  BY <1>1, <1>2 DEF DraftTypes, BodiesInv
<1>4. /\ saves' \in Seq(SaveType) /\ L \in Nat /\ Len(saves') = L + 1
      /\ \A k \in 1..L : saves'[k] = saves[k] /\ saves[k] \in SaveType
      /\ saves'[L + 1].file = 0 /\ saves'[L + 1].head = text /\ saves'[L + 1].body = text
      /\ saves'[L + 1].row = None /\ saves'[L + 1].step \in {"encrypt", "paused"}
  BY <1>1, <1>2, <1>3, MutateAppends
<1> HIDE DEF L
<1>5. 1..(L + 1) = 1..L \cup {L + 1} /\ L + 1 \notin 1..L
  BY <1>4
<1>6. DraftTypes'
  BY <1>1, <1>2, <1>3, <1>4 DEF DraftTypes, Files
<1>7. RowsExist'
  BY <1>1, <1>2, <1>4, <1>5 DEF RowsExist, Files, L
<1>8. \A k \in 1..L : /\ saves[k].file = 0 => saves[k].body \in 1..saved /\ saves[k].head = saves[k].body
                      /\ saves[k].file # 0 => saves[k].body = 0
                      /\ saves[k].file \in Files \cup {0}
  BY <1>1 DEF BodiesInv, L
<1>9. BodiesInv'
  <2>1. \A k \in 1..L : saves'[k].file = 0 /\ Pending(k)' => saves'[k].held
    BY <1>2, <1>4 DEF Pending, L
  <2>2. \A k \in 1..L : saves'[k].file = 0 => saves'[k].body \in 1..text
    BY <1>3, <1>4, <1>8
  <2> QED BY <1>2, <1>3, <1>4, <1>5, <1>8, <2>1, <2>2 DEF BodiesInv, Files
<1>10. StoredInv'
  <2>1. \A k \in 1..L : ~Carries(k)'
    BY <1>2, <1>3, <1>4, <1>8 DEF Carries
  <2>2. \A k : k = L + 1 => ~Carries(k)'
    BY <1>4 DEF Carries
  <2> QED BY <1>2, <1>4, <1>5, <2>1, <2>2 DEF StoredInv
<1> QED BY <1>6, <1>7, <1>9, <1>10 DEF DraftInv

LEMMA DraftRequestSave ==
    ASSUME budget \in BudgetType, DraftInv, NEW n \in 1..Len(saves), RequestSave(n)
    PROVE  DraftInv'
<1>1. DraftTypes /\ RowsExist /\ BodiesInv /\ StoredInv
  BY DEF DraftInv
<1>2. /\ Moves(n, draft, "request")
      /\ saves[n].step = "encrypt"
      /\ UNCHANGED <<budget, page, text, saved, status, draft, files, drafts, blobs, older>>
  BY DEF RequestSave, rowVars, Moves
<1>3. draft \in RowIds
  BY <1>1 DEF DraftTypes
<1>4. /\ saves' \in Seq(SaveType) /\ SameRuns
      /\ \A k \in 1..Len(saves) :
            /\ saves'[k].row = IF k = n THEN draft ELSE saves[k].row
            /\ saves'[k].step = IF k = n THEN "request" ELSE saves[k].step
  BY <1>1, <1>2, <1>3, RunMoves
<1>5. DraftTypes'
  BY <1>1, <1>2, <1>4 DEF DraftTypes, Files
<1>6. RowsExist'
  BY <1>1, <1>2, <1>4 DEF RowsExist, Files, SameRuns
<1>7. BodiesInv'
  BY <1>1, <1>2, <1>4, BodiesStay DEF Pending
<1>8. StoredInv'
  BY <1>1, <1>2, <1>4, StoredStays
<1> QED BY <1>5, <1>6, <1>7, <1>8 DEF DraftInv

(* Runs that were held back go on.                                         *)
LEMMA DraftResume ==
    ASSUME budget \in BudgetType, DraftInv, Resume
    PROVE  DraftInv'
<1>1. DraftTypes /\ RowsExist /\ BodiesInv /\ StoredInv
  BY DEF DraftInv
<1>2. /\ UNCHANGED <<budget, page, text, saved, status, draft, files, drafts, blobs, older>>
      /\ saves' = [n \in 1..Len(saves) |->
           [saves[n] EXCEPT !.step = IF @ = "paused" THEN "encrypt" ELSE @]]
  BY DEF Resume, rowVars
<1>3. saves \in Seq(SaveType) /\ Len(saves) \in Nat
  BY <1>1 DEF DraftTypes
<1>4. \A n \in 1..Len(saves) :
         /\ saves'[n] \in SaveType
         /\ saves'[n].file = saves[n].file /\ saves'[n].head = saves[n].head
         /\ saves'[n].body = saves[n].body /\ saves'[n].held = saves[n].held
         /\ saves'[n].row = saves[n].row
         /\ saves'[n].step = IF saves[n].step = "paused" THEN "encrypt" ELSE saves[n].step
  <2> TAKE n \in 1..Len(saves)
  <2>1. saves[n] \in SaveType
    BY <1>3
  <2>2. saves'[n] = [saves[n] EXCEPT !.step =
                        IF saves[n].step = "paused" THEN "encrypt" ELSE saves[n].step]
    BY <1>2
  <2> QED BY <2>1, <2>2 DEF SaveType
<1>5. saves' \in Seq(SaveType) /\ SameRuns
  BY <1>2, <1>3, <1>4 DEF SameRuns
<1>6. DraftTypes'
  BY <1>1, <1>2, <1>5 DEF DraftTypes, Files
<1>7. RowsExist'
  BY <1>1, <1>2, <1>4, <1>5 DEF RowsExist, Files, SameRuns
<1>8. BodiesInv'
  BY <1>1, <1>2, <1>4, <1>5, BodiesStay DEF Pending
<1>9. StoredInv'
  BY <1>1, <1>2, <1>4, <1>5, StoredStays
<1> QED BY <1>6, <1>7, <1>8, <1>9 DEF DraftInv

LEMMA DraftRefuseSave ==
    ASSUME budget \in BudgetType, DraftInv, NEW n \in 1..Len(saves), RefuseSave(n)
    PROVE  DraftInv'
<1> DEFINE step == IF saves[n].step = "orphan" THEN "done" ELSE "failed"
<1>1. DraftTypes /\ RowsExist /\ BodiesInv /\ StoredInv
  BY DEF DraftInv
<1>2. /\ Moves(n, saves[n].row, step)
      /\ saves[n].step \in {"request", "orphan"}
      /\ UNCHANGED <<budget, page, text, saved, status, draft, files, drafts, blobs, older>>
  BY DEF RefuseSave, AnswerSave, rowVars, Moves
<1>3. saves[n].row \in RowIds
  <2>1. saves[n] \in SaveType
    BY <1>1 DEF DraftTypes
  <2> QED BY <2>1 DEF SaveType
<1>4. step \in {"failed", "done"} /\ (step = "failed" => Pending(n))
  BY <1>2 DEF Pending
<1> HIDE DEF step
<1>5. /\ saves' \in Seq(SaveType) /\ SameRuns
      /\ \A k \in 1..Len(saves) :
            /\ saves'[k].row = IF k = n THEN saves[n].row ELSE saves[k].row
            /\ saves'[k].step = IF k = n THEN step ELSE saves[k].step
  BY <1>1, <1>2, <1>3, <1>4, RunMoves
<1>6. DraftTypes'
  BY <1>1, <1>2, <1>5 DEF DraftTypes, Files
<1>7. RowsExist'
  BY <1>1, <1>2, <1>4, <1>5 DEF RowsExist, Files, SameRuns
<1>8. BodiesInv'
  BY <1>1, <1>2, <1>4, <1>5, BodiesStay DEF Pending
<1>9. StoredInv'
  BY <1>1, <1>2, <1>4, <1>5, StoredStays
<1> QED BY <1>6, <1>7, <1>8, <1>9 DEF DraftInv

(* What a PUT of run n leaves in rows: head and body are what they were,   *)
(* or what run n carries.                                                  *)
Written(n) ==
    /\ drafts' \in Seq(RowType) /\ Len(drafts') = Len(drafts)
    /\ \A i \in 1..Len(drafts) :
          /\ drafts'[i].there = drafts[i].there
          /\ \/ drafts'[i].head = drafts[i].head
             \/ i = saves[n].row /\ drafts'[i].head = saves[n].head
          /\ \/ drafts'[i].body = drafts[i].body
             \/ saves[n].body # 0 /\ drafts'[i].body = saves[n].body

Puts(n, b) == drafts' = [drafts EXCEPT ![saves[n].row].head = saves[n].head,
                                        ![saves[n].row].body = b]

LEMMA PutWrites ==
    ASSUME DraftTypes, RowsExist, NEW n \in 1..Len(saves), saves[n].row # None,
           NEW b \in Nat,
           b = drafts[saves[n].row].body \/ (saves[n].body # 0 /\ b = saves[n].body),
           Puts(n, b)
    PROVE  /\ Written(n)
           /\ saves[n].row \in 1..Len(drafts)
           /\ drafts'[saves[n].row].head = saves[n].head
           /\ drafts'[saves[n].row].body = b
<1> DEFINE i == saves[n].row
           r == [drafts[i] EXCEPT !.head = saves[n].head, !.body = b]
<1>1. i \in 1..Len(drafts)
  BY DEF RowsExist
<1>2. drafts \in Seq(RowType) /\ drafts[i] \in RowType /\ saves[n] \in SaveType
  BY <1>1 DEF DraftTypes
<1>3. /\ r \in RowType /\ r.head = saves[n].head /\ r.body = b
      /\ r.there = drafts[i].there
  BY <1>2 DEF RowType, SaveType
<1>4. drafts \in Seq(RowType) /\ drafts' = [drafts EXCEPT ![i] = r]
  BY <1>2 DEF RowType, Puts
<1> HIDE DEF r, i
<1>5. /\ drafts' \in Seq(RowType) /\ Len(drafts') = Len(drafts) /\ drafts'[i] = r
      /\ \A k \in 1..Len(drafts) : k # i => drafts'[k] = drafts[k]
  BY <1>1, <1>3, <1>4, ExceptSeq
<1> QED BY <1>1, <1>3, <1>5 DEF Written, i

(* A PUT that puts nothing older over what is stored keeps it.             *)
LEMMA KeptByPut ==
    ASSUME DraftTypes, RowsExist, BodiesInv, NEW n \in 1..Len(saves),
           saves[n].step \in {"request", "orphan"}, saves[n].row # None,
           Written(n), Overwrites(n), ~older', UNCHANGED saved, SameRuns,
           NEW k \in 1..Len(saves), Keeps(k),
           saves'[k].row = saves[k].row, saves'[k].step = saves[k].step
    PROVE  Keeps(k)'
<1> DEFINE i == saves[k].row
<1>1. saved \in Nat /\ saves[n] \in SaveType
  BY DEF DraftTypes
<1>2. saves[n].head \in Nat /\ saves[n].body \in Nat /\ saves[n].held \in BOOLEAN
  BY <1>1 DEF SaveType
<1>3. saves[n].head >= saved
  <2>1. CASE Stray(n)
    <3>1. ~(saves[n].head < saved)
      BY <2>1, Zenon DEF Overwrites
    <3> QED BY <1>1, <1>2, <3>1
  <2>2. CASE ~Stray(n)
    BY <1>1, <1>2, <2>2 DEF Stray, BodiesInv, Pending
  <2> QED BY <2>1, <2>2
<1>4. saves[n].body # 0 => saves[n].body = saved
  BY <1>1, <1>2, <1>3 DEF BodiesInv
<1>5. i \in 1..Len(drafts)
  BY DEF Keeps, RowsExist
<1>6. drafts'[i].there => /\ drafts'[i].head = drafts[i].head \/ drafts'[i].head >= saved
                          /\ drafts'[i].body = drafts[i].body \/ drafts'[i].body = saved
                          /\ drafts[i].there
  BY <1>3, <1>4, <1>5 DEF Written
<1> QED BY <1>6 DEF Keeps, SameRuns

LEMMA DraftStoreHalf ==
    ASSUME budget \in BudgetType, DraftInv, NEW n \in 1..Len(saves), StoreHalf(n)
    PROVE  DraftInv'
<1> DEFINE step == IF saves[n].step = "orphan" THEN "done" ELSE "failed"
<1>1. DraftTypes /\ RowsExist /\ BodiesInv /\ StoredInv
  BY DEF DraftInv
<1>2. /\ Moves(n, saves[n].row, step)
      /\ saves[n].step \in {"request", "orphan"}
      /\ saves[n].row # None /\ Overwrites(n)
      /\ drafts' = [drafts EXCEPT ![saves[n].row].head = saves[n].head]
      /\ UNCHANGED <<budget, page, text, saved, status, draft, files, blobs>>
  BY DEF StoreHalf, AnswerSave, Moves
<1>3. saves[n].row \in RowIds
  <2>1. saves[n] \in SaveType
    BY <1>1 DEF DraftTypes
  <2> QED BY <2>1 DEF SaveType
<1>4. step \in {"failed", "done"} /\ (step = "failed" => Pending(n))
  BY <1>2 DEF Pending
<1> HIDE DEF step
<1>5. /\ saves' \in Seq(SaveType) /\ SameRuns
      /\ \A k \in 1..Len(saves) :
            /\ saves'[k].row = IF k = n THEN saves[n].row ELSE saves[k].row
            /\ saves'[k].step = IF k = n THEN step ELSE saves[k].step
  BY <1>1, <1>2, <1>3, <1>4, RunMoves
<1>6. Written(n)
  <2>1. saves[n].row \in 1..Len(drafts)
    BY <1>1, <1>2 DEF RowsExist
  <2>2. drafts \in Seq(RowType) /\ drafts[saves[n].row] \in RowType
    BY <1>1, <2>1 DEF DraftTypes
  <2>3. drafts[saves[n].row].body \in Nat
    BY <2>2 DEF RowType
  <2>4. Puts(n, drafts[saves[n].row].body)
    BY <1>2, <2>1, <2>2 DEF RowType, Puts
  <2> QED BY <1>1, <1>2, <2>3, <2>4, PutWrites
<1>7. older' \in BOOLEAN /\ (~older' => ~older)
  BY <1>1, <1>2 DEF Overwrites, DraftTypes
<1>8. DraftTypes'
  BY <1>1, <1>2, <1>5, <1>6, <1>7 DEF DraftTypes, Files, Written
<1>9. RowsExist'
  BY <1>1, <1>2, <1>4, <1>5, <1>6 DEF RowsExist, Files, SameRuns, Written
<1>10. BodiesInv'
  BY <1>1, <1>2, <1>4, <1>5, BodiesStay DEF Pending
<1>11. StoredInv'
  <2> SUFFICES ASSUME ~older'
               PROVE  /\ status' = "saved" => \E k \in 1..Len(saves) : Keeps(k)'
                      /\ \A k \in 1..Len(saves) : Carries(k)' => Keeps(k)'
    BY <1>5 DEF StoredInv, SameRuns
  <2>1. ASSUME NEW k \in 1..Len(saves), Keeps(k) PROVE Keeps(k)'
    <3>1. k # n
      BY <1>2, <2>1 DEF Keeps
    <3>2. saves'[k].row = saves[k].row /\ saves'[k].step = saves[k].step
      BY <1>5, <3>1
    <3> QED BY <1>1, <1>2, <1>5, <1>6, <2>1, <3>2, KeptByPut
  <2>2. \A k \in 1..Len(saves) : Carries(k)' => Carries(k)
    BY <1>2, <1>4, <1>5 DEF Carries, SameRuns
  <2>3. /\ status = "saved" => \E k \in 1..Len(saves) : Keeps(k)
        /\ \A k \in 1..Len(saves) : Carries(k) => Keeps(k)
    BY <1>1, <1>7 DEF StoredInv
  <2> QED BY <1>2, <2>1, <2>2, <2>3
<1> QED BY <1>8, <1>9, <1>10, <1>11 DEF DraftInv

LEMMA DraftServeSave ==
    ASSUME budget \in BudgetType, DraftInv, NEW n \in 1..Len(saves), ServeSave(n)
    PROVE  DraftInv'
<1> DEFINE step == IF saves[n].step = "orphan" THEN "done" ELSE "ok"
           row  == IF saves[n].row = None THEN Len(drafts) + 1 ELSE saves[n].row
           L    == Len(drafts)
<1>1. DraftTypes /\ RowsExist /\ BodiesInv /\ StoredInv
  BY DEF DraftInv
<1>2. /\ Moves(n, row, step)
      /\ StoreDraft(n) /\ Overwrites(n)
      /\ saves[n].step \in {"request", "orphan"}
      /\ UNCHANGED <<budget, page, text, saved, status, draft, files, blobs>>
  BY DEF ServeSave, AnswerSave, Moves
<1>3. saves[n] \in SaveType /\ drafts \in Seq(RowType) /\ L \in Nat /\ saved \in Nat
  BY <1>1 DEF DraftTypes
<1>4. /\ saves[n].head \in Nat /\ saves[n].body \in Nat /\ saves[n].row \in RowIds
      /\ saves[n].row # None => saves[n].row \in 1..L
  BY <1>1, <1>3 DEF SaveType, RowsExist
<1>5. row \in RowIds /\ row # None
  BY <1>3, <1>4, ComposeAssumption DEF RowIds
<1>6. step \in {"ok", "done"} /\ (step = "ok" => saves[n].step = "request")
  BY <1>2
<1>7. older' \in BOOLEAN /\ (~older' => ~older)
  BY <1>1, <1>2 DEF Overwrites, DraftTypes
<1>8. /\ drafts' \in Seq(RowType) /\ row \in 1..Len(drafts') /\ L <= Len(drafts')
      /\ drafts'[row].head = saves[n].head
      /\ saves[n].body # 0 => drafts'[row].body = saves[n].body
      /\ saves[n].row # None => Written(n)
      /\ saves[n].row = None => \A i \in 1..L : drafts'[i] = drafts[i]
  <2>1. CASE saves[n].row = None
    <3> DEFINE r == [there |-> TRUE, head |-> saves[n].head, body |-> saves[n].body]
    <3>1. /\ r \in RowType /\ r.head = saves[n].head /\ r.body = saves[n].body
          /\ drafts' = Append(drafts, r)
      BY <1>2, <1>4, <2>1 DEF RowType, StoreDraft
    <3> HIDE DEF r
    <3>2. /\ drafts' \in Seq(RowType) /\ Len(drafts') = L + 1
          /\ drafts'[L + 1] = r
          /\ \A k \in 1..L : drafts'[k] = drafts[k]
      BY <1>3, <3>1, AppendSeq
    <3> QED BY <1>3, <2>1, <3>1, <3>2
  <2>2. CASE saves[n].row # None
    <3> DEFINE b == IF saves[n].body = 0 THEN drafts[saves[n].row].body ELSE saves[n].body
    <3>1. drafts[saves[n].row] \in RowType
      BY <1>3, <1>4, <2>2
    <3>2. b \in Nat
      BY <1>4, <3>1 DEF RowType
    <3>3. Puts(n, b)
      BY <1>2, <1>3, <1>4, <2>2, <3>1 DEF StoreDraft, RowType, Puts
    <3>4. b = drafts[saves[n].row].body \/ (saves[n].body # 0 /\ b = saves[n].body)
      OBVIOUS
    <3>5. saves[n].body # 0 => b = saves[n].body
      OBVIOUS
    <3> HIDE DEF b
    <3>6. /\ Written(n) /\ drafts'[saves[n].row].head = saves[n].head
          /\ drafts'[saves[n].row].body = b
      BY <1>1, <2>2, <3>2, <3>3, <3>4, PutWrites
    <3> QED BY <1>3, <1>4, <2>2, <3>5, <3>6 DEF Written
  <2> QED BY <2>1, <2>2
<1> HIDE DEF row, step, L
<1>9. /\ saves' \in Seq(SaveType) /\ SameRuns
      /\ \A k \in 1..Len(saves) :
            /\ saves'[k].row = IF k = n THEN row ELSE saves[k].row
            /\ saves'[k].step = IF k = n THEN step ELSE saves[k].step
  BY <1>1, <1>2, <1>5, <1>6, RunMoves
<1>10. DraftTypes'
  BY <1>1, <1>2, <1>7, <1>8, <1>9 DEF DraftTypes, Files
<1>11. RowsExist'
  <2>1. 1..L \subseteq 1..Len(drafts')
    BY <1>3, <1>8 DEF DraftTypes
  <2> QED BY <1>1, <1>2, <1>5, <1>6, <1>8, <1>9, <2>1 DEF RowsExist, Files, SameRuns, L
<1>12. BodiesInv'
  BY <1>1, <1>2, <1>6, <1>9, BodiesStay DEF Pending
<1>13. StoredInv'
  <2> SUFFICES ASSUME ~older'
               PROVE  /\ status' = "saved" => \E k \in 1..Len(saves) : Keeps(k)'
                      /\ \A k \in 1..Len(saves) : Carries(k)' => Keeps(k)'
    BY <1>9 DEF StoredInv, SameRuns
  <2>1. ASSUME NEW k \in 1..Len(saves), Keeps(k) PROVE Keeps(k)'
    <3>1. k # n
      BY <1>2, <2>1 DEF Keeps
    <3>2. saves'[k].row = saves[k].row /\ saves'[k].step = saves[k].step
      BY <1>9, <3>1
    <3>3. CASE saves[n].row # None
      BY <1>1, <1>2, <1>8, <1>9, <2>1, <3>2, <3>3, KeptByPut
    <3>4. CASE saves[n].row = None
      <4>1. saves[k].row \in 1..L
        BY <1>1, <2>1 DEF Keeps, RowsExist, L
      <4> QED BY <1>2, <1>8, <1>9, <2>1, <3>2, <3>4, <4>1 DEF Keeps, SameRuns
    <3> QED BY <3>3, <3>4
  <2>2. ASSUME Carries(n)' PROVE Keeps(n)'
    <3>1. /\ saves[n].file = 0 /\ saves[n].body = saved /\ saves'[n].row = row
          /\ saves'[n].file = 0 /\ saves'[n].body = saved' /\ saves'[n].step = "ok"
      BY <1>2, <1>9, <2>2 DEF Carries, SameRuns
    <3>2. saves[n].head = saved /\ saves[n].body # 0
      BY <1>1, <1>3, <3>1 DEF BodiesInv
    <3> QED BY <1>2, <1>3, <1>5, <1>8, <3>1, <3>2 DEF Keeps
  <2>3. \A k \in 1..Len(saves) : Carries(k)' => Carries(k) \/ k = n
    BY <1>2, <1>9 DEF Carries, SameRuns
  <2>4. /\ status = "saved" => \E k \in 1..Len(saves) : Keeps(k)
        /\ \A k \in 1..Len(saves) : Carries(k) => Keeps(k)
    BY <1>1, <1>7 DEF StoredInv
  <2> QED BY <1>2, <2>1, <2>2, <2>3, <2>4
<1> QED BY <1>10, <1>11, <1>12, <1>13 DEF DraftInv

(* The callbacks give a file the row of its run, or none.                  *)
LEMMA SettleFiles ==
    ASSUME DraftTypes, RowsExist, BodiesInv, NEW n \in 1..Len(saves),
           NEW ok \in BOOLEAN, NEW row \in RowIds,
           row # None => row \in 1..Len(drafts), ok => row # None,
           Settle(n, ok, row)
    PROVE  /\ files' \in [Files -> FileType]
           /\ \A f \in Files :
                 /\ files'[f].row # None => files'[f].row \in 1..Len(drafts)
                 /\ files'[f].step \in {"upload", "there"} => files'[f].row # None
           /\ status' \in {"idle", "saving", "saved", "error"}
           /\ status' = "saved" => \/ status = "saved"
                                   \/ ok /\ saves[n].file = 0 /\ n = Len(saves)
<1>1. /\ files \in [Files -> FileType]
      /\ status \in {"idle", "saving", "saved", "error"}
  BY DEF DraftTypes
<1>2. /\ status' \in {"idle", "saving", "saved", "error"}
      /\ status' = "saved" => \/ status = "saved"
                              \/ ok /\ saves[n].file = 0 /\ n = Len(saves)
  BY <1>1 DEF Settle
<1>3. CASE UNCHANGED files
  BY <1>1, <1>2, <1>3 DEF RowsExist
<1>4. CASE ~UNCHANGED files
  <2> DEFINE f == saves[n].file
             r == [files[f] EXCEPT !.step = IF ok THEN "upload" ELSE "failed", !.row = row]
  <2>1. f \in Files /\ files' = [files EXCEPT ![f] = r]
    BY <1>4 DEF Settle, BodiesInv
  <2>2. /\ r \in FileType /\ r.row = row /\ r.step \in {"upload", "failed"}
        /\ (r.step = "upload" => ok)
    BY <1>1, <2>1 DEF FileType
  <2> HIDE DEF f, r
  <2>3. /\ files' \in [Files -> FileType]
        /\ \A g \in Files : files'[g] = files[g] \/ files'[g] = r
    BY <1>1, <2>1, <2>2
  <2>4. \A g \in Files :
           /\ files'[g].row # None => files'[g].row \in 1..Len(drafts)
           /\ files'[g].step \in {"upload", "there"} => files'[g].row # None
    BY <2>2, <2>3 DEF RowsExist
  <2> QED BY <1>2, <2>3, <2>4
<1> QED BY <1>3, <1>4

LEMMA DraftSaveEnds ==
    ASSUME budget \in BudgetType, DraftInv, NEW n \in 1..Len(saves), SaveEnds(n)
    PROVE  DraftInv'
<1> DEFINE ok == saves[n].step = "ok"
<1>1. DraftTypes /\ RowsExist /\ BodiesInv /\ StoredInv
  BY DEF DraftInv
<1>2. /\ saves' = [saves EXCEPT ![n].step = "done"]
      /\ saves[n].step \in {"ok", "failed"}
      /\ Settle(n, ok, saves[n].row)
      /\ draft' = IF ok THEN saves[n].row ELSE draft
      /\ UNCHANGED <<budget, page, text, saved, drafts, blobs, older>>
  BY DEF SaveEnds, rowVars
<1>3. saves \in Seq(SaveType) /\ saves[n] \in SaveType /\ draft \in RowIds
  BY <1>1 DEF DraftTypes
<1>4. saves[n].row \in RowIds /\ Moves(n, saves[n].row, "done")
  BY <1>2, <1>3 DEF SaveType, Moves
<1>5. /\ saves' \in Seq(SaveType) /\ SameRuns
      /\ \A k \in 1..Len(saves) :
            /\ saves'[k].row = IF k = n THEN saves[n].row ELSE saves[k].row
            /\ saves'[k].step = IF k = n THEN "done" ELSE saves[k].step
  BY <1>1, <1>4, RunMoves
<1>6. /\ saves[n].row # None => saves[n].row \in 1..Len(drafts)
      /\ ok => saves[n].row # None
  BY <1>1 DEF RowsExist
<1>7. /\ files' \in [Files -> FileType]
      /\ \A f \in Files :
            /\ files'[f].row # None => files'[f].row \in 1..Len(drafts)
            /\ files'[f].step \in {"upload", "there"} => files'[f].row # None
      /\ status' \in {"idle", "saving", "saved", "error"}
      /\ status' = "saved" => status = "saved" \/ (ok /\ saves[n].file = 0 /\ n = Len(saves))
  <2>1. ok \in BOOLEAN
    OBVIOUS
  <2> HIDE DEF ok
  <2> QED BY <1>1, <1>2, <1>4, <1>6, <2>1, SettleFiles
<1>8. DraftTypes'
  BY <1>1, <1>2, <1>3, <1>4, <1>5, <1>6, <1>7 DEF DraftTypes, Files
<1>9. RowsExist'
  BY <1>1, <1>2, <1>5, <1>6, <1>7 DEF RowsExist, Files, SameRuns
<1>10. BodiesInv'
  BY <1>1, <1>2, <1>5, BodiesStay DEF Pending, SaveEnds
<1>11. StoredInv'
  <2>1. ok /\ saves[n].file = 0 /\ n = Len(saves) => Carries(n)
    BY <1>1 DEF BodiesInv, Carries
  <2>2. status' = "saved" => status = "saved" \/ \E k \in 1..Len(saves) : Carries(k)
    BY <1>7, <2>1
  <2>3. \A k \in 1..Len(saves) :
           /\ saves[k].step \in {"ok", "done"}
                 => saves'[k].row = saves[k].row /\ saves'[k].step \in {"ok", "done"}
           /\ saves'[k].step = "ok" => saves[k].step = "ok"
    BY <1>5
  <2> HIDE DEF ok
  <2> QED BY <1>1, <1>2, <1>5, <2>2, <2>3, StoredStays
<1> QED BY <1>8, <1>9, <1>10, <1>11 DEF DraftInv

LEMMA DraftSaveGivesUp ==
    ASSUME budget \in BudgetType, DraftInv, NEW n \in 1..Len(saves), SaveGivesUp(n)
    PROVE  DraftInv'
<1> DEFINE step == IF saves[n].step = "request" THEN "orphan" ELSE "done"
<1>1. DraftTypes /\ RowsExist /\ BodiesInv /\ StoredInv
  BY DEF DraftInv
<1>2. /\ saves' = [saves EXCEPT ![n].step = step]
      /\ saves[n].step \in {"request", "ok"}
      /\ Settle(n, FALSE, None)
      /\ UNCHANGED <<budget, page, text, saved, draft, drafts, blobs, older>>
  BY DEF SaveGivesUp, rowVars
<1>3. saves \in Seq(SaveType) /\ saves[n] \in SaveType
  BY <1>1 DEF DraftTypes
<1>4. step \in {"orphan", "done"} /\ (saves[n].step = "ok" => step = "done")
  OBVIOUS
<1> HIDE DEF step
<1>5. saves[n].row \in RowIds /\ Moves(n, saves[n].row, step)
  BY <1>2, <1>3 DEF SaveType, Moves
<1>6. /\ saves' \in Seq(SaveType) /\ SameRuns
      /\ \A k \in 1..Len(saves) :
            /\ saves'[k].row = IF k = n THEN saves[n].row ELSE saves[k].row
            /\ saves'[k].step = IF k = n THEN step ELSE saves[k].step
  BY <1>1, <1>4, <1>5, RunMoves
<1>7. /\ files' \in [Files -> FileType]
      /\ \A f \in Files :
            /\ files'[f].row # None => files'[f].row \in 1..Len(drafts)
            /\ files'[f].step \in {"upload", "there"} => files'[f].row # None
      /\ status' \in {"idle", "saving", "saved", "error"}
      /\ status' = "saved" => status = "saved"
  <2>1. None \in RowIds
    BY DEF RowIds
  <2> QED BY <1>1, <1>2, <2>1, SettleFiles
<1>8. DraftTypes'
  BY <1>1, <1>2, <1>6, <1>7 DEF DraftTypes, Files
<1>9. RowsExist'
  BY <1>1, <1>2, <1>4, <1>6, <1>7 DEF RowsExist, Files, SameRuns
<1>10. BodiesInv'
  BY <1>1, <1>2, <1>4, <1>6, BodiesStay DEF Pending
<1>11. StoredInv'
  <2>1. \A k \in 1..Len(saves) :
           /\ saves[k].step \in {"ok", "done"}
                 => saves'[k].row = saves[k].row /\ saves'[k].step \in {"ok", "done"}
           /\ saves'[k].step = "ok" => saves[k].step = "ok"
    BY <1>2, <1>4, <1>6
  <2> QED BY <1>1, <1>2, <1>6, <1>7, <2>1, StoredStays
<1> QED BY <1>8, <1>9, <1>10, <1>11 DEF DraftInv

LEMMA DraftDelete ==
    ASSUME budget \in BudgetType, DraftInv, NEW n \in 1..Len(drafts), DeleteDraft(n)
    PROVE  DraftInv'
<1> DEFINE r == [drafts[n] EXCEPT !.there = FALSE]
<1>1. DraftTypes /\ RowsExist /\ BodiesInv /\ StoredInv
  BY DEF DraftInv
<1>2. /\ drafts' = [drafts EXCEPT ![n].there = FALSE]
      /\ blobs' \subseteq blobs
      /\ UNCHANGED <<budget, page, text, saved, status, draft, saves, files, older>>
  BY DEF DeleteDraft, pageVars
<1>3. drafts \in Seq(RowType) /\ drafts[n] \in RowType
  BY <1>1 DEF DraftTypes
<1>4. /\ drafts' = [drafts EXCEPT ![n] = r] /\ r \in RowType /\ ~r.there
  BY <1>2, <1>3 DEF RowType
<1> HIDE DEF r
<1>5. /\ drafts' \in Seq(RowType) /\ Len(drafts') = Len(drafts)
      /\ \A i \in 1..Len(drafts) :
            drafts'[i].there => /\ drafts[i].there
                                /\ drafts'[i].head = drafts[i].head
                                /\ drafts'[i].body = drafts[i].body
  BY <1>3, <1>4
<1>6. DraftTypes'
  BY <1>1, <1>2, <1>5 DEF DraftTypes, Files
<1>7. RowsExist' /\ BodiesInv'
  BY <1>1, <1>2, <1>5 DEF RowsExist, BodiesInv, Pending, Files
<1>8. SameRuns
  BY <1>2 DEF SameRuns
<1>9. StoredInv'
  BY <1>1, <1>2, <1>5, <1>8, StoredStays
<1> QED BY <1>6, <1>7, <1>9 DEF DraftInv

(* Navigation: what the page waits for is given up.                        *)
LEMMA DraftLeavePage ==
    ASSUME budget \in BudgetType, DraftInv, LeavePage, UNCHANGED <<budget, rowVars>>
    PROVE  DraftInv'
<1>1. DraftTypes /\ RowsExist /\ BodiesInv /\ StoredInv
  BY DEF DraftInv
<1>2. /\ page' = "left"
      /\ UNCHANGED <<text, saved, status, draft, files, drafts, blobs, older>>
      /\ saves' = [n \in 1..Len(saves) |->
           [saves[n] EXCEPT !.step = IF @ \in {"request", "orphan"} THEN "orphan"
                                     ELSE "done"]]
  BY DEF LeavePage, rowVars
<1>3. saves \in Seq(SaveType) /\ Len(saves) \in Nat
  BY <1>1 DEF DraftTypes
<1>4. \A n \in 1..Len(saves) :
         /\ saves'[n] \in SaveType
         /\ saves'[n].file = saves[n].file /\ saves'[n].head = saves[n].head
         /\ saves'[n].body = saves[n].body /\ saves'[n].held = saves[n].held
         /\ saves'[n].row = saves[n].row
         /\ saves'[n].step = IF saves[n].step \in {"request", "orphan"} THEN "orphan"
                             ELSE "done"
  <2> TAKE n \in 1..Len(saves)
  <2>1. saves[n] \in SaveType
    BY <1>3
  <2>2. saves'[n] = [saves[n] EXCEPT !.step =
                        IF saves[n].step \in {"request", "orphan"} THEN "orphan"
                        ELSE "done"]
    BY <1>2
  <2> QED BY <2>1, <2>2 DEF SaveType
<1>5. saves' \in Seq(SaveType) /\ SameRuns
  BY <1>2, <1>3, <1>4 DEF SameRuns
<1>6. DraftTypes'
  BY <1>1, <1>2, <1>5 DEF DraftTypes, Files
<1>7. RowsExist'
  BY <1>1, <1>2, <1>4, <1>5 DEF RowsExist, Files, SameRuns
<1>8. BodiesInv'
  BY <1>1, <1>2, <1>4, <1>5, BodiesStay DEF Pending
<1>9. StoredInv'
  <2>1. \A k \in 1..Len(saves) :
           /\ saves[k].step \in {"ok", "done"}
                 => saves'[k].row = saves[k].row /\ saves'[k].step \in {"ok", "done"}
           /\ saves'[k].step = "ok" => saves[k].step = "ok"
    BY <1>4
  <2> QED BY <1>1, <1>2, <1>5, <2>1, StoredStays
<1> QED BY <1>6, <1>7, <1>8, <1>9 DEF DraftInv

(* A file moves on.                                                        *)
LEMMA FileMoves ==
    ASSUME budget \in BudgetType, DraftInv, NEW f \in Files, NEW r \in FileType,
           r.row # None => r.row \in 1..Len(drafts),
           r.step \in {"upload", "there"} => r.row # None,
           files' = [files EXCEPT ![f] = r],
           blobs' \subseteq Nat \X Files,
           UNCHANGED <<budget, page, text, saved, status, draft, saves, drafts, older>>
    PROVE  DraftInv'
<1>1. DraftTypes /\ RowsExist /\ BodiesInv /\ StoredInv
  BY DEF DraftInv
<1>2. /\ files' \in [Files -> FileType]
      /\ \A g \in Files : files'[g] = files[g] \/ files'[g] = r
  BY <1>1 DEF DraftTypes
<1>3. DraftTypes'
  BY <1>1, <1>2 DEF DraftTypes, Files
<1>4. RowsExist'
  BY <1>1, <1>2 DEF RowsExist, Files
<1>5. BodiesInv' /\ StoredInv'
  BY <1>1 DEF BodiesInv, Pending, Files, StoredInv, Keeps, Carries
<1> QED BY <1>3, <1>4, <1>5 DEF DraftInv

LEMMA DraftSelectFile ==
    ASSUME budget \in BudgetType, DraftInv, NEW f \in Files, SelectFile(f)
    PROVE  DraftInv'
<1> DEFINE r == [step |-> "reading", row |-> draft, head |-> text]
<1>1. DraftTypes /\ RowsExist
  BY DEF DraftInv
<1>2. r \in FileType /\ r.row = draft /\ r.step = "reading"
  BY <1>1 DEF DraftTypes, FileType
<1>3. /\ files' = [files EXCEPT ![f] = r] /\ blobs' \subseteq Nat \X Files
      /\ UNCHANGED <<budget, page, text, saved, status, draft, saves, drafts, older>>
  BY <1>1 DEF SelectFile, rowVars, DraftTypes
<1> HIDE DEF r
<1>4. /\ r.row # None => r.row \in 1..Len(drafts)
      /\ r.step \in {"upload", "there"} => r.row # None
  BY <1>1, <1>2 DEF RowsExist
<1> QED BY <1>2, <1>3, <1>4, FileMoves

LEMMA DraftReadFile ==
    ASSUME budget \in BudgetType, DraftInv, NEW f \in Files, ReadFile(f)
    PROVE  DraftInv'
<1>1. DraftTypes /\ RowsExist /\ BodiesInv /\ StoredInv
  BY DEF DraftInv
<1>2. files \in [Files -> FileType] /\ files[f] \in FileType
  BY <1>1 DEF DraftTypes
<1>3. UNCHANGED <<budget, page, text, saved, status, draft, drafts, blobs, older>>
  BY DEF ReadFile, rowVars
<1>4. CASE files[f].row # None
  <2> DEFINE r == [files[f] EXCEPT !.step = "upload"]
  <2>1. r \in FileType /\ r.row = files[f].row /\ r.step = "upload"
    BY <1>2 DEF FileType
  <2>2. /\ files' = [files EXCEPT ![f] = r] /\ blobs' \subseteq Nat \X Files
        /\ UNCHANGED saves
    BY <1>1, <1>3, <1>4 DEF ReadFile, DraftTypes
  <2>3. /\ r.row # None => r.row \in 1..Len(drafts)
        /\ r.step \in {"upload", "there"} => r.row # None
    BY <1>1, <1>4, <2>1 DEF RowsExist
  <2> HIDE DEF r
  <2> QED BY <1>3, <2>1, <2>2, <2>3, FileMoves
<1>5. CASE files[f].row = None
  <2> DEFINE r == [files[f] EXCEPT !.step = "waiting"]
             L == Len(saves)
  <2>1. r \in FileType /\ r.row = None /\ r.step = "waiting" /\ files[f].head \in Nat
    BY <1>2, <1>5 DEF FileType
  <2>2. files' = [files EXCEPT ![f] = r] /\ Mutate(f, files[f].head, 0)
    BY <1>5 DEF ReadFile
  <2> HIDE DEF r
  <2>3. /\ files' \in [Files -> FileType]
        /\ \A g \in Files : files'[g] = files[g] \/ files'[g] = r
    BY <1>2, <2>1, <2>2
  <2>4. f \in Nat \ {0}
    BY DEF Files, BudgetType
  <2>5. /\ saves' \in Seq(SaveType) /\ L \in Nat /\ Len(saves') = L + 1
        /\ \A k \in 1..L : saves'[k] = saves[k] /\ saves[k] \in SaveType
        /\ saves'[L + 1].file = f /\ saves'[L + 1].body = 0
        /\ saves'[L + 1].row = None /\ saves'[L + 1].step \in {"encrypt", "paused"}
    BY <1>1, <2>1, <2>2, <2>4, MutateAppends
  <2>6. 1..(L + 1) = 1..L \cup {L + 1} /\ \A k \in 1..L : k # L + 1
    BY <2>5
  <2>7. DraftTypes'
    BY <1>1, <1>3, <2>3, <2>5 DEF DraftTypes, Files
  <2>8. RowsExist'
    BY <1>1, <1>3, <2>1, <2>3, <2>5, <2>6 DEF RowsExist, Files, L
  <2>9. BodiesInv'
    BY <1>1, <1>3, <2>4, <2>5, <2>6 DEF BodiesInv, Pending, Files, L
  <2>10. StoredInv'
    <3>1. \A k \in 1..L : (Keeps(k)' <=> Keeps(k)) /\ (Carries(k)' <=> Carries(k))
      BY <1>3, <2>5 DEF Keeps, Carries
    <3>2. \A k : k = L + 1 => ~Carries(k)'
      BY <2>4, <2>5 DEF Carries
    <3> QED BY <1>1, <1>3, <2>5, <2>6, <3>1, <3>2 DEF StoredInv, L
  <2> QED BY <2>7, <2>8, <2>9, <2>10 DEF DraftInv
<1> QED BY <1>4, <1>5

LEMMA DraftUploadFile ==
    ASSUME budget \in BudgetType, DraftInv, NEW f \in Files, UploadFile(f)
    PROVE  DraftInv'
<1>1. DraftTypes /\ RowsExist
  BY DEF DraftInv
<1>2. files[f] \in FileType /\ blobs \subseteq Nat \X Files
  BY <1>1 DEF DraftTypes
<1>3. /\ files[f].row # None /\ files[f].row \in 1..Len(drafts)
      /\ UNCHANGED <<budget, page, text, saved, status, draft, saves, drafts, older>>
  BY <1>1 DEF UploadFile, RowsExist
<1>4. PICK s \in {"there", "failed"} : files' = [files EXCEPT ![f].step = s]
  BY DEF UploadFile
<1> DEFINE r == [files[f] EXCEPT !.step = s]
<1>5. r \in FileType /\ r.row = files[f].row /\ r.step = s
  BY <1>2 DEF FileType
<1>6. files' = [files EXCEPT ![f] = r]
  BY <1>4
<1>7. blobs' \subseteq Nat \X Files
  BY <1>2, <1>3 DEF UploadFile, StoreBlob
<1> HIDE DEF r
<1> QED BY <1>3, <1>5, <1>6, <1>7, FileMoves

LEMMA DraftRemoveFile ==
    ASSUME budget \in BudgetType, DraftInv, NEW f \in Files, RemoveFile(f)
    PROVE  DraftInv'
<1>1. DraftTypes /\ RowsExist
  BY DEF DraftInv
<1>2. files[f] \in FileType /\ blobs \subseteq Nat \X Files
  BY <1>1 DEF DraftTypes
<1>3. /\ files[f].row # None /\ files[f].row \in 1..Len(drafts)
      /\ UNCHANGED <<budget, page, text, saved, status, draft, saves, drafts, older>>
  BY <1>1 DEF RemoveFile, RowsExist
<1> DEFINE r == [files[f] EXCEPT !.step = "failed"]
<1>4. files' = [files EXCEPT ![f] = r] /\ blobs' \subseteq blobs
  BY DEF RemoveFile, DropBlob
<1>5. r \in FileType /\ r.row = files[f].row /\ r.step = "failed"
  BY <1>2 DEF FileType
<1> HIDE DEF r
<1> QED BY <1>2, <1>3, <1>4, <1>5, FileMoves

-----------------------------------------------------------------------------
(* The mails: what a change of one call means.                             *)

LEMMA PostFields ==
    ASSUME NEW r \in PostType
    PROVE  \/ r.mail = 0 /\ r.by = "nobody" /\ r.step = "free"
           \/ r.mail \in Mails /\ r.by \in {"page", "worker", "nobody"}
              /\ r.step \in AtWork \cup Over
BY DEF PostType, FreePost

(* A call is the only one to change.                                       *)
OnlyCall(p) == \A q \in Posts : q # p => posts'[q] = posts[q]

LEMMA CallMoves ==
    ASSUME posts \in [Posts -> PostType], NEW p \in Posts, NEW r \in PostType,
           posts' = [posts EXCEPT ![p] = r]
    PROVE  posts' \in [Posts -> PostType] /\ OnlyCall(p) /\ posts'[p] = r
BY DEF OnlyCall

LEMMA WorkMoves ==
    ASSUME NEW p \in Posts, OnlyCall(p), NEW m
    PROVE  LET before == posts[p].mail = m /\ posts[p].step \in AtWork
               after  == posts'[p].mail = m /\ posts'[p].step \in AtWork
           IN /\ Cardinality(WorkOn(m)) \in Nat /\ Cardinality(WorkOn(m)') \in Nat
              /\ before <=> after => Cardinality(WorkOn(m)') = Cardinality(WorkOn(m))
              /\ before /\ ~after
                    => Cardinality(WorkOn(m)') = Cardinality(WorkOn(m)) - 1
              /\ ~before /\ after
                    => Cardinality(WorkOn(m)') = Cardinality(WorkOn(m)) + 1
<1> DEFINE S == WorkOn(m)
           T == WorkOn(m)'
<1>1. S \subseteq Posts /\ T \subseteq Posts /\ S \ {p} = T \ {p}
  BY DEF WorkOn, OnlyCall
<1>2. IsFiniteSet(S)
  BY <1>1, FS_Subset, ComposeAssumption
<1>3. /\ p \in S <=> posts[p].mail = m /\ posts[p].step \in AtWork
      /\ p \in T <=> posts'[p].mail = m /\ posts'[p].step \in AtWork
  BY DEF WorkOn
<1> HIDE DEF S, T
<1>4. /\ Cardinality(S) \in Nat /\ Cardinality(T) \in Nat
      /\ p \in S /\ p \in T => Cardinality(T) = Cardinality(S)
      /\ p \in S /\ p \notin T => Cardinality(T) = Cardinality(S) - 1
      /\ p \notin S /\ p \in T => Cardinality(T) = Cardinality(S) + 1
      /\ p \notin S /\ p \notin T => Cardinality(T) = Cardinality(S)
  BY <1>1, <1>2, CardinalityChange
<1> QED BY <1>3, <1>4 DEF S, T

LEMMA CountedMoves ==
    ASSUME NEW p \in Posts, OnlyCall(p)
    PROVE  LET before == posts[p].step = "counted"
               after  == posts'[p].step = "counted"
           IN /\ Cardinality(CountedCalls) \in Nat /\ Cardinality(CountedCalls') \in Nat
              /\ before /\ after => Cardinality(CountedCalls') = Cardinality(CountedCalls)
              /\ before /\ ~after => Cardinality(CountedCalls') = Cardinality(CountedCalls) - 1
              /\ ~before /\ ~after => Cardinality(CountedCalls') = Cardinality(CountedCalls)
              /\ Cardinality(CountedCalls') <= Cardinality(Posts) /\ Cardinality(Posts) \in Nat
<1> DEFINE S == CountedCalls
           T == CountedCalls'
<1>1. S \subseteq Posts /\ T \subseteq Posts /\ S \ {p} = T \ {p}
  BY DEF CountedCalls, OnlyCall
<1>2. /\ IsFiniteSet(S) /\ Cardinality(T) <= Cardinality(Posts)
      /\ Cardinality(Posts) \in Nat
  BY <1>1, FS_Subset, FS_CardinalityType, ComposeAssumption
<1>3. /\ p \in S <=> posts[p].step = "counted"
      /\ p \in T <=> posts'[p].step = "counted"
  BY DEF CountedCalls
<1> HIDE DEF S, T
<1>4. /\ Cardinality(S) \in Nat /\ Cardinality(T) \in Nat
      /\ p \in S /\ p \in T => Cardinality(T) = Cardinality(S)
      /\ p \in S /\ p \notin T => Cardinality(T) = Cardinality(S) - 1
      /\ p \notin S /\ p \notin T => Cardinality(T) = Cardinality(S)
  BY <1>1, <1>2, CardinalityChange
<1> QED BY <1>2, <1>3, <1>4 DEF S, T

LEMMA MailInit == Init => MailInv
<1> SUFFICES ASSUME Init PROVE MailInv
  OBVIOUS
<1>1. /\ page = "open" /\ told = [m \in Mails |-> "nothing"] /\ sending = 0
      /\ queue = {} /\ sync = FALSE /\ todo = {} /\ depth = 0 /\ refused = {}
      /\ posts = [p \in Posts |-> FreePost]
      /\ sent = [m \in Mails |-> 0] /\ jobs = [m \in Mails |-> 0]
      /\ lost = [m \in Mails |-> 0]
  BY DEF Init
<1>2. FreePost \in PostType /\ FreePost.by = "nobody" /\ FreePost.step = "free"
  BY DEF PostType, FreePost
<1>3. 0 \notin Mails /\ "nothing" # "sending"
  BY DEF Mails
<1>4. MailTypes
  BY <1>1, <1>2 DEF MailTypes
<1>5. Calls
  BY <1>1, <1>2, <1>3 DEF Calls
<1>6. ToldIsTrue
  BY <1>1 DEF ToldIsTrue
<1>7. CountedCalls = {} /\ \A m \in Mails : WorkOn(m) = {}
  BY <1>1, <1>2 DEF WorkOn, CountedCalls, AtWork
<1>8. Cardinality({}) = 0 /\ Cardinality(Posts) \in Nat
  BY FS_EmptySet, FS_CardinalityType, ComposeAssumption
<1>9. OnceInv
  BY <1>1, <1>7, <1>8 DEF OnceInv, Charge
<1>10. DepthInv
  BY <1>1, <1>7, <1>8, ComposeAssumption DEF DepthInv
<1> QED BY <1>4, <1>5, <1>6, <1>9, <1>10 DEF MailInv

LEMMA MailFrame ==
    ASSUME MailInv,
           UNCHANGED <<budget, page, told, sending, queue, sync, todo, lost, refused,
                       routeVars>>
    PROVE  MailInv'
<1>1. UNCHANGED <<budget, page, told, sending, queue, sync, todo, lost, refused, posts,
                  sent, jobs, depth>>
  BY DEF routeVars
<1>2. MailTypes' /\ Calls' /\ ToldIsTrue'
  BY <1>1 DEF MailInv, MailTypes, Calls, ToldIsTrue, Mails, PostType
<1>3. OnceInv' /\ DepthInv'
  BY <1>1 DEF MailInv, OnceInv, Charge, WorkOn, Spare, Going, DepthInv, CountedCalls, Mails
<1> QED BY <1>2, <1>3 DEF MailInv

(* A step of the route but the last                                        *)
LEMMA ReachMoves ==
    ASSUME MailTypes, NEW p \in Posts, posts[p].step \in AtWork,
           NEW step \in AtWork \cup Over, Reach(p, step)
    PROVE  /\ posts' \in [Posts -> PostType] /\ OnlyCall(p)
           /\ posts[p].mail \in Mails
           /\ posts[p].by \in {"page", "worker", "nobody"}
           /\ IF posts[p].by = "nobody" /\ step \in Over
              THEN posts'[p].mail = 0 /\ posts'[p].by = "nobody" /\ posts'[p].step = "free"
              ELSE /\ posts'[p].mail = posts[p].mail
                   /\ posts'[p].by = posts[p].by /\ posts'[p].step = step
<1> DEFINE r == IF posts[p].by = "nobody" /\ step \in Over THEN FreePost
                ELSE [posts[p] EXCEPT !.step = step]
<1>1. posts \in [Posts -> PostType] /\ posts[p] \in PostType
  BY DEF MailTypes
<1>2. posts[p] \in [mail : Mails, by : {"page", "worker", "nobody"}, step : AtWork \cup Over]
  BY <1>1 DEF PostType, FreePost, AtWork
<1>3. /\ r \in PostType
      /\ IF posts[p].by = "nobody" /\ step \in Over
         THEN r.mail = 0 /\ r.by = "nobody" /\ r.step = "free"
         ELSE r.mail = posts[p].mail /\ r.by = posts[p].by /\ r.step = step
  BY <1>2 DEF PostType, FreePost
<1>4. posts' = [posts EXCEPT ![p] = r]
  BY DEF Reach, Over
<1> HIDE DEF r
<1>5. posts' \in [Posts -> PostType] /\ OnlyCall(p) /\ posts'[p] = r
  BY <1>1, <1>3, <1>4 DEF OnlyCall
<1> QED BY <1>2, <1>3, <1>5

(* A step of the route that adds no job                                    *)
LEMMA MailReach ==
    ASSUME MailInv, NEW p \in Posts, posts[p].step \in AtWork,
           NEW step \in {"stored", "counted", "denied", "failed"}, Reach(p, step),
           step = "counted" => depth < MaxQueueDepth /\ posts[p].step # "counted",
           sent' \in [Mails -> Nat],
           UNCHANGED <<budget, page, sendVars, jobs, depth>>
    PROVE  MailInv'
<1>1. MailTypes /\ Calls /\ ToldIsTrue /\ OnceInv /\ DepthInv
  BY DEF MailInv
<1>2. UNCHANGED <<budget, page, told, sending, queue, sync, todo, lost, refused, jobs, depth>>
  BY DEF sendVars
<1>3. /\ posts' \in [Posts -> PostType] /\ OnlyCall(p)
      /\ posts[p].mail \in Mails
      /\ posts[p].by \in {"page", "worker", "nobody"}
      /\ IF posts[p].by = "nobody" /\ step \in Over
         THEN posts'[p].mail = 0 /\ posts'[p].by = "nobody" /\ posts'[p].step = "free"
         ELSE /\ posts'[p].mail = posts[p].mail
              /\ posts'[p].by = posts[p].by /\ posts'[p].step = step
  <2> step \in AtWork \cup Over
    BY DEF AtWork, Over
  <2> QED BY <1>1, ReachMoves
<1>4. MailTypes'
  BY <1>1, <1>2, <1>3 DEF MailTypes, Mails, PostType
<1>5. Calls'
  BY <1>1, <1>2, <1>3 DEF Calls, Mails, OnlyCall, Over
<1>6. ToldIsTrue'
  BY <1>1, <1>2 DEF ToldIsTrue, Mails
<1>7. OnceInv'
  <2> SUFFICES ASSUME NEW m \in Mails
               PROVE  Charge'[m] <= 1 + lost[m] /\ (Spare(m)' => Charge'[m] <= lost[m])
    BY <1>2 DEF OnceInv, Mails
  <2>1. /\ jobs[m] \in Nat /\ lost[m] \in Nat
        /\ Charge[m] <= 1 + lost[m] /\ (Spare(m) => Charge[m] <= lost[m])
    BY <1>1 DEF MailTypes, OnceInv
  <2>2. /\ Charge[m] = jobs[m] + Cardinality(WorkOn(m))
        /\ Charge'[m] = jobs[m] + Cardinality(WorkOn(m)')
    BY <1>2 DEF Charge, Mails
  <2>3. CASE posts[p].mail = m /\ step \in Over
    <3>1. ~(posts'[p].mail = m /\ posts'[p].step \in AtWork)
      BY <1>3, <2>3 DEF Mails, AtWork, Over
    <3>2. /\ Cardinality(WorkOn(m)') = Cardinality(WorkOn(m)) - 1
          /\ Cardinality(WorkOn(m)) \in Nat
      BY <1>3, <2>3, <3>1, WorkMoves
    <3> QED BY <2>1, <2>2, <3>2
  <2>4. CASE posts[p].mail = m /\ step \notin Over
    <3>1. posts'[p].mail = m /\ posts'[p].step \in AtWork
      BY <1>3, <2>4 DEF AtWork, Over
    <3>2. Cardinality(WorkOn(m)') = Cardinality(WorkOn(m))
      BY <1>3, <2>4, <3>1, WorkMoves
    <3>3. Spare(m)' => Spare(m)
      BY <1>2, <1>3, <2>4 DEF Spare, Going, OnlyCall, AtWork, Over
    <3> QED BY <2>1, <2>2, <3>2, <3>3
  <2>5. CASE posts[p].mail # m
    <3>1. posts'[p].mail # m
      BY <1>3, <2>5 DEF Mails
    <3>2. Cardinality(WorkOn(m)') = Cardinality(WorkOn(m))
      BY <1>3, <2>5, <3>1, WorkMoves
    <3>3. Spare(m)' => Spare(m)
      BY <1>2, <1>3, <2>5, <3>1 DEF Spare, Going, OnlyCall
    <3> QED BY <2>1, <2>2, <3>2, <3>3
  <2> QED BY <2>3, <2>4, <2>5
<1>8. DepthInv'
  <2>1. /\ depth \in Nat /\ MaxQueueDepth \in Nat \ {0}
        /\ depth + Cardinality(CountedCalls) <= MaxQueueDepth + Cardinality(Posts) - 1
    BY <1>1, ComposeAssumption DEF MailTypes, DepthInv
  <2>2. posts'[p].step \in {step, "free"}
    BY <1>3
  <2>3. CASE posts'[p].step = "counted"
    <3>1. /\ Cardinality(CountedCalls') <= Cardinality(Posts)
          /\ Cardinality(Posts) \in Nat /\ Cardinality(CountedCalls') \in Nat
      BY <1>3, CountedMoves
    <3>2. depth < MaxQueueDepth
      BY <2>2, <2>3
    <3> QED BY <1>2, <2>1, <3>1, <3>2 DEF DepthInv
  <2>4. CASE posts'[p].step # "counted"
    <3>1. /\ Cardinality(CountedCalls') <= Cardinality(CountedCalls)
          /\ Cardinality(CountedCalls) \in Nat /\ Cardinality(CountedCalls') \in Nat
          /\ Cardinality(Posts) \in Nat
      BY <1>3, <2>4, CountedMoves
    <3> QED BY <1>2, <2>1, <3>1 DEF DepthInv
  <2> QED BY <2>3, <2>4
<1> QED BY <1>4, <1>5, <1>6, <1>7, <1>8 DEF MailInv

LEMMA MailDeny ==
    ASSUME budget \in BudgetType, MailInv, NEW p \in Posts, Deny(p)
    PROVE  MailInv'
<1>1. posts[p].step \in AtWork /\ sent' \in [Mails -> Nat]
  BY DEF Deny, AtWork, MailInv, MailTypes
<1> QED BY <1>1, MailReach DEF Deny, pageVars

LEMMA MailStoreSentCopy ==
    ASSUME budget \in BudgetType, MailInv, NEW p \in Posts, StoreSentCopy(p)
    PROVE  MailInv'
<1>1. posts[p].step \in AtWork
  BY DEF StoreSentCopy, AtWork
<1>2. sent \in [Mails -> Nat] /\ sent' = [sent EXCEPT ![posts[p].mail] = @ + 1]
  BY DEF StoreSentCopy, MailInv, MailTypes
<1>3. posts[p].mail \in Mails
  BY <1>1, PostFields DEF MailInv, MailTypes, AtWork
<1>4. sent' \in [Mails -> Nat]
  BY <1>2, <1>3
<1> QED BY <1>1, <1>4, MailReach DEF StoreSentCopy, pageVars

LEMMA MailCountJobs ==
    ASSUME budget \in BudgetType, MailInv, NEW p \in Posts, CountJobs(p)
    PROVE  MailInv'
<1> DEFINE step == IF depth >= MaxQueueDepth THEN "failed" ELSE "counted"
<1>1. posts[p].step \in AtWork /\ sent' \in [Mails -> Nat]
      /\ posts[p].step # "counted"
  BY DEF CountJobs, AtWork, MailInv, MailTypes
<1>2. depth \in Nat /\ MaxQueueDepth \in Nat
  BY ComposeAssumption DEF MailInv, MailTypes
<1>3. /\ step \in {"stored", "counted", "denied", "failed"}
      /\ step = "counted" => depth < MaxQueueDepth
  BY <1>2
<1>4. /\ Reach(p, step)
      /\ UNCHANGED <<budget, page, sendVars, jobs, depth>>
  BY DEF CountJobs, pageVars
<1> HIDE DEF step
<1> QED BY <1>1, <1>3, <1>4, MailReach

LEMMA MailFailPost ==
    ASSUME budget \in BudgetType, MailInv, NEW p \in Posts, FailPost(p)
    PROVE  MailInv'
<1>1. posts[p].step \in AtWork /\ sent' \in [Mails -> Nat]
  BY DEF FailPost, AtWork, MailInv, MailTypes
<1> QED BY <1>1, MailReach DEF FailPost, pageVars

(* The job is added: the call is no longer at work, the mail has one more. *)
LEMMA MailAddJob ==
    ASSUME budget \in BudgetType, MailInv, NEW p \in Posts, AddJob(p)
    PROVE  MailInv'
<1> DEFINE mail == posts[p].mail
<1>1. MailTypes /\ Calls /\ ToldIsTrue /\ OnceInv /\ DepthInv
  BY DEF MailInv
<1>2. /\ UNCHANGED <<budget, page, told, sending, queue, sync, todo, lost, refused, sent>>
      /\ posts[p].step = "counted" /\ Reach(p, "ok")
      /\ jobs' = [jobs EXCEPT ![mail] = @ + 1] /\ depth' = depth + 1
  BY DEF AddJob, sendVars, pageVars
<1>3. /\ posts' \in [Posts -> PostType] /\ OnlyCall(p) /\ mail \in Mails
      /\ posts[p].by \in {"page", "worker", "nobody"}
      /\ IF posts[p].by = "nobody"
         THEN posts'[p].mail = 0 /\ posts'[p].by = "nobody" /\ posts'[p].step = "free"
         ELSE /\ posts'[p].mail = mail
              /\ posts'[p].by = posts[p].by /\ posts'[p].step = "ok"
  BY <1>1, <1>2, ReachMoves DEF AtWork, Over
<1> HIDE DEF mail
<1>4. /\ jobs' \in [Mails -> Nat] /\ jobs'[mail] = jobs[mail] + 1
      /\ \A m \in Mails : jobs'[m] >= jobs[m] /\ (m # mail => jobs'[m] = jobs[m])
      /\ depth \in Nat /\ jobs \in [Mails -> Nat]
  BY <1>1, <1>2, <1>3 DEF MailTypes
<1>5. MailTypes'
  BY <1>1, <1>2, <1>3, <1>4 DEF MailTypes, Mails, PostType
<1>6. Calls'
  <2>1. \A q \in Posts :
           /\ posts'[q].by \in {"page", "worker"} =>
                 posts'[q].by = posts[q].by /\ posts'[q].mail = posts[q].mail
           /\ posts'[q].by = posts[q].by \/ posts'[q].by = "nobody"
    BY <1>3 DEF OnlyCall, mail
  <2>2. \A q \in Posts :
           posts'[q].by \in {"page", "worker"} /\ posts'[q].step = "ok" =>
               jobs'[posts'[q].mail] > 0
    <3> SUFFICES ASSUME NEW q \in Posts, posts'[q].by \in {"page", "worker"},
                        posts'[q].step = "ok"
                 PROVE  jobs'[posts'[q].mail] > 0
      OBVIOUS
    <3>1. CASE q = p
      BY <3>1, <1>3, <1>4
    <3>2. CASE q # p
      <4>1. posts'[q] = posts[q] /\ posts[q] \in PostType
        BY <3>2, <1>1, <1>3 DEF OnlyCall, MailTypes
      <4>2. posts[q].mail \in Mails
        BY <4>1, PostFields
      <4>3. jobs[posts[q].mail] > 0
        BY <4>1, <1>1 DEF Calls
      <4> QED BY <4>1, <4>2, <4>3, <1>4
    <3> QED BY <3>1, <3>2
  <2> QED BY <1>1, <1>2, <2>1, <2>2 DEF Calls, Mails
<1>7. ToldIsTrue'
  BY <1>1, <1>2, <1>4 DEF ToldIsTrue, Mails
<1>8. OnceInv'
  <2> SUFFICES ASSUME NEW m \in Mails
               PROVE  Charge'[m] <= 1 + lost[m] /\ (Spare(m)' => Charge'[m] <= lost[m])
    BY <1>2 DEF OnceInv, Mails
  <2>1. /\ jobs[m] \in Nat /\ lost[m] \in Nat
        /\ Charge[m] <= 1 + lost[m] /\ (Spare(m) => Charge[m] <= lost[m])
    BY <1>1 DEF MailTypes, OnceInv
  <2>2. /\ Charge[m] = jobs[m] + Cardinality(WorkOn(m))
        /\ Charge'[m] = jobs'[m] + Cardinality(WorkOn(m)')
    BY <1>2 DEF Charge, Mails
  <2>3. Spare(m)' => Spare(m)
    BY <1>2, <1>3 DEF Spare, Going, OnlyCall, mail
  <2>4. CASE m = mail
    <3>1. /\ Cardinality(WorkOn(m)') = Cardinality(WorkOn(m)) - 1
          /\ Cardinality(WorkOn(m)) \in Nat
      BY <1>2, <1>3, <2>4, WorkMoves DEF mail, AtWork, Mails
    <3> QED BY <1>4, <2>1, <2>2, <2>3, <2>4, <3>1
  <2>5. CASE m # mail
    <3>1. Cardinality(WorkOn(m)') = Cardinality(WorkOn(m))
      BY <1>3, <2>5, WorkMoves DEF mail, Mails
    <3> QED BY <1>4, <2>1, <2>2, <2>3, <2>5, <3>1
  <2> QED BY <2>4, <2>5
<1>9. DepthInv'
  <2>1. /\ Cardinality(CountedCalls') = Cardinality(CountedCalls) - 1
        /\ Cardinality(CountedCalls) \in Nat /\ Cardinality(Posts) \in Nat
    BY <1>2, <1>3, CountedMoves
  <2> QED BY <1>1, <1>2, <1>4, <2>1, ComposeAssumption DEF DepthInv
<1> QED BY <1>5, <1>6, <1>7, <1>8, <1>9 DEF MailInv

LEMMA MailDrain ==
    ASSUME budget \in BudgetType, MailInv, Drain
    PROVE  MailInv'
<1>1. UNCHANGED <<budget, page, told, sending, queue, sync, todo, lost, refused, posts,
                  sent, jobs>>
      /\ depth' = depth - 1 /\ depth > 0
  BY DEF Drain, sendVars, pageVars
<1>2. depth \in Nat /\ Cardinality(Posts) \in Nat
  BY FS_CardinalityType, ComposeAssumption DEF MailInv, MailTypes
<1>3. MailTypes' /\ Calls' /\ ToldIsTrue'
  BY <1>1, <1>2 DEF MailInv, MailTypes, Calls, ToldIsTrue, Mails, PostType
<1>4. OnceInv'
  BY <1>1 DEF MailInv, OnceInv, Charge, WorkOn, Spare, Going, Mails
<1>5. DepthInv'
  <2>1. CountedCalls \subseteq Posts
    BY DEF CountedCalls
  <2>2. Cardinality(CountedCalls) \in Nat /\ CountedCalls' = CountedCalls
    BY <1>1, <2>1, FS_Subset, FS_CardinalityType, ComposeAssumption DEF CountedCalls
  <2> QED BY <1>1, <1>2, <2>2, ComposeAssumption DEF MailInv, DepthInv
<1> QED BY <1>3, <1>4, <1>5 DEF MailInv

-----------------------------------------------------------------------------
(* The mails: the page and the service worker.                             *)

(* Calls that a client holds are for a mail.                               *)
LEMMA HeldCall ==
    ASSUME MailTypes, NEW p \in Posts, posts[p].by \in {"page", "worker"}
    PROVE  posts[p] \in PostType /\ posts[p].mail \in Mails
           /\ posts[p].step \in AtWork \cup Over
<1>1. posts[p] \in PostType
  BY DEF MailTypes
<1> QED BY <1>1, PostFields

(* A call is made for a mail that may have no other at work.               *)
LEMMA MailOpens ==
    ASSUME MailInv, NEW p \in Posts, NEW m \in Mails, NEW by \in {"page", "worker"},
           posts[p] = FreePost, Open(p, m, by), CallOf(by) = {}, Spare(m),
           by = "page" => page = "open" /\ sending = m,
           by = "worker" => m \in todo,
           UNCHANGED <<budget, page, sendVars, sent, jobs, depth>>
    PROVE  MailInv'
<1> DEFINE r == [mail |-> m, by |-> by, step |-> "gate"]
<1>1. MailTypes /\ Calls /\ ToldIsTrue /\ OnceInv /\ DepthInv
  BY DEF MailInv
<1>2. UNCHANGED <<budget, page, told, sending, queue, sync, todo, lost, refused, sent,
                  jobs, depth>>
  BY DEF sendVars
<1>3. r \in PostType /\ r.mail = m /\ r.by = by /\ r.step = "gate"
  BY DEF PostType, AtWork
<1>4. posts \in [Posts -> PostType] /\ posts' = [posts EXCEPT ![p] = r]
  BY <1>1 DEF MailTypes, Open
<1> HIDE DEF r
<1>5. posts' \in [Posts -> PostType] /\ OnlyCall(p) /\ posts'[p] = r
  BY <1>3, <1>4 DEF OnlyCall
<1>6. posts[p].mail = 0 /\ posts[p].by = "nobody" /\ posts[p].step = "free" /\ 0 \notin Mails
  BY DEF FreePost, Mails
<1>7. \A q \in Posts : posts[q].by # by
  BY DEF CallOf
<1>8. MailTypes'
  BY <1>1, <1>2, <1>5 DEF MailTypes, Mails, PostType
<1>9. Calls'
  BY <1>1, <1>2, <1>3, <1>5, <1>7 DEF Calls, Mails, OnlyCall
<1>10. ToldIsTrue'
  BY <1>1, <1>2 DEF ToldIsTrue, Mails
<1>11. told[m] \in {"sending", "offline"} /\ (by = "page" => told[m] = "sending")
       /\ (by = "worker" => told[m] = "offline")
  BY <1>1 DEF Calls
<1>12. OnceInv'
  <2> SUFFICES ASSUME NEW k \in Mails
               PROVE  Charge'[k] <= 1 + lost[k] /\ (Spare(k)' => Charge'[k] <= lost[k])
    BY <1>2 DEF OnceInv, Mails
  <2>1. /\ jobs[k] \in Nat /\ lost[k] \in Nat
        /\ Charge[k] <= 1 + lost[k] /\ (Spare(k) => Charge[k] <= lost[k])
    BY <1>1 DEF MailTypes, OnceInv
  <2>2. /\ Charge[k] = jobs[k] + Cardinality(WorkOn(k))
        /\ Charge'[k] = jobs[k] + Cardinality(WorkOn(k)')
    BY <1>2 DEF Charge, Mails
  <2>3. CASE k = m
    <3>1. /\ Cardinality(WorkOn(k)') = Cardinality(WorkOn(k)) + 1
          /\ Cardinality(WorkOn(k)) \in Nat
      BY <1>3, <1>5, <1>6, <2>3, WorkMoves DEF AtWork
    <3>2. Going(by, m)'
      BY <1>3, <1>5 DEF Going
    <3>3. ~Spare(k)'
      <4>1. CASE by = "page"
        <5>1. m \notin queue
          BY <4>1, <1>1, <1>11 DEF Calls
        <5> QED BY <4>1, <5>1, <3>2, <2>3, <1>2, <1>11 DEF Spare
      <4>2. CASE by = "worker"
        BY <4>2, <3>2, <2>3, <1>2, <1>11 DEF Spare
      <4> QED BY <4>1, <4>2
    <3> QED BY <2>1, <2>2, <2>3, <3>1, <3>3
  <2>4. CASE k # m
    <3>1. Cardinality(WorkOn(k)') = Cardinality(WorkOn(k))
      BY <1>3, <1>5, <1>6, <2>4, WorkMoves
    <3>2. Spare(k)' => Spare(k)
      BY <1>2, <1>3, <1>5, <1>6, <2>4 DEF Spare, Going, OnlyCall
    <3> QED BY <2>1, <2>2, <3>1, <3>2
  <2> QED BY <2>3, <2>4
<1>13. DepthInv'
  <2>1. Cardinality(CountedCalls') = Cardinality(CountedCalls)
    BY <1>3, <1>5, <1>6, CountedMoves
  <2> QED BY <1>1, <1>2, <2>1 DEF DepthInv
<1> QED BY <1>8, <1>9, <1>10, <1>12, <1>13 DEF MailInv

LEMMA MailPost ==
    ASSUME budget \in BudgetType, MailInv, NEW p \in Posts, PostMail(p)
    PROVE  MailInv'
<1>1. /\ page = "open" /\ sending # 0 /\ CallOf("page") = {} /\ posts[p] = FreePost
      /\ Open(p, sending, "page")
      /\ UNCHANGED <<budget, page, sendVars, sent, jobs, depth>>
  BY DEF PostMail, pageVars
<1>2. sending \in Mails /\ told[sending] = "sending"
  BY <1>1 DEF MailInv, MailTypes, Calls
<1>3. Spare(sending)
  BY <1>1, <1>2 DEF Spare, Going, CallOf
<1> QED BY <1>1, <1>2, <1>3, MailOpens

LEMMA MailPostItem ==
    ASSUME budget \in BudgetType, MailInv, NEW p \in Posts, PostItem(p)
    PROVE  MailInv'
<1>1. PICK m \in todo : Open(p, m, "worker")
  BY DEF PostItem
<1>2. /\ CallOf("worker") = {} /\ posts[p] = FreePost
      /\ UNCHANGED <<budget, page, sendVars, sent, jobs, depth>>
  BY DEF PostItem, pageVars
<1>3. m \in Mails /\ m \in queue
  BY DEF MailInv, MailTypes, Calls
<1>4. Spare(m)
  BY <1>2, <1>3 DEF Spare, Going, CallOf
<1> QED BY <1>1, <1>2, <1>3, <1>4, MailOpens

LEMMA MailPressSend ==
    ASSUME budget \in BudgetType, MailInv, NEW m \in Mails, PressSend(m)
    PROVE  MailInv'
<1>1. MailTypes /\ Calls /\ ToldIsTrue /\ OnceInv /\ DepthInv
  BY DEF MailInv
<1>2. /\ page = "open" /\ sending = 0 /\ told[m] = "nothing"
      /\ sending' = m /\ told' = [told EXCEPT ![m] = "sending"]
      /\ UNCHANGED <<budget, page, queue, sync, todo, lost, refused, posts, sent, jobs,
                     depth>>
  BY DEF PressSend, pageVars, routeVars
<1>3. /\ told'[m] = "sending" /\ \A k \in Mails : k # m => told'[k] = told[k]
      /\ told' \in [Mails -> {"nothing", "sending", "queued", "offline", "error"}]
  BY <1>1, <1>2 DEF MailTypes
<1>4. 0 \notin Mails
  BY DEF Mails
<1>5. MailTypes'
  BY <1>1, <1>2, <1>3 DEF MailTypes, Mails, PostType
<1>6. Calls'
  <2>1. \A p \in Posts : posts[p].by # "page"
    <3> SUFFICES ASSUME NEW p \in Posts, posts[p].by = "page" PROVE FALSE
      OBVIOUS
    <3>1. posts[p].mail \in Mails
      BY <1>1, HeldCall
    <3> QED BY <3>1, <1>1, <1>2, <1>4 DEF Calls
  <2> QED BY <1>1, <1>2, <1>3, <1>4, <2>1 DEF Calls, Mails, MailTypes
<1>7. ToldIsTrue'
  BY <1>1, <1>2, <1>3 DEF ToldIsTrue, Mails
<1>8. OnceInv'
  <2> SUFFICES ASSUME NEW k \in Mails
               PROVE  Charge'[k] <= 1 + lost[k] /\ (Spare(k)' => Charge'[k] <= lost[k])
    BY <1>2 DEF OnceInv, Mails
  <2>1. Charge'[k] = Charge[k]
    BY <1>2 DEF Charge, WorkOn, Mails
  <2>2. Spare(k)' => Spare(k)
    BY <1>2, <1>3 DEF Spare, Going
  <2> QED BY <1>1, <2>1, <2>2 DEF OnceInv
<1>9. DepthInv'
  BY <1>1, <1>2 DEF DepthInv, CountedCalls
<1> QED BY <1>5, <1>6, <1>7, <1>8, <1>9 DEF MailInv

(* A client forgets a call: posts[p] becomes free.                         *)
LEMMA CallForgotten ==
    ASSUME MailTypes, NEW p \in Posts, posts[p].by \in {"page", "worker"},
           posts' = [posts EXCEPT ![p] = FreePost]
    PROVE  /\ posts' \in [Posts -> PostType] /\ OnlyCall(p)
           /\ posts'[p].mail = 0 /\ posts'[p].by = "nobody" /\ posts'[p].step = "free"
<1>1. posts \in [Posts -> PostType] /\ FreePost \in PostType
  BY DEF MailTypes, PostType
<1>2. posts' \in [Posts -> PostType] /\ OnlyCall(p) /\ posts'[p] = FreePost
  BY <1>1, CallMoves
<1> QED BY <1>2 DEF FreePost

(* A client gives a call up: the call ends, or goes on for nobody.         *)
LEMMA CallAbandoned ==
    ASSUME MailTypes, NEW p \in Posts, posts[p].by \in {"page", "worker"}, Abandon(p)
    PROVE  /\ posts' \in [Posts -> PostType] /\ OnlyCall(p)
           /\ posts'[p].by = "nobody"
           /\ \/ posts'[p].mail = 0 /\ posts'[p].step = "free"
              \/ posts'[p].mail = posts[p].mail /\ posts'[p].step = posts[p].step
                 /\ posts[p].step \in AtWork
           /\ lost' \in [Mails -> Nat]
           /\ lost'[posts[p].mail] = lost[posts[p].mail] + 1
           /\ \A m \in Mails : m # posts[p].mail => lost'[m] = lost[m]
<1>1. /\ posts \in [Posts -> PostType] /\ FreePost \in PostType
      /\ posts[p].mail \in Mails /\ posts[p] \in PostType
  BY HeldCall DEF MailTypes, PostType
<1>2. /\ lost' \in [Mails -> Nat]
      /\ lost'[posts[p].mail] = lost[posts[p].mail] + 1
      /\ \A m \in Mails : m # posts[p].mail => lost'[m] = lost[m]
  BY <1>1 DEF Abandon, MailTypes
<1>3. CASE posts' = [posts EXCEPT ![p] = FreePost]
  BY <1>2, <1>3, CallForgotten
<1>4. CASE /\ posts[p].step \in {"gate", "stored", "counted"}
           /\ posts' = [posts EXCEPT ![p].by = "nobody"]
  <2> DEFINE r == [posts[p] EXCEPT !.by = "nobody"]
  <2>1. posts[p] \in [mail : Mails, by : {"page", "worker", "nobody"},
                      step : AtWork \cup Over]
    BY <1>1 DEF PostType, FreePost
  <2>2. /\ r \in PostType /\ r.mail = posts[p].mail /\ r.by = "nobody"
        /\ r.step = posts[p].step
    BY <2>1 DEF PostType
  <2>3. posts' = [posts EXCEPT ![p] = r]
    BY <1>4
  <2> HIDE DEF r
  <2>4. posts' \in [Posts -> PostType] /\ OnlyCall(p) /\ posts'[p] = r
    BY <1>1, <2>2, <2>3 DEF OnlyCall
  <2> QED BY <1>2, <1>4, <2>2, <2>4 DEF AtWork
<1> QED BY <1>3, <1>4 DEF Abandon

(* Letting a call go does not raise the charge of any mail.                *)
LEMMA LetGo ==
    ASSUME MailTypes, NEW p \in Posts, OnlyCall(p), posts[p].mail \in Mails,
           \/ posts'[p].mail = 0 /\ posts'[p].step = "free"
           \/ posts'[p].mail = posts[p].mail /\ posts'[p].step = posts[p].step,
           UNCHANGED <<budget, jobs, depth>>, DepthInv
    PROVE  /\ \A m \in Mails : /\ Charge[m] \in Nat /\ Charge'[m] \in Nat
                               /\ Charge'[m] <= Charge[m]
           /\ DepthInv'
<1>1. \A m \in Mails : /\ Charge[m] \in Nat /\ Charge'[m] \in Nat
                       /\ Charge'[m] <= Charge[m]
  <2> TAKE m \in Mails
  <2>1. /\ Charge[m] = jobs[m] + Cardinality(WorkOn(m))
        /\ Charge'[m] = jobs[m] + Cardinality(WorkOn(m)') /\ jobs[m] \in Nat
    BY DEF Charge, Mails, MailTypes
  <2>2. posts'[p].mail = m /\ posts'[p].step \in AtWork
           => posts[p].mail = m /\ posts[p].step \in AtWork
    BY DEF AtWork
  <2>3. /\ Cardinality(WorkOn(m)) \in Nat /\ Cardinality(WorkOn(m)') \in Nat
        /\ Cardinality(WorkOn(m)') <= Cardinality(WorkOn(m))
    BY <2>2, WorkMoves
  <2> QED BY <2>1, <2>3
<1>2. /\ Cardinality(CountedCalls) \in Nat /\ Cardinality(CountedCalls') \in Nat
      /\ Cardinality(CountedCalls') <= Cardinality(CountedCalls) /\ Cardinality(Posts) \in Nat
  <2>1. posts'[p].step = "counted" => posts[p].step = "counted"
    OBVIOUS
  <2> QED BY <2>1, CountedMoves
<1>3. DepthInv'
  BY <1>2, ComposeAssumption DEF DepthInv, MailTypes
<1> QED BY <1>1, <1>3

(* The page's own call: which mail, and that there is no other             *)
LEMMA PageCall ==
    ASSUME MailTypes, Calls, NEW p \in Posts, posts[p].by = "page"
    PROVE  /\ sending \in Mails /\ posts[p].mail = sending
           /\ told[sending] = "sending" /\ sending \notin queue /\ page = "open"
           /\ \A q \in Posts : posts[q].by = "page" => q = p
<1>1. posts[p].mail \in Mails
  BY HeldCall
<1> QED BY <1>1 DEF Calls

(* The pending mutation ends and its call is let go.                       *)
LEMMA MailTold ==
    ASSUME MailInv, NEW p \in Posts, posts[p].by = "page",
           posts' \in [Posts -> PostType], OnlyCall(p), posts'[p].by = "nobody",
           \/ posts'[p].mail = 0 /\ posts'[p].step = "free"
           \/ posts'[p].mail = posts[p].mail /\ posts'[p].step = posts[p].step,
           NEW what \in {"queued", "offline", "error"}, Tell(what),
           lost' \in [Mails -> Nat],
           \A m \in Mails : IF m = sending THEN lost'[m] >= lost[m] ELSE lost'[m] = lost[m],
           what = "queued" => jobs[sending] > 0,
           queue' = IF what = "offline" THEN queue \cup {sending} ELSE queue,
           what # "queued" => Charge'[sending] <= lost'[sending],
           page' \in {page, "left"}, sync' \in BOOLEAN,
           UNCHANGED <<budget, todo, refused, sent, jobs, depth>>
    PROVE  MailInv'
<1>1. MailTypes /\ Calls /\ ToldIsTrue /\ OnceInv /\ DepthInv
  BY DEF MailInv
<1>2. /\ sending \in Mails /\ posts[p].mail = sending
      /\ told[sending] = "sending" /\ sending \notin queue
      /\ \A q \in Posts : posts[q].by = "page" => q = p
  BY <1>1, PageCall
<1>3. /\ told' \in [Mails -> {"nothing", "sending", "queued", "offline", "error"}]
      /\ told'[sending] = what /\ \A m \in Mails : m # sending => told'[m] = told[m]
      /\ sending' = 0
  BY <1>1, <1>2 DEF MailTypes, Tell
<1>4. 0 \notin Mails
  BY DEF Mails
<1>5. /\ \A m \in Mails : /\ Charge[m] \in Nat /\ Charge'[m] \in Nat
                          /\ Charge'[m] <= Charge[m]
      /\ DepthInv'
  BY <1>1, <1>2, LetGo
<1>6. MailTypes'
  BY <1>1, <1>2, <1>3 DEF MailTypes, Mails, PostType
<1>7. Calls'
  <2>1. \A q \in Posts : /\ posts'[q].by # "page"
                         /\ posts'[q].by = "worker" => posts'[q] = posts[q]
    BY <1>2 DEF OnlyCall
  <2>2. \A m \in Mails : told'[m] = "sending" <=> sending' = m
    BY <1>1, <1>3, <1>4 DEF Calls
  <2>3. /\ \A q \in Posts : posts'[q].by = "worker" => posts'[q].mail \in todo
        /\ \A q, k \in Posts : posts'[q].by = "worker" /\ posts'[k].by = "worker" => q = k
        /\ \A q \in Posts : posts'[q].by = "worker" /\ posts'[q].step = "ok"
                               => jobs[posts'[q].mail] > 0
    BY <1>1, <2>1 DEF Calls
  <2>4. /\ todo \subseteq queue'
        /\ \A m \in queue' : told'[m] = "offline"
    BY <1>1, <1>2, <1>3 DEF Calls, MailTypes
  <2> QED BY <2>1, <2>2, <2>3, <2>4 DEF Calls, Mails
<1>8. ToldIsTrue'
  BY <1>1, <1>2, <1>3 DEF ToldIsTrue, Mails
<1>9. OnceInv'
  <2> SUFFICES ASSUME NEW m \in Mails
               PROVE  Charge'[m] <= 1 + lost'[m] /\ (Spare(m)' => Charge'[m] <= lost'[m])
    BY DEF OnceInv, Mails
  <2>1. /\ lost[m] \in Nat /\ lost'[m] \in Nat /\ lost'[m] >= lost[m]
        /\ Charge[m] <= 1 + lost[m] /\ (Spare(m) => Charge[m] <= lost[m])
        /\ Charge[m] \in Nat /\ Charge'[m] \in Nat /\ Charge'[m] <= Charge[m]
    BY <1>1, <1>2, <1>5 DEF MailTypes, OnceInv
  <2>2. CASE m = sending
    <3>1. what = "queued" => ~Spare(m)'
      <4>1. what = "queued" => m \notin queue'
        BY <1>2, <2>2
      <4>2. told'[m] = what
        BY <1>3, <2>2
      <4> QED BY <4>1, <4>2 DEF Spare
    <3> QED BY <2>1, <2>2, <3>1
  <2>3. CASE m # sending
    <3>1. Spare(m)' => Spare(m)
      <4>1. \A q \in Posts : posts[q].by = "worker" => posts'[q] = posts[q]
        BY DEF OnlyCall
      <4>2. Going("worker", m) => Going("worker", m)'
        BY <4>1 DEF Going
      <4>3. m \in queue' => m \in queue
        BY <2>3
      <4>4. told'[m] = told[m] /\ told[m] # "sending"
        BY <1>1, <1>3, <2>3 DEF Calls
      <4> QED BY <4>2, <4>3, <4>4 DEF Spare
    <3> QED BY <2>1, <3>1
  <2> QED BY <2>2, <2>3
<1> QED BY <1>5, <1>6, <1>7, <1>8, <1>9 DEF MailInv

LEMMA MailSent ==
    ASSUME budget \in BudgetType, MailInv, NEW p \in Posts, MailIsSent(p)
    PROVE  MailInv'
<1>1. MailTypes /\ Calls
  BY DEF MailInv
<1>2. /\ posts[p].by = "page" /\ posts[p].step = "ok" /\ Tell("queued")
      /\ posts' = [posts EXCEPT ![p] = FreePost] /\ page' = "left"
      /\ UNCHANGED <<budget, queue, sync, todo, lost, refused, sent, jobs, depth>>
  BY DEF MailIsSent, LeavePage
<1>3. sending \in Mails /\ posts[p].mail = sending
  BY <1>1, <1>2, PageCall
<1>4. /\ posts' \in [Posts -> PostType] /\ OnlyCall(p)
      /\ posts'[p].mail = 0 /\ posts'[p].by = "nobody" /\ posts'[p].step = "free"
  BY <1>1, <1>2, CallForgotten
<1>5. jobs[sending] > 0
  BY <1>1, <1>2, <1>3 DEF Calls
<1>6. lost' \in [Mails -> Nat] /\ \A m \in Mails : lost'[m] >= lost[m] /\ lost'[m] = lost[m]
  BY <1>1, <1>2 DEF MailTypes
<1>7. sync' \in BOOLEAN
  BY <1>1, <1>2 DEF MailTypes
<1> QED BY <1>2, <1>4, <1>5, <1>6, <1>7, MailTold

LEMMA MailRefused ==
    ASSUME budget \in BudgetType, MailInv, NEW p \in Posts, MailIsRefused(p)
    PROVE  MailInv'
<1>1. MailTypes /\ Calls /\ OnceInv /\ DepthInv
  BY DEF MailInv
<1>2. /\ posts[p].by = "page" /\ posts[p].step \in {"denied", "failed"} /\ Tell("error")
      /\ posts' = [posts EXCEPT ![p] = FreePost]
      /\ UNCHANGED <<budget, page, queue, sync, todo, lost, refused, sent, jobs, depth>>
  BY DEF MailIsRefused, pageVars
<1>3. /\ sending \in Mails /\ posts[p].mail = sending /\ told[sending] = "sending"
      /\ page = "open" /\ \A q \in Posts : posts[q].by = "page" => q = p
  BY <1>1, <1>2, PageCall
<1>4. /\ posts' \in [Posts -> PostType] /\ OnlyCall(p)
      /\ posts'[p].mail = 0 /\ posts'[p].by = "nobody" /\ posts'[p].step = "free"
  BY <1>1, <1>2, CallForgotten
<1>5. Spare(sending)
  BY <1>2, <1>3 DEF Spare, Going
<1>6. Charge[sending] <= lost[sending] /\ lost[sending] \in Nat
  BY <1>1, <1>3, <1>5 DEF OnceInv, MailTypes
<1>7. /\ Charge[sending] \in Nat /\ Charge'[sending] \in Nat
      /\ Charge'[sending] <= Charge[sending]
  <2>1. posts[p].mail \in Mails /\ UNCHANGED <<budget, jobs, depth>>
    BY <1>2, <1>3
  <2>2. \A m \in Mails : /\ Charge[m] \in Nat /\ Charge'[m] \in Nat
                         /\ Charge'[m] <= Charge[m]
    BY <1>1, <1>4, <2>1, LetGo
  <2> QED BY <1>3, <2>2
<1>8. Charge'[sending] <= lost'[sending]
  BY <1>2, <1>6, <1>7
<1>9. lost' \in [Mails -> Nat] /\ \A m \in Mails : lost'[m] >= lost[m] /\ lost'[m] = lost[m]
  BY <1>1, <1>2 DEF MailTypes
<1>10. sync' \in BOOLEAN
  BY <1>1, <1>2 DEF MailTypes
<1> QED BY <1>2, <1>4, <1>8, <1>9, <1>10, MailTold

(* A mail whose answer is given up has one more excuse to go out again.    *)
LEMMA AbandonedCharge ==
    ASSUME MailInv, NEW p \in Posts, posts[p].by \in {"page", "worker"}, Abandon(p),
           UNCHANGED <<budget, jobs, depth>>
    PROVE  /\ \A m \in Mails :
                 /\ lost[m] \in Nat /\ lost'[m] \in Nat /\ lost'[m] >= lost[m]
                 /\ Charge[m] \in Nat /\ Charge'[m] \in Nat /\ Charge'[m] <= Charge[m]
           /\ Charge'[posts[p].mail] <= lost'[posts[p].mail]
           /\ DepthInv'
<1> DEFINE mail == posts[p].mail
<1>1. MailTypes /\ OnceInv /\ DepthInv
  BY DEF MailInv
<1>2. mail \in Mails
  BY <1>1, HeldCall
<1>3. /\ OnlyCall(p)
      /\ \/ posts'[p].mail = 0 /\ posts'[p].step = "free"
         \/ posts'[p].mail = posts[p].mail /\ posts'[p].step = posts[p].step
      /\ lost' \in [Mails -> Nat] /\ lost'[mail] = lost[mail] + 1
      /\ \A m \in Mails : m # mail => lost'[m] = lost[m]
  BY <1>1, CallAbandoned
<1>4. /\ \A m \in Mails : /\ Charge[m] \in Nat /\ Charge'[m] \in Nat
                          /\ Charge'[m] <= Charge[m]
      /\ DepthInv'
  BY <1>1, <1>2, <1>3, LetGo
<1>5. \A m \in Mails : lost[m] \in Nat /\ Charge[m] <= 1 + lost[m]
  BY <1>1 DEF MailTypes, OnceInv
<1> HIDE DEF mail
<1>6. \A m \in Mails : lost'[m] \in Nat /\ lost'[m] >= lost[m]
  BY <1>2, <1>3, <1>5
<1>7. Charge'[mail] <= lost'[mail]
  <2>1. /\ Charge[mail] \in Nat /\ Charge'[mail] \in Nat /\ Charge'[mail] <= Charge[mail]
        /\ lost[mail] \in Nat /\ Charge[mail] <= 1 + lost[mail]
    <3>1. /\ Charge[mail] \in Nat /\ Charge'[mail] \in Nat
          /\ Charge'[mail] <= Charge[mail]
      BY <1>2, <1>4
    <3>2. lost[mail] \in Nat /\ Charge[mail] <= 1 + lost[mail]
      BY <1>2, <1>5
    <3> QED BY <3>1, <3>2
  <2> QED BY <1>3, <2>1
<1> QED BY <1>4, <1>5, <1>6, <1>7 DEF mail

LEMMA MailTimesOut ==
    ASSUME budget \in BudgetType, MailInv, NEW p \in Posts, SendTimesOut(p)
    PROVE  MailInv'
<1>1. MailTypes /\ Calls
  BY DEF MailInv
<1>2. /\ posts[p].by = "page" /\ Tell("error") /\ Abandon(p)
      /\ UNCHANGED <<budget, page, queue, sync, todo, refused, sent, jobs, depth>>
  BY DEF SendTimesOut, pageVars
<1>3. sending \in Mails /\ posts[p].mail = sending
  BY <1>1, <1>2, PageCall
<1>4. /\ posts' \in [Posts -> PostType] /\ OnlyCall(p) /\ posts'[p].by = "nobody"
      /\ \/ posts'[p].mail = 0 /\ posts'[p].step = "free"
         \/ posts'[p].mail = posts[p].mail /\ posts'[p].step = posts[p].step
      /\ lost' \in [Mails -> Nat]
      /\ \A m \in Mails : m # sending => lost'[m] = lost[m]
  BY <1>1, <1>2, <1>3, CallAbandoned
<1>5. /\ Charge'[sending] <= lost'[sending]
      /\ \A m \in Mails : lost'[m] >= lost[m]
  BY <1>2, <1>3, AbandonedCharge
<1>6. \A m \in Mails : IF m = sending THEN lost'[m] >= lost[m] ELSE lost'[m] = lost[m]
  BY <1>4, <1>5
<1>7. sync' \in BOOLEAN
  BY <1>1, <1>2 DEF MailTypes
<1> QED BY <1>2, <1>4, <1>5, <1>6, <1>7, MailTold

LEMMA MailQueued ==
    ASSUME budget \in BudgetType, MailInv, NEW p \in Posts, QueueMail(p)
    PROVE  MailInv'
<1>1. MailTypes /\ Calls
  BY DEF MailInv
<1>2. /\ posts[p].by = "page" /\ Tell("offline") /\ Abandon(p)
      /\ queue' = queue \cup {sending}
      /\ UNCHANGED <<budget, page, todo, refused, sent, jobs, depth>>
  BY DEF QueueMail, pageVars
<1>3. sending \in Mails /\ posts[p].mail = sending
  BY <1>1, <1>2, PageCall
<1>4. /\ posts' \in [Posts -> PostType] /\ OnlyCall(p) /\ posts'[p].by = "nobody"
      /\ \/ posts'[p].mail = 0 /\ posts'[p].step = "free"
         \/ posts'[p].mail = posts[p].mail /\ posts'[p].step = posts[p].step
      /\ lost' \in [Mails -> Nat]
      /\ \A m \in Mails : m # sending => lost'[m] = lost[m]
  BY <1>1, <1>2, <1>3, CallAbandoned
<1>5. /\ Charge'[sending] <= lost'[sending]
      /\ \A m \in Mails : lost'[m] >= lost[m]
  BY <1>2, <1>3, AbandonedCharge
<1>6. \A m \in Mails : IF m = sending THEN lost'[m] >= lost[m] ELSE lost'[m] = lost[m]
  BY <1>4, <1>5
<1>7. sync' \in BOOLEAN
  BY <1>1 DEF MailTypes, QueueMail
<1> QED BY <1>2, <1>4, <1>5, <1>6, <1>7, MailTold

(* Leaving the page: its calls go on for nobody, or are forgotten.         *)
LEMMA MailDiscard ==
    ASSUME budget \in BudgetType, MailInv, Discard
    PROVE  MailInv'
<1>1. MailTypes /\ Calls /\ ToldIsTrue /\ OnceInv /\ DepthInv
  BY DEF MailInv
<1>2. /\ UNCHANGED <<budget, told, sending, queue, sync, todo, lost, refused, sent, jobs,
                     depth>>
      /\ page' = "left"
      /\ posts' = [p \in Posts |-> IF posts[p].by # "page" THEN posts[p]
                                   ELSE IF posts[p].step \in {"gate", "stored", "counted"}
                                        THEN [posts[p] EXCEPT !.by = "nobody"]
                                        ELSE FreePost]
  BY DEF Discard, LeavePage, sendVars
<1>3. \A p \in Posts :
         /\ posts'[p] \in PostType
         /\ posts'[p].by # "page"
         /\ posts'[p].by = "worker" => posts'[p] = posts[p]
         /\ posts[p].by = "worker" => posts'[p] = posts[p]
         /\ posts'[p].step \in AtWork => posts'[p].mail = posts[p].mail
         /\ posts[p].step \in AtWork => posts'[p].mail = posts[p].mail
         /\ posts'[p].step \in AtWork => posts'[p].step = posts[p].step
         /\ posts[p].step \in AtWork => posts'[p].step = posts[p].step
  <2> TAKE p \in Posts
  <2>1. posts[p] \in PostType
    BY <1>1 DEF MailTypes
  <2>2. CASE posts[p].by # "page"
    BY <1>2, <2>1, <2>2
  <2>3. CASE posts[p].by = "page" /\ posts[p].step \in {"gate", "stored", "counted"}
    <3>1. posts[p] \in [mail : Mails, by : {"page", "worker", "nobody"},
                        step : AtWork \cup Over]
      BY <2>1, <2>3 DEF PostType, FreePost
    <3>2. posts'[p] = [posts[p] EXCEPT !.by = "nobody"]
      BY <1>2, <2>3
    <3> QED BY <3>1, <3>2, <2>3 DEF PostType
  <2>4. CASE posts[p].by = "page" /\ posts[p].step \notin {"gate", "stored", "counted"}
    <3>1. posts'[p] = FreePost
      BY <1>2, <2>4
    <3> QED BY <3>1, <2>4 DEF PostType, FreePost, AtWork
  <2> QED BY <2>2, <2>3, <2>4
<1>4. posts' \in [Posts -> PostType]
  BY <1>2, <1>3
<1>5. MailTypes'
  BY <1>1, <1>2, <1>4 DEF MailTypes, Mails, PostType
<1>6. Calls'
  <2>1. \A p \in Posts : /\ posts'[p].by # "page"
                         /\ posts'[p].by = "worker" => posts'[p] = posts[p]
    BY <1>3
  <2>2. /\ \A q \in Posts : posts'[q].by = "worker" => posts'[q].mail \in todo
        /\ \A q, k \in Posts : posts'[q].by = "worker" /\ posts'[k].by = "worker" => q = k
        /\ \A q \in Posts : posts'[q].by = "worker" /\ posts'[q].step = "ok"
                               => jobs[posts'[q].mail] > 0
    BY <1>1, <2>1 DEF Calls
  <2>3. \A m \in Mails : told[m] = "sending" <=> sending = m
    BY <1>1 DEF Calls
  <2>4. todo \subseteq queue
    BY <1>1 DEF Calls
  <2>5. \A m \in queue : told[m] = "offline"
    BY <1>1 DEF Calls
  <2>6. \A q, k \in Posts :
           posts'[q].by = posts'[k].by /\ posts'[q].by \in {"page", "worker"} => q = k
    BY <2>1, <2>2
  <2>7. \A q \in Posts :
           /\ posts'[q].by = "page" => page' = "open" /\ posts'[q].mail = sending
           /\ posts'[q].by = "worker" => posts'[q].mail \in todo
           /\ posts'[q].by \in {"page", "worker"} /\ posts'[q].step = "ok"
                 => jobs[posts'[q].mail] > 0
    BY <2>1, <2>2
  <2>8. told' = told /\ sending' = sending /\ queue' = queue /\ todo' = todo
        /\ jobs' = jobs /\ Mails' = Mails
    BY <1>2 DEF Mails
  <2> QED BY <2>3, <2>4, <2>5, <2>6, <2>7, <2>8 DEF Calls
<1>7. ToldIsTrue'
  BY <1>1, <1>2 DEF ToldIsTrue, Mails
<1>8. OnceInv'
  <2> SUFFICES ASSUME NEW m \in Mails
               PROVE  Charge'[m] <= 1 + lost[m] /\ (Spare(m)' => Charge'[m] <= lost[m])
    BY <1>2 DEF OnceInv, Mails
  <2>1. WorkOn(m)' = WorkOn(m)
    BY <1>3 DEF WorkOn
  <2>2. Charge'[m] = Charge[m]
    BY <1>2, <2>1 DEF Charge, Mails
  <2>3. Spare(m)' => Spare(m)
    BY <1>2, <1>3 DEF Spare, Going
  <2> QED BY <1>1, <2>2, <2>3 DEF OnceInv
<1>9. DepthInv'
  <2>1. CountedCalls' = CountedCalls
    BY <1>3 DEF CountedCalls, AtWork
  <2> QED BY <1>1, <1>2, <2>1 DEF DepthInv
<1> QED BY <1>5, <1>6, <1>7, <1>8, <1>9 DEF MailInv

LEMMA MailSyncFires ==
    ASSUME budget \in BudgetType, MailInv, SyncFires
    PROVE  MailInv'
<1>1. /\ UNCHANGED <<budget, page, told, sending, queue, lost, refused, posts, sent, jobs,
                     depth>>
      /\ todo = {} /\ todo' = queue /\ sync' = FALSE
  BY DEF SyncFires, pageVars, routeVars
<1>2. MailTypes' /\ Calls' /\ ToldIsTrue'
  BY <1>1 DEF MailInv, MailTypes, Calls, ToldIsTrue, Mails, PostType
<1>3. OnceInv' /\ DepthInv'
  BY <1>1 DEF MailInv, OnceInv, Charge, WorkOn, Spare, Going, DepthInv, CountedCalls, Mails
<1> QED BY <1>2, <1>3 DEF MailInv

(* The worker's own call: which mail, and that there is no other           *)
LEMMA WorkerCall ==
    ASSUME MailTypes, Calls, NEW p \in Posts, posts[p].by = "worker"
    PROVE  /\ posts[p].mail \in Mails /\ posts[p].mail \in todo /\ posts[p].mail \in queue
           /\ told[posts[p].mail] = "offline"
           /\ \A q \in Posts : posts[q].by = "worker" => q = p
<1>1. posts[p].mail \in Mails
  BY HeldCall
<1> QED BY <1>1 DEF Calls

(* The worker is done with an item: what it may do to the store            *)
LEMMA MailItem ==
    ASSUME MailInv, NEW p \in Posts, posts[p].by = "worker",
           posts' \in [Posts -> PostType], OnlyCall(p), posts'[p].by = "nobody",
           \/ posts'[p].mail = 0 /\ posts'[p].step = "free"
           \/ posts'[p].mail = posts[p].mail /\ posts'[p].step = posts[p].step,
           lost' \in [Mails -> Nat],
           \A m \in Mails : IF m = posts[p].mail THEN lost'[m] >= lost[m]
                            ELSE lost'[m] = lost[m],
           queue' \in {queue, queue \ {posts[p].mail}},
           posts[p].mail \in queue' \/ posts[p].step = "ok" \/ posts[p].mail \in refused',
           posts[p].mail \in queue' => Charge'[posts[p].mail] <= lost'[posts[p].mail],
           todo' \subseteq todo \ {posts[p].mail}, sync' \in BOOLEAN,
           refused' \subseteq refused \cup {posts[p].mail}, refused \subseteq refused',
           UNCHANGED <<budget, page, told, sending, sent, jobs, depth>>
    PROVE  MailInv'
<1> DEFINE mail == posts[p].mail
<1>1. MailTypes /\ Calls /\ ToldIsTrue /\ OnceInv /\ DepthInv
  BY DEF MailInv
<1>2. /\ mail \in Mails /\ mail \in todo /\ mail \in queue /\ told[mail] = "offline"
      /\ \A q \in Posts : posts[q].by = "worker" => q = p
  BY <1>1, WorkerCall
<1>3. posts[p].step = "ok" => jobs[mail] > 0
  BY <1>1 DEF Calls
<1>4. /\ \A m \in Mails : /\ Charge[m] \in Nat /\ Charge'[m] \in Nat
                          /\ Charge'[m] <= Charge[m]
      /\ DepthInv'
  BY <1>1, <1>2, LetGo
<1>5. \A q \in Posts : /\ posts'[q].by # "worker"
                       /\ posts'[q].by = "page" => posts'[q] = posts[q]
                       /\ posts[q].by = "page" => posts'[q] = posts[q]
  BY <1>2 DEF OnlyCall
<1>6. MailTypes'
  BY <1>1, <1>2 DEF MailTypes, Mails, PostType
<1>7. Calls'
  <2>1. todo' \subseteq queue' /\ \A m \in queue' : told[m] = "offline"
    BY <1>1 DEF Calls
  <2> QED BY <1>1, <1>5, <2>1 DEF Calls, Mails
<1>8. ToldIsTrue'
  <2> SUFFICES ASSUME NEW m \in Mails, told[m] = "offline"
               PROVE  m \in queue' \/ jobs[m] > 0 \/ m \in refused'
    BY <1>1 DEF ToldIsTrue, Mails
  <2>1. m \in queue \/ jobs[m] > 0 \/ m \in refused
    BY <1>1 DEF ToldIsTrue
  <2> QED BY <1>3, <2>1
<1>9. OnceInv'
  <2> SUFFICES ASSUME NEW m \in Mails
               PROVE  Charge'[m] <= 1 + lost'[m] /\ (Spare(m)' => Charge'[m] <= lost'[m])
    BY DEF OnceInv, Mails
  <2>1. /\ lost[m] \in Nat /\ lost'[m] \in Nat /\ lost'[m] >= lost[m]
        /\ Charge[m] <= 1 + lost[m] /\ (Spare(m) => Charge[m] <= lost[m])
        /\ Charge[m] \in Nat /\ Charge'[m] \in Nat /\ Charge'[m] <= Charge[m]
    BY <1>1, <1>2, <1>4 DEF MailTypes, OnceInv
  <2>2. CASE m = mail
    <3>1. Spare(m)' => m \in queue'
      BY <1>2, <2>2 DEF Spare
    <3> QED BY <2>1, <2>2, <3>1
  <2>3. CASE m # mail
    <3>1. Going("page", m) => Going("page", m)'
      BY <1>5 DEF Going
    <3>2. ~Going("worker", m)
      BY <1>2, <2>3 DEF Going
    <3>3. m \in queue' => m \in queue
      OBVIOUS
    <3>4. Spare(m)' => Spare(m)
      BY <3>1, <3>2, <3>3 DEF Spare
    <3> QED BY <2>1, <3>4
  <2> QED BY <2>2, <2>3
<1> QED BY <1>4, <1>6, <1>7, <1>8, <1>9 DEF MailInv

LEMMA MailItemAnswered ==
    ASSUME budget \in BudgetType, MailInv, NEW p \in Posts, ItemIsAnswered(p)
    PROVE  MailInv'
<1> DEFINE mail == posts[p].mail
<1>1. MailTypes /\ Calls /\ OnceInv /\ DepthInv
  BY DEF MailInv
<1>2. /\ posts[p].by = "worker" /\ posts[p].step \in {"ok", "denied", "failed"}
      /\ queue' = IF posts[p].step = "failed" THEN queue ELSE queue \ {mail}
      /\ refused' = IF posts[p].step = "denied" THEN refused \cup {mail} ELSE refused
      /\ todo' = todo \ {mail} /\ posts' = [posts EXCEPT ![p] = FreePost]
      /\ UNCHANGED <<budget, page, told, sending, sync, lost, sent, jobs, depth>>
  BY DEF ItemIsAnswered, DeleteItem, NextItem, pageVars
<1>3. /\ mail \in Mails /\ mail \in todo /\ mail \in queue /\ told[mail] = "offline"
      /\ \A q \in Posts : posts[q].by = "worker" => q = p
  BY <1>1, <1>2, WorkerCall
<1>4. /\ posts' \in [Posts -> PostType] /\ OnlyCall(p)
      /\ posts'[p].mail = 0 /\ posts'[p].by = "nobody" /\ posts'[p].step = "free"
  BY <1>1, <1>2, CallForgotten
<1>5. mail \in queue' => posts[p].step = "failed"
  BY <1>2
<1>6. posts[p].step = "failed" => Spare(mail)
  BY <1>3 DEF Spare, Going
<1>7. Spare(mail) => Charge[mail] <= lost[mail]
  BY <1>1, <1>3 DEF OnceInv
<1>8. \A m \in Mails : Charge[m] \in Nat /\ Charge'[m] \in Nat /\ Charge'[m] <= Charge[m]
  BY <1>1, <1>2, <1>3, <1>4, LetGo
<1>9. lost \in [Mails -> Nat] /\ lost' = lost /\ sync' \in BOOLEAN
  BY <1>1, <1>2 DEF MailTypes
<1>10. Charge[mail] \in Nat /\ Charge'[mail] \in Nat /\ Charge'[mail] <= Charge[mail]
  BY <1>3, <1>8
<1>11. mail \in queue' => Charge'[mail] <= lost'[mail]
  <2>1. lost[mail] \in Nat
    BY <1>3, <1>9
  <2> QED BY <1>5, <1>6, <1>7, <1>9, <1>10, <2>1
<1>12. /\ mail \in queue' \/ posts[p].step = "ok" \/ mail \in refused'
       /\ refused' \subseteq refused \cup {mail} /\ refused \subseteq refused'
       /\ queue' \in {queue, queue \ {mail}} /\ todo' \subseteq todo \ {mail}
  BY <1>2, <1>3
<1>13. \A m \in Mails : IF m = mail THEN lost'[m] >= lost[m] ELSE lost'[m] = lost[m]
  BY <1>9
<1> QED BY <1>2, <1>4, <1>9, <1>11, <1>12, <1>13, MailItem

(* The item stays, and the answer to its call is lost.                     *)
LEMMA MailItemKept ==
    ASSUME MailInv, NEW p \in Posts, posts[p].by = "worker", Abandon(p),
           todo' \subseteq todo \ {posts[p].mail}, sync' \in BOOLEAN,
           UNCHANGED <<budget, page, told, sending, queue, refused, sent, jobs, depth>>
    PROVE  MailInv'
<1> DEFINE mail == posts[p].mail
<1>1. MailTypes /\ Calls
  BY DEF MailInv
<1>2. mail \in Mails /\ mail \in queue
  BY <1>1, WorkerCall
<1>3. /\ posts' \in [Posts -> PostType] /\ OnlyCall(p) /\ posts'[p].by = "nobody"
      /\ \/ posts'[p].mail = 0 /\ posts'[p].step = "free"
         \/ posts'[p].mail = mail /\ posts'[p].step = posts[p].step
      /\ lost' \in [Mails -> Nat]
      /\ \A m \in Mails : m # mail => lost'[m] = lost[m]
  BY <1>1, CallAbandoned
<1>4. /\ Charge'[mail] <= lost'[mail]
      /\ \A m \in Mails : lost'[m] >= lost[m]
  BY AbandonedCharge
<1>5. \A m \in Mails : IF m = mail THEN lost'[m] >= lost[m] ELSE lost'[m] = lost[m]
  BY <1>3, <1>4
<1>6. queue' \in {queue, queue \ {mail}} /\ mail \in queue'
      /\ refused' \subseteq refused \cup {mail} /\ refused \subseteq refused'
  BY <1>2
<1> QED BY <1>3, <1>4, <1>5, <1>6, MailItem

LEMMA MailItemFails ==
    ASSUME budget \in BudgetType, MailInv, NEW p \in Posts, ItemFails(p)
    PROVE  MailInv'
<1>1. sync' \in BOOLEAN
  BY DEF MailInv, MailTypes, ItemFails
<1> QED BY <1>1, MailItemKept DEF ItemFails, NextItem, pageVars

LEMMA MailWorkerKilled ==
    ASSUME budget \in BudgetType, MailInv, NEW p \in Posts, WorkerKilled(p)
    PROVE  MailInv'
  BY MailItemKept DEF WorkerKilled, pageVars

-----------------------------------------------------------------------------
LEMMA DraftStep ==
    ASSUME budget \in BudgetType, DraftInv, Next
    PROVE  DraftInv'
<1>1. CASE Page
  <2>1. CASE Edit
    BY <2>1, DraftEdit
  <2>9. CASE Toggle
    BY <2>9, DraftFrame DEF Toggle
  <2>10. CASE Resume
    BY <2>10, DraftResume
  <2>2. CASE AutoSave
    BY <2>2, DraftAutoSave
  <2>3. CASE Discard
    BY <2>3, DraftLeavePage DEF Discard
  <2>4. CASE \E n \in 1..Len(saves) : RequestSave(n) \/ SaveEnds(n) \/ SaveGivesUp(n)
    BY <2>4, DraftRequestSave, DraftSaveEnds, DraftSaveGivesUp
  <2>5. CASE \E f \in Files :
                SelectFile(f) \/ ReadFile(f) \/ UploadFile(f) \/ RemoveFile(f)
    BY <2>5, DraftSelectFile, DraftReadFile, DraftUploadFile, DraftRemoveFile
  <2>6. CASE \E m \in Mails : PressSend(m)
    BY <2>6, DraftFrame DEF PressSend
  <2>7. CASE \E p \in Posts : \/ PostMail(p) \/ MailIsRefused(p)
                              \/ SendTimesOut(p) \/ QueueMail(p)
    BY <2>7, DraftFrame DEF PostMail, MailIsRefused, SendTimesOut, QueueMail
  <2>8. CASE \E p \in Posts : MailIsSent(p)
    BY <2>8, DraftLeavePage DEF MailIsSent
  <2> QED BY <1>1, <2>1, <2>2, <2>3, <2>4, <2>5, <2>6, <2>7, <2>8, <2>9,
            <2>10 DEF Page
<1>2. CASE Worker
  BY <1>2, DraftFrame DEF Worker, SyncFires, PostItem, ItemIsAnswered, ItemFails,
                          WorkerKilled
<1>3. CASE Server
  <2>1. CASE \E n \in 1..Len(saves) : ServeSave(n) \/ RefuseSave(n) \/ StoreHalf(n)
    BY <2>1, DraftServeSave, DraftRefuseSave, DraftStoreHalf
  <2>2. CASE \E n \in 1..Len(drafts) : DeleteDraft(n)
    BY <2>2, DraftDelete
  <2>3. CASE \E p \in Posts :
          Deny(p) \/ StoreSentCopy(p) \/ CountJobs(p) \/ AddJob(p) \/ FailPost(p)
    BY <2>3, DraftFrame DEF Deny, StoreSentCopy, CountJobs, AddJob, FailPost
  <2>4. CASE Drain
    BY <2>4, DraftFrame DEF Drain
  <2> QED BY <1>3, <2>1, <2>2, <2>3, <2>4 DEF Server
<1> QED BY <1>1, <1>2, <1>3 DEF Next

LEMMA MailStep ==
    ASSUME budget \in BudgetType, MailInv, Next
    PROVE  MailInv'
<1>1. CASE Page
  <2>1. CASE Edit \/ AutoSave \/ Toggle \/ Resume
    BY <2>1, MailFrame DEF Edit, AutoSave, Toggle, Resume, pageVars, sendVars
  <2>2. CASE Discard
    BY <2>2, MailDiscard
  <2>3. CASE \E n \in 1..Len(saves) : RequestSave(n) \/ SaveEnds(n) \/ SaveGivesUp(n)
    BY <2>3, MailFrame DEF RequestSave, SaveEnds, SaveGivesUp, sendVars
  <2>4. CASE \E f \in Files :
                SelectFile(f) \/ ReadFile(f) \/ UploadFile(f) \/ RemoveFile(f)
    BY <2>4, MailFrame DEF SelectFile, ReadFile, UploadFile, RemoveFile, sendVars
  <2>5. CASE \E m \in Mails : PressSend(m)
    BY <2>5, MailPressSend
  <2>6. CASE \E p \in Posts : \/ PostMail(p) \/ MailIsSent(p) \/ MailIsRefused(p)
                              \/ SendTimesOut(p) \/ QueueMail(p)
    BY <2>6, MailPost, MailSent, MailRefused, MailTimesOut, MailQueued
  <2> QED BY <1>1, <2>1, <2>2, <2>3, <2>4, <2>5, <2>6 DEF Page
<1>2. CASE Worker
  BY <1>2, MailSyncFires, MailPostItem, MailItemAnswered, MailItemFails,
     MailWorkerKilled DEF Worker
<1>3. CASE Server
  <2>1. CASE \E n \in 1..Len(saves) : ServeSave(n) \/ RefuseSave(n) \/ StoreHalf(n)
    BY <2>1, MailFrame DEF ServeSave, RefuseSave, StoreHalf, sendVars
  <2>2. CASE \E n \in 1..Len(drafts) : DeleteDraft(n)
    BY <2>2, MailFrame DEF DeleteDraft, pageVars, sendVars
  <2>3. CASE \E p \in Posts :
          Deny(p) \/ StoreSentCopy(p) \/ CountJobs(p) \/ AddJob(p) \/ FailPost(p)
    BY <2>3, MailDeny, MailStoreSentCopy, MailCountJobs, MailAddJob, MailFailPost
  <2>4. CASE Drain
    BY <2>4, MailDrain
  <2> QED BY <1>3, <2>1, <2>2, <2>3, <2>4 DEF Server
<1> QED BY <1>1, <1>2, <1>3 DEF Next

(* No step changes the budget.                                             *)
LEMMA BudgetStays == Next => UNCHANGED budget
<1> SUFFICES ASSUME Next PROVE UNCHANGED budget
  OBVIOUS
<1>1. CASE Page
  BY <1>1 DEF Page, Edit, AutoSave, Toggle, Resume, Discard, RequestSave, SaveEnds, SaveGivesUp,
     SelectFile, ReadFile, UploadFile, RemoveFile, PressSend, PostMail, MailIsSent,
     MailIsRefused, SendTimesOut, QueueMail
<1>2. CASE Worker
  BY <1>2 DEF Worker, SyncFires, PostItem, ItemIsAnswered, ItemFails, WorkerKilled
<1>3. CASE Server
  BY <1>3 DEF Server, ServeSave, RefuseSave, StoreHalf, DeleteDraft, Deny, StoreSentCopy,
     CountJobs, AddJob, FailPost, Drain
<1> QED BY <1>1, <1>2, <1>3 DEF Next

(* React Query's flags                                                     *)
LEMMA NetStays ==
    ASSUME NetTypes, Next
    PROVE  NetTypes'
<1> USE DEF NetTypes, sendVars, netVars
<1>1. CASE Page
  BY <1>1 DEF Page, Edit, AutoSave, Toggle, Resume, Discard, RequestSave, SaveEnds,
     SaveGivesUp, SelectFile, ReadFile, UploadFile, RemoveFile, PressSend, PostMail,
     MailIsSent, MailIsRefused, SendTimesOut, QueueMail
<1>2. CASE Worker
  BY <1>2 DEF Worker, SyncFires, PostItem, ItemIsAnswered, ItemFails, WorkerKilled
<1>3. CASE Server
  BY <1>3 DEF Server, ServeSave, RefuseSave, StoreHalf, DeleteDraft, Deny,
     StoreSentCopy, CountJobs, AddJob, FailPost, Drain
<1> QED BY <1>1, <1>2, <1>3 DEF Next

(* The two halves are an inductive invariant of Compose.                   *)
THEOREM Invariance == Spec => []IInv
<1>1. Init => IInv
  BY DraftInit, MailInit, ComposeAssumption DEF Init, IInv, NetTypes
<1>2. IInv /\ [Next]_vars => IInv'
  <2> SUFFICES ASSUME IInv, [Next]_vars PROVE IInv'
    OBVIOUS
  <2>1. CASE Next
    BY <2>1, DraftStep, MailStep, NetStays, BudgetStays DEF IInv
  <2>2. CASE UNCHANGED vars
    BY <2>2, DraftFrame, MailFrame DEF IInv, NetTypes, vars, pageVars, sendVars, netVars
  <2> QED BY <2>1, <2>2
<1> QED BY <1>1, <1>2, PTL DEF Spec

(* What the invariant says of the properties                               *)
LEMMA Consequences ==
    IInv => /\ DraftTypes /\ MailTypes
            /\ ToldIsTrue /\ OnceUnlessLost /\ DepthNearLimit /\ SavedTextIsStored
<1> SUFFICES ASSUME IInv
             PROVE  /\ DraftTypes /\ MailTypes
                    /\ ToldIsTrue /\ OnceUnlessLost /\ DepthNearLimit
                    /\ SavedTextIsStored
  OBVIOUS
<1>1. /\ DraftTypes /\ MailTypes /\ ToldIsTrue /\ OnceInv /\ DepthInv /\ StoredInv
  BY DEF IInv, DraftInv, MailInv
<1>2. OnceUnlessLost
  <2> SUFFICES ASSUME NEW m \in Mails
               PROVE  /\ jobs[m] <= 1 + lost[m]
                      /\ told[m] = "error" /\ lost[m] = 0 => jobs[m] = 0
    BY DEF OnceUnlessLost
  <2>1. WorkOn(m) \subseteq Posts
    BY DEF WorkOn
  <2>2. Cardinality(WorkOn(m)) \in Nat
    BY <2>1, FS_Subset, FS_CardinalityType, ComposeAssumption
  <2>3. jobs[m] \in Nat /\ lost[m] \in Nat
    BY <1>1 DEF MailTypes
  <2>4. Charge[m] = jobs[m] + Cardinality(WorkOn(m))
    BY DEF Charge
  <2>5. told[m] = "error" => Spare(m)
    BY DEF Spare
  <2>6. Charge[m] <= 1 + lost[m] /\ (Spare(m) => Charge[m] <= lost[m])
    BY <1>1 DEF OnceInv
  <2> QED BY <2>2, <2>3, <2>4, <2>5, <2>6
<1>3. DepthNearLimit
  <2>1. CountedCalls \subseteq Posts
    BY DEF CountedCalls
  <2>2. Cardinality(CountedCalls) \in Nat /\ Cardinality(Posts) \in Nat
    BY <2>1, FS_Subset, FS_CardinalityType, ComposeAssumption
  <2> QED BY <1>1, <2>2, ComposeAssumption DEF DepthInv, DepthNearLimit, MailTypes
<1>4. SavedTextIsStored
  BY <1>1 DEF StoredInv, SavedTextIsStored
<1> QED BY <1>1, <1>2, <1>3, <1>4

(* Type correctness: the page's refs and mutations, the browser's store    *)
(* and the rows of the server keep their shape; in particular every row    *)
(* that a save or an upload names has been inserted.                       *)
THEOREM ComposeTypes == Spec => [](DraftTypes /\ NetTypes /\ RowsExist /\ MailTypes)
<1>1. IInv => DraftTypes /\ NetTypes /\ RowsExist /\ MailTypes
  BY DEF IInv, DraftInv, MailInv
<1> QED BY <1>1, Invariance, PTL

(* What the page has said of a mail is true, whatever was lost, killed or  *)
(* replayed since.                                                         *)
THEOREM ToldAlwaysTrue == Spec => []ToldIsTrue
BY Consequences, Invariance, PTL

(* A mail has no more jobs than one and its lost answers, and none at all  *)
(* when the page says that it failed and no answer was lost.               *)
THEOREM NoCopyForFree == Spec => []OnceUnlessLost
BY Consequences, Invariance, PTL

(* The queue of a user exceeds its limit by no more than the other calls   *)
(* at work.                                                                *)
THEOREM DepthStaysNear == Spec => []DepthNearLimit
BY Consequences, Invariance, PTL

(* "Draft saved" is said only when the row that the last auto-save was     *)
(* answered with has its text, or is gone; only stray saves take it away.  *)
THEOREM SavedIsStored == Spec => []SavedTextIsStored
BY Consequences, Invariance, PTL

-----------------------------------------------------------------------------
(* The limiter.  The types, then what makes the sorted set enough to know  *)
(* who was counted: only requests that began a window ago or earlier have  *)
(* left it (SetInv).                                                       *)

Points == {"idle", "calling", "passed", "refused", "unanswered", "failed"}

(* Requests, their times and the sorted set have the shape of the code's   *)
(* locals and Redis keys, and no request is ahead of the clock.            *)
LimiterTypes ==
    /\ now \in Nat /\ expires \in Nat
    /\ at \in [Requests -> Points]
    /\ began \in [Requests -> Nat] /\ counted \in [Requests -> Nat]
    /\ members \subseteq Requests
    /\ \A r \in Requests : began[r] <= now /\ counted[r] <= now

(* Type correctness: scores and the members of the set are what the        *)
(* limiter stored, and neither lies in the future.                         *)
THEOREM LimiterTypeCorrect == LimiterSpec => []LimiterTypes
<1>1. LimiterInit => LimiterTypes
  BY DEF LimiterInit, LimiterTypes, Points
<1>2. LimiterTypes /\ [LimiterNext]_limiter => LimiterTypes'
  <2> SUFFICES ASSUME LimiterTypes, [LimiterNext]_limiter PROVE LimiterTypes'
    OBVIOUS
  <2> USE SendLimitAssumption DEF SendLimitAssumption, LimiterTypes, Points
  <2>1. ASSUME NEW r \in Requests, ReadClock(r) PROVE LimiterTypes'
    BY <2>1 DEF ReadClock
  <2>2. ASSUME NEW r \in Requests, Execute(r), NEW p \in Points, at' = [at EXCEPT ![r] = p]
        PROVE  LimiterTypes'
    BY <2>2 DEF Execute, Kept
  <2>3. ASSUME NEW r \in Requests, Limit(r) PROVE LimiterTypes'
    BY <2>2, <2>3 DEF Limit
  <2>4. ASSUME NEW r \in Requests, LoseAnswer(r) PROVE LimiterTypes'
    BY <2>2, <2>4 DEF LoseAnswer
  <2>5. ASSUME NEW r \in Requests, FailOpen(r) PROVE LimiterTypes'
    BY <2>5 DEF FailOpen
  <2>6. CASE Tick
    BY <2>6 DEF Tick
  <2>7. CASE UNCHANGED limiter
    BY <2>7 DEF limiter
  <2> QED BY <2>1, <2>3, <2>4, <2>5, <2>6, <2>7 DEF LimiterNext
<1> QED BY <1>1, <1>2, PTL DEF LimiterSpec

(***************************************************************************)
(* The sorted set                                                          *)
(***************************************************************************)

(* The members are counted requests, and the set outlives them; a counted  *)
(* request is a member until a window has passed since it began.           *)
SetInv ==
    /\ \A e \in members : Counted(e) /\ began[e] + Window <= expires
    /\ \A e \in Requests : Counted(e) => e \in members \/ began[e] + Window <= now

(* The requests that stand against the limit at time t, and those that     *)
(* stand against request r.                                                *)
Through(t) == {r \in Requests : at[r] = "passed" /\ began[r] + Window > t /\ counted[r] <= t}
Against(r) == {e \in Requests : Counted(e) /\ began[e] + Window > began[r] /\ counted[e] <= counted[r]}

LEMMA Parts == SlidingWindow <=> /\ \A t \in 0 .. now : Cardinality(Through(t)) <= Max
                                 /\ \A r \in Requests : at[r] = "refused" => Cardinality(Against(r)) > Max
BY DEF SlidingWindow, AtMostMax, RefusedWhenBusy, Through, Against

LEMMA PartsNext ==
    SlidingWindow' <=> /\ \A t \in 0 .. now' : Cardinality(Through(t)') <= Max
                       /\ \A r \in Requests : at'[r] = "refused" => Cardinality(Against(r)') > Max
BY DEF SlidingWindow, AtMostMax, RefusedWhenBusy, Through, Against, Counted

(* A set of requests has no more elements than one that contains it.       *)
LEMMA Fewer ==
    ASSUME NEW S, NEW T, S \subseteq T, T \subseteq Requests
    PROVE  Cardinality(S) \in Nat /\ Cardinality(T) \in Nat /\ Cardinality(S) <= Cardinality(T)
<1>1. IsFiniteSet(T)
  BY SendLimitAssumption, FS_Subset DEF SendLimitAssumption
<1> QED BY <1>1, FS_Subset, FS_CardinalityType

(* Requests that read the clock, fail or are counted leave the others.     *)
Others(r) == \A e \in Requests \ {r} : at'[e] = at[e] /\ began'[e] = began[e] /\ counted'[e] = counted[e]

LEMMA InitHolds == LimiterInit => SetInv /\ SlidingWindow
<1> SUFFICES ASSUME LimiterInit PROVE SetInv /\ SlidingWindow
  OBVIOUS
<1>1. SetInv /\ \A r \in Requests : at[r] = "idle"
  BY DEF LimiterInit, SetInv, Counted
<1>2. \A t \in 0 .. now : Through(t) = {}
  BY <1>1 DEF Through
<1> QED BY <1>1, <1>2, Parts, FS_EmptySet, SendLimitAssumption DEF SendLimitAssumption

(* A request that was not counted before and is not after.                 *)
LEMMA Uncounted ==
    ASSUME LimiterTypes, SetInv, SlidingWindow, NEW r \in Requests, ReadClock(r) \/ FailOpen(r)
    PROVE  SetInv' /\ SlidingWindow'
<1>1. /\ ~Counted(r) /\ ~Counted(r)' /\ at'[r] # "refused" /\ at'[r] # "passed" /\ Others(r)
      /\ now' = now /\ members' = members /\ expires' = expires
  BY DEF LimiterTypes, Points, ReadClock, FailOpen, Counted, Others
<1>2. \A e \in Requests : Counted(e)' = Counted(e)
  BY <1>1 DEF Counted, Others
<1>3. SetInv'
  BY <1>1, <1>2 DEF SetInv, Others, LimiterTypes
<1>4. \A t \in 0 .. now : Through(t)' = Through(t)
  BY <1>1 DEF Through, Others, Counted
<1>5. \A e \in Requests : at'[e] = "refused" => at[e] = "refused" /\ Against(e)' = Against(e)
  BY <1>1, <1>2 DEF Against, Others
<1> QED BY <1>1, <1>3, <1>4, <1>5, Parts, PartsNext

(* The MULTI of r.  Whoever passed and is still within the window is kept, *)
(* so the count is no smaller than what the window holds; and all that are *)
(* kept began less than a window before r, so it is no larger.             *)
LEMMA Executed ==
    ASSUME LimiterTypes, LimiterTypes', SetInv, SlidingWindow, NEW r \in Requests, at[r] = "calling", Execute(r),
           NEW p \in {"passed", "refused", "unanswered"}, at' = [at EXCEPT ![r] = p],
           p = "passed" => Cardinality(Added(r)) <= Max,
           p = "refused" => Cardinality(Added(r)) > Max
    PROVE  SetInv' /\ SlidingWindow'
<1>1. /\ at'[r] = p /\ Counted(r)' /\ ~Counted(r) /\ Others(r)
      /\ now' = now /\ members' = Added(r) /\ expires' = now + Window
      /\ began' = began /\ counted'[r] = now
  BY DEF LimiterTypes, Execute, Added, Counted, Others
<1>2. /\ now \in Nat /\ Window \in Nat /\ Max \in Nat /\ members \subseteq Requests
      /\ \A e \in Requests : began[e] \in Nat /\ counted[e] \in Nat
                             /\ began[e] <= now /\ counted[e] <= now
  BY SendLimitAssumption DEF LimiterTypes, SendLimitAssumption
<1>3. \A e \in Requests : Counted(e) => Counted(e)' /\ e # r
  BY <1>1 DEF Counted, Others
<1>4. SetInv'
  <2>1. \A e \in Added(r) : Counted(e)' /\ began[e] + Window <= now + Window
    BY <1>1, <1>2, <1>3 DEF Added, Kept, SetInv
  <2>2. ASSUME NEW e \in Requests, Counted(e)' PROVE e \in Added(r) \/ began[e] + Window <= now
    <3>1. CASE e = r
      BY <3>1 DEF Added
    <3>2. CASE e # r
      <4>1. Counted(e)
        BY <1>1, <2>2, <3>2 DEF Counted, Others
      <4> QED BY <1>2, <4>1 DEF SetInv, Added, Kept
    <3> QED BY <3>1, <3>2
  <2> QED BY <1>1, <2>1, <2>2 DEF SetInv
<1>5. ASSUME NEW t \in 0 .. now PROVE Cardinality(Through(t)') <= Max
  <2>1. CASE p # "passed" \/ t < now
    <3>1. Through(t)' = Through(t)
      BY <1>1, <1>2, <2>1 DEF Through, Others, Counted
    <3> QED BY <3>1, Parts
  <2>2. CASE p = "passed" /\ t = now
    <3>1. Through(t)' \subseteq Added(r)
      BY <1>1, <1>2, <2>2 DEF Through, Others, Added, Kept, SetInv, Counted
    <3>2. Added(r) \subseteq Requests
      BY <1>2 DEF Added, Kept
    <3> QED BY <1>2, <2>2, <3>1, <3>2, Fewer
  <2> QED BY <1>2, <2>1, <2>2
<1>6. ASSUME NEW e \in Requests, at'[e] = "refused" PROVE Cardinality(Against(e)') > Max
  <2>1. CASE e = r
    <3>1. Added(r) \subseteq Against(e)'
      BY <1>1, <1>2, <1>3, <2>1, SendLimitAssumption
      DEF Added, Kept, Against, SetInv, Others, SendLimitAssumption
    <3>2. Against(e)' \subseteq Requests
      BY DEF Against
    <3> QED BY <1>1, <1>2, <1>6, <2>1, <3>1, <3>2, Fewer
  <2>2. CASE e # r
    <3>1. at[e] = "refused" /\ Against(e) \subseteq Against(e)' /\ Against(e)' \subseteq Requests
      BY <1>1, <1>2, <1>3, <1>6, <2>2 DEF Against, Others
    <3> QED BY <1>2, <3>1, Parts, Fewer
  <2> QED BY <2>1, <2>2
<1> QED BY <1>1, <1>4, <1>5, <1>6, PartsNext

(* Time passes: windows only lose requests, and the set is deleted when    *)
(* the last of its members has left the window.                            *)
LEMMA Ticked ==
    ASSUME LimiterTypes, SetInv, SlidingWindow, Tick
    PROVE  SetInv' /\ SlidingWindow'
<1>1. /\ now' = now + 1 /\ at' = at /\ began' = began /\ counted' = counted /\ expires' = expires
      /\ now \in Nat /\ expires \in Nat /\ Window \in Nat /\ Max \in Nat
      /\ \A e \in Requests : began[e] \in Nat /\ counted[e] \in Nat
                             /\ began[e] <= now /\ counted[e] <= now
  BY SendLimitAssumption DEF Tick, LimiterTypes, SendLimitAssumption
<1>2. SetInv'
  <2>1. CASE expires <= now + 1
    BY <1>1, <2>1 DEF SetInv, Counted, Tick, LimiterTypes
  <2>2. CASE ~(expires <= now + 1)
    BY <1>1, <2>2 DEF SetInv, Counted, Tick, LimiterTypes
  <2> QED BY <2>1, <2>2
<1>3. \A e \in Requests : at[e] = "refused" => Against(e)' = Against(e)
  BY <1>1 DEF Against, Counted
<1>4. ASSUME NEW t \in 0 .. now + 1 PROVE Cardinality(Through(t)') <= Max
  <2>1. CASE t <= now
    <3>1. Through(t)' = Through(t)
      BY <1>1 DEF Through
    <3> QED BY <1>1, <2>1, <3>1, Parts
  <2>2. CASE t = now + 1
    <3>1. Through(t)' \subseteq Through(now) /\ Through(now) \subseteq Requests
      BY <1>1, <2>2 DEF Through
    <3> QED BY <1>1, <3>1, Parts, Fewer
  <2> QED BY <1>1, <2>1, <2>2
<1> QED BY <1>1, <1>2, <1>3, <1>4, Parts, PartsNext

LEMMA StepHolds ==
    ASSUME LimiterTypes, LimiterTypes', SetInv, SlidingWindow, [LimiterNext]_limiter
    PROVE  SetInv' /\ SlidingWindow'
<1>1. ASSUME NEW r \in Requests, Limit(r) PROVE SetInv' /\ SlidingWindow'
  <2>1. Cardinality(Added(r)) \in Nat /\ Max \in Nat
    <3>1. Added(r) \subseteq Requests
      BY DEF Added, Kept, LimiterTypes
    <3> QED BY <3>1, Fewer, SendLimitAssumption DEF SendLimitAssumption
  <2>2. CASE Cardinality(Added(r)) > Max
    <3>1. at[r] = "calling" /\ Execute(r) /\ at' = [at EXCEPT ![r] = "refused"]
      BY <1>1, <2>2 DEF Limit
    <3> QED BY <2>2, <3>1, Executed
  <2>3. CASE ~(Cardinality(Added(r)) > Max)
    <3>1. at[r] = "calling" /\ Execute(r) /\ at' = [at EXCEPT ![r] = "passed"]
      BY <1>1, <2>3 DEF Limit
    <3>2. Cardinality(Added(r)) <= Max
      BY <2>1, <2>3
    <3> QED BY <3>1, <3>2, Executed
  <2> QED BY <2>2, <2>3
<1>2. ASSUME NEW r \in Requests, LoseAnswer(r) PROVE SetInv' /\ SlidingWindow'
  BY <1>2, Executed DEF LoseAnswer
<1>3. CASE UNCHANGED limiter
  <2>1. SetInv'
    BY <1>3 DEF limiter, SetInv, Counted
  <2>2. SlidingWindow'
    BY <1>3 DEF limiter, SlidingWindow, AtMostMax, RefusedWhenBusy, Counted
  <2> QED BY <2>1, <2>2
<1> QED BY <1>1, <1>2, <1>3, Uncounted, Ticked DEF LimiterNext

(* However many requests overlap, in whatever order their MULTIs arrive    *)
(* and whether or not their answers do, at most Max that began within a    *)
(* window pass the count, and none is refused while fewer stand against    *)
(* it.                                                                     *)
THEOREM WindowAlwaysSlides == LimiterSpec => []SlidingWindow
<1>1. LimiterTypes /\ LimiterTypes' /\ SetInv /\ SlidingWindow /\ [LimiterNext]_limiter => SetInv' /\ SlidingWindow'
  BY StepHolds
<1> QED BY <1>1, InitHolds, LimiterTypeCorrect, PTL DEF LimiterSpec
=============================================================================
