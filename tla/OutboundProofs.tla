--------------------------- MODULE OutboundProofs ---------------------------
(***************************************************************************)
(* Proofs about OutboundDelivery, for any set of jobs and any number of    *)
(* domains, MX, attempts, stalls and administrator retries.                *)
(***************************************************************************)
EXTENDS OutboundDelivery, TLAPS

-----------------------------------------------------------------------------
(* How the operators that actions share change the type of the run.        *)

LEMMA GotoTypes ==
    ASSUME RunTypeOK, pc # "idle", NEW p \in Points \ {"idle"}, Goto(p)
    PROVE  RunTypeOK'
BY DEF RunTypeOK, Goto

(* The end of a run resets it to the idle run.                             *)
LEMMA EndRunTypes ==
    ASSUME RunTypeOK, EndRun
    PROVE  RunTypeOK'
<1>1. 1 \in Domains /\ 1 \in 1..NumMx /\ 1 \in 1..1
  BY OutboundAssumption DEF OutboundAssumption, Domains
<1>2. (cur \in Jobs \cup {NoJob} /\ pc \in Points
        /\ ((pc = "idle") <=> (cur = NoJob)))'
  BY DEF EndRun, Points
<1>3. QED
  BY <1>1, <1>2 DEF RunTypeOK, EndRun

(* The next MX is one of the records of the domain.                        *)
LEMMA NextMxTypes ==
    ASSUME RunTypeOK, pc # "idle", NextMx
    PROVE  RunTypeOK'
<1>1. CASE mx < mxs
  <2>1. mx + 1 \in 1..mxs
    BY <1>1, OutboundAssumption DEF OutboundAssumption, RunTypeOK
  <2>2. (pc \in Points /\ pc # "idle")' /\ mx' \in 1..mxs
    BY <1>1, <2>1 DEF NextMx, Points
  <2>3. UNCHANGED <<cur, dom, mxs, locked>>
    BY <1>1 DEF NextMx
  <2>4. QED
    BY <2>2, <2>3 DEF RunTypeOK
<1>2. CASE ~(mx < mxs)
  BY <1>2, GotoTypes DEF NextMx, Points
<1>3. QED
  BY <1>1, <1>2

(* The worker writes the flags of the row it runs for.                     *)
LEMMA RowFlagTypes ==
    ASSUME RowTypeOK, cur \in Jobs, NEW fs \in SUBSET RowFlags, SetRowFlags(fs)
    PROVE  RowTypeOK'
BY DEF RowTypeOK, SetRowFlags

-----------------------------------------------------------------------------
(* Every variable keeps its type.                                          *)
THEOREM TypeCorrect == Spec => []TypeOK
<1>1. Init => TypeOK
  <2> SUFFICES ASSUME Init PROVE TypeOK
    OBVIOUS
  <2> USE OutboundAssumption DEF OutboundAssumption, Init
  <2>1. QueueTypeOK
    BY DEF QueueTypeOK, JobStates
  <2>2. RowTypeOK /\ LetterTypeOK
    BY DEF RowTypeOK, LetterTypeOK
  <2>3. CopyTypeOK
    BY DEF CopyTypeOK
  <2>4. RunTypeOK
    <3>1. 1 \in Domains /\ 1 \in 1..NumMx /\ 1 \in 1..1
      BY DEF Domains
    <3>2. QED
      BY <3>1 DEF RunTypeOK, Points
  <2>5. QED
    BY <2>1, <2>2, <2>3, <2>4 DEF TypeOK
<1>2. TypeOK /\ [Next]_vars => TypeOK'
  <2> SUFFICES ASSUME TypeOK, [Next]_vars PROVE TypeOK'
    OBVIOUS
  <2> USE DEF TypeOK
  <2>1. ASSUME NEW j \in Jobs, Enqueue(j) PROVE TypeOK'
    <3>1. LetterTypeOK' /\ CopyTypeOK' /\ RunTypeOK'
      BY <2>1
      DEF Enqueue, letterVars, LetterTypeOK, runVars, RunTypeOK, CopyTypeOK
    <3>2. QueueTypeOK'
      BY <2>1 DEF Enqueue, QueueTypeOK, JobStates
    <3>3. RowTypeOK'
      BY <2>1 DEF Enqueue, RowTypeOK, RowFlags
    <3>4. QED
      BY <3>1, <3>2, <3>3
  <2>2. ASSUME NEW j \in Jobs, AdminRetry(j) PROVE TypeOK'
    <3>1. RowTypeOK' /\ LetterTypeOK' /\ CopyTypeOK' /\ RunTypeOK'
      BY <2>2
      DEF AdminRetry, rowVars, RowTypeOK, letterVars, LetterTypeOK, runVars,
          RunTypeOK, CopyTypeOK
    <3>2. QueueTypeOK'
      BY <2>2, OutboundAssumption
      DEF AdminRetry, QueueTypeOK, JobStates, OutboundAssumption
    <3>3. QED
      BY <3>1, <3>2
  <2>3. ASSUME NEW j \in Jobs, Claim(j) PROVE TypeOK'
    <3>1. RowTypeOK' /\ LetterTypeOK' /\ CopyTypeOK'
      BY <2>3
      DEF Claim, rowVars, RowTypeOK, letterVars, LetterTypeOK, CopyTypeOK
    <3>2. QueueTypeOK'
      BY <2>3 DEF Claim, QueueTypeOK, JobStates
    <3>3. RunTypeOK'
      BY <2>3, OutboundAssumption
      DEF Claim, RunTypeOK, Points, OutboundAssumption
    <3>4. QED
      BY <3>1, <3>2, <3>3
  <2>4. ASSUME NEW j \in Jobs, BackoffExpires(j) PROVE TypeOK'
    <3>1. RowTypeOK' /\ LetterTypeOK' /\ CopyTypeOK' /\ RunTypeOK'
      BY <2>4
      DEF BackoffExpires, rowVars, RowTypeOK, letterVars, LetterTypeOK,
          runVars, RunTypeOK, CopyTypeOK
    <3>2. QueueTypeOK'
      BY <2>4 DEF BackoffExpires, QueueTypeOK, JobStates
    <3>3. QED
      BY <3>1, <3>2
  <2>5. ASSUME NEW j \in Jobs, StalledSweep(j) PROVE TypeOK'
    <3>1. RowTypeOK' /\ LetterTypeOK' /\ CopyTypeOK' /\ RunTypeOK'
      BY <2>5
      DEF StalledSweep, rowVars, RowTypeOK, letterVars, LetterTypeOK, runVars,
          RunTypeOK, CopyTypeOK
    <3>2. QueueTypeOK'
      BY <2>5 DEF StalledSweep, QueueTypeOK, JobStates
    <3>3. QED
      BY <3>1, <3>2
  <2>6. ASSUME NEW j \in EditedJobs, DeleteSentCopy(j) PROVE TypeOK'
    <3>1. QueueTypeOK' /\ LetterTypeOK' /\ CopyTypeOK' /\ RunTypeOK'
      BY <2>6
      DEF DeleteSentCopy, queueVars, QueueTypeOK, letterVars, LetterTypeOK,
          runVars, RunTypeOK, CopyTypeOK
    <3>2. RowTypeOK'
      BY <2>6, OutboundAssumption
      DEF DeleteSentCopy, RowTypeOK, RowFlags, OutboundAssumption
    <3>3. QED
      BY <3>1, <3>2
  <2>7. ASSUME NEW j \in EditedJobs, ReadFlags(j) PROVE TypeOK'
    <3>1. QueueTypeOK' /\ LetterTypeOK' /\ CopyTypeOK' /\ RunTypeOK'
      BY <2>7
      DEF ReadFlags, queueVars, QueueTypeOK, letterVars, LetterTypeOK, runVars,
          RunTypeOK, CopyTypeOK
    <3>2. RowTypeOK'
      BY <2>7, OutboundAssumption
      DEF ReadFlags, RowTypeOK, RowFlags, OutboundAssumption
    <3>3. QED
      BY <3>1, <3>2
  <2>8. ASSUME NEW j \in EditedJobs, WriteFlags(j) PROVE TypeOK'
    <3>1. QueueTypeOK' /\ LetterTypeOK' /\ CopyTypeOK' /\ RunTypeOK'
      BY <2>8
      DEF WriteFlags, queueVars, QueueTypeOK, letterVars, LetterTypeOK,
          runVars, RunTypeOK, CopyTypeOK
    <3>2. RowTypeOK'
      BY <2>8, OutboundAssumption
      DEF WriteFlags, RowTypeOK, RowFlags, OutboundAssumption
    <3>3. QED
      BY <3>1, <3>2
  <2>9. CASE Complete
    <3>1. RowTypeOK' /\ LetterTypeOK' /\ CopyTypeOK'
      BY <2>9
      DEF Complete, rowVars, RowTypeOK, letterVars, LetterTypeOK, CopyTypeOK
    <3>2. QueueTypeOK'
      <4>1. cur \in Jobs
        BY <2>9 DEF Complete, RunTypeOK
      <4>2. CASE locked
        BY <2>9, <4>1, <4>2 DEF Complete, QueueTypeOK, JobStates
      <4>3. CASE ~locked
        BY <2>9, <4>3 DEF Complete, QueueTypeOK
      <4>4. QED
        BY <4>2, <4>3
    <3>3. RunTypeOK'
      BY <2>9, EndRunTypes DEF Complete
    <3>4. QED
      BY <3>1, <3>2, <3>3
  <2>10. CASE Reject
    <3>1. RowTypeOK' /\ LetterTypeOK' /\ CopyTypeOK'
      BY <2>10
      DEF Reject, rowVars, RowTypeOK, letterVars, LetterTypeOK, CopyTypeOK
    <3>2. QueueTypeOK'
      <4>1. cur \in Jobs
        BY <2>10 DEF Reject, RunTypeOK
      <4>2. CASE locked
        BY <2>10, <4>1, <4>2 DEF Reject, QueueTypeOK, JobStates
      <4>3. CASE ~locked
        BY <2>10, <4>3 DEF Reject, QueueTypeOK
      <4>4. QED
        BY <4>2, <4>3
    <3>3. RunTypeOK'
      BY <2>10, EndRunTypes DEF Reject
    <3>4. QED
      BY <3>1, <3>2, <3>3
  <2>11. CASE LoseLock
    <3>1. QueueTypeOK' /\ RowTypeOK' /\ LetterTypeOK' /\ CopyTypeOK'
      BY <2>11
      DEF LoseLock, queueVars, QueueTypeOK, rowVars, RowTypeOK, letterVars,
          LetterTypeOK, CopyTypeOK
    <3>2. RunTypeOK'
      BY <2>11 DEF LoseLock, RunTypeOK
    <3>3. QED
      BY <3>1, <3>2
  <2>12. CASE Crash
    <3>1. QueueTypeOK' /\ RowTypeOK' /\ LetterTypeOK' /\ CopyTypeOK'
      BY <2>12
      DEF Crash, queueVars, QueueTypeOK, rowVars, RowTypeOK, letterVars,
          LetterTypeOK, CopyTypeOK
    <3>2. RunTypeOK'
      BY <2>12, EndRunTypes DEF Crash
    <3>3. QED
      BY <3>1, <3>2
  <2>13. CASE LoadMessage
    <3>1. QueueTypeOK' /\ RowTypeOK' /\ LetterTypeOK' /\ CopyTypeOK'
      BY <2>13
      DEF LoadMessage, queueVars, QueueTypeOK, rowVars, RowTypeOK, letterVars,
          LetterTypeOK, CopyTypeOK
    <3>2. RunTypeOK'
      BY <2>13, GotoTypes DEF LoadMessage, Points
    <3>3. QED
      BY <3>1, <3>2
  <2>14. CASE LoadFails
    <3>1. QueueTypeOK' /\ RowTypeOK' /\ LetterTypeOK' /\ CopyTypeOK'
      BY <2>14
      DEF LoadFails, queueVars, QueueTypeOK, rowVars, RowTypeOK, letterVars,
          LetterTypeOK, CopyTypeOK
    <3>2. RunTypeOK'
      BY <2>14, GotoTypes DEF LoadFails, Points
    <3>3. QED
      BY <3>1, <3>2
  <2>15. CASE ResolveMx
    <3>1. QueueTypeOK' /\ RowTypeOK' /\ LetterTypeOK' /\ CopyTypeOK'
      BY <2>15
      DEF ResolveMx, queueVars, QueueTypeOK, rowVars, RowTypeOK, letterVars,
          LetterTypeOK, CopyTypeOK
    <3>2. RunTypeOK'
      BY <2>15, OutboundAssumption
      DEF ResolveMx, RunTypeOK, Points, OutboundAssumption
    <3>3. QED
      BY <3>1, <3>2
  <2>16. CASE ResolveFails
    <3>1. QueueTypeOK' /\ RowTypeOK' /\ LetterTypeOK' /\ CopyTypeOK'
      BY <2>16
      DEF ResolveFails, queueVars, QueueTypeOK, rowVars, RowTypeOK, letterVars,
          LetterTypeOK, CopyTypeOK
    <3>2. RunTypeOK'
      BY <2>16, GotoTypes DEF ResolveFails, Points
    <3>3. QED
      BY <3>1, <3>2
  <2>17. CASE RelayRefused
    <3>1. QueueTypeOK' /\ RowTypeOK' /\ LetterTypeOK' /\ CopyTypeOK'
      BY <2>17
      DEF RelayRefused, queueVars, QueueTypeOK, rowVars, RowTypeOK, letterVars,
          LetterTypeOK, CopyTypeOK
    <3>2. RunTypeOK'
      BY <2>17, NextMxTypes DEF RelayRefused
    <3>3. QED
      BY <3>1, <3>2
  <2>18. CASE RelayAccepted
    <3>1. QueueTypeOK' /\ RowTypeOK' /\ LetterTypeOK'
      BY <2>18
      DEF RelayAccepted, queueVars, QueueTypeOK, rowVars, RowTypeOK,
          letterVars, LetterTypeOK
    <3>2. CopyTypeOK'
      BY <2>18 DEF RelayAccepted, RunTypeOK, CopyTypeOK
    <3>3. RunTypeOK'
      BY <2>18, GotoTypes DEF RelayAccepted, Points
    <3>4. QED
      BY <3>1, <3>2, <3>3
  <2>19. CASE QuitAccepted
    <3>1. QueueTypeOK' /\ RowTypeOK' /\ LetterTypeOK' /\ CopyTypeOK'
      BY <2>19
      DEF QuitAccepted, queueVars, QueueTypeOK, rowVars, RowTypeOK, letterVars,
          LetterTypeOK, CopyTypeOK
    <3>2. RunTypeOK'
      BY <2>19, GotoTypes, OutboundAssumption
      DEF QuitAccepted, RunTypeOK, Points, Domains, OutboundAssumption
    <3>3. QED
      BY <3>1, <3>2
  <2>20. CASE QuitRefused
    <3>1. QueueTypeOK' /\ RowTypeOK' /\ LetterTypeOK' /\ CopyTypeOK'
      BY <2>20
      DEF QuitRefused, queueVars, QueueTypeOK, rowVars, RowTypeOK, letterVars,
          LetterTypeOK, CopyTypeOK
    <3>2. RunTypeOK'
      BY <2>20, NextMxTypes DEF QuitRefused
    <3>3. QED
      BY <3>1, <3>2
  <2>21. CASE MxFallsSilent
    <3>1. QueueTypeOK' /\ RowTypeOK' /\ LetterTypeOK' /\ CopyTypeOK'
      BY <2>21
      DEF MxFallsSilent, queueVars, QueueTypeOK, rowVars, RowTypeOK,
          letterVars, LetterTypeOK, CopyTypeOK
    <3>2. RunTypeOK'
      BY <2>21, GotoTypes DEF MxFallsSilent, Points
    <3>3. QED
      BY <3>1, <3>2
  <2>22. CASE MarkDelivered
    <3>1. QueueTypeOK' /\ LetterTypeOK' /\ CopyTypeOK'
      BY <2>22
      DEF MarkDelivered, queueVars, QueueTypeOK, letterVars, LetterTypeOK,
          CopyTypeOK
    <3>2. RowTypeOK'
      BY <2>22, RowFlagTypes
      DEF MarkDelivered, ObjectFlags, RowTypeOK, RowFlags, RunTypeOK
    <3>3. RunTypeOK'
      BY <2>22, GotoTypes DEF MarkDelivered, Points
    <3>4. QED
      BY <3>1, <3>2, <3>3
  <2>23. CASE MarkDeliveredFails
    <3>1. QueueTypeOK' /\ RowTypeOK' /\ LetterTypeOK' /\ CopyTypeOK'
      BY <2>23
      DEF MarkDeliveredFails, queueVars, QueueTypeOK, rowVars, RowTypeOK,
          letterVars, LetterTypeOK, CopyTypeOK
    <3>2. RunTypeOK'
      BY <2>23, GotoTypes DEF MarkDeliveredFails, Points
    <3>3. QED
      BY <3>1, <3>2
  <2>24. CASE MarkFailed
    <3>1. QueueTypeOK' /\ LetterTypeOK' /\ CopyTypeOK'
      BY <2>24
      DEF MarkFailed, queueVars, QueueTypeOK, letterVars, LetterTypeOK,
          CopyTypeOK
    <3>2. RowTypeOK'
      BY <2>24, RowFlagTypes
      DEF MarkFailed, ObjectFlags, RowTypeOK, RowFlags, RunTypeOK
    <3>3. RunTypeOK'
      BY <2>24, GotoTypes DEF MarkFailed, Points
    <3>4. QED
      BY <3>1, <3>2, <3>3
  <2>25. CASE AddDeadLetter
    <3>1. QueueTypeOK' /\ RowTypeOK' /\ CopyTypeOK'
      BY <2>25
      DEF AddDeadLetter, queueVars, QueueTypeOK, rowVars, RowTypeOK, CopyTypeOK
    <3>2. LetterTypeOK'
      BY <2>25 DEF AddDeadLetter, LetterTypeOK, RunTypeOK
    <3>3. RunTypeOK'
      BY <2>25, GotoTypes DEF AddDeadLetter, Points
    <3>4. QED
      BY <3>1, <3>2, <3>3
  <2>26. CASE CreateBounce
    <3>1. QueueTypeOK' /\ RowTypeOK' /\ CopyTypeOK'
      BY <2>26
      DEF CreateBounce, queueVars, QueueTypeOK, rowVars, RowTypeOK, CopyTypeOK
    <3>2. LetterTypeOK'
      BY <2>26 DEF CreateBounce, LetterTypeOK, RunTypeOK
    <3>3. RunTypeOK'
      BY <2>26, GotoTypes DEF CreateBounce, Points
    <3>4. QED
      BY <3>1, <3>2, <3>3
  <2>27. CASE CatchFails
    <3>1. QueueTypeOK' /\ RowTypeOK' /\ LetterTypeOK' /\ CopyTypeOK'
      BY <2>27
      DEF CatchFails, queueVars, QueueTypeOK, rowVars, RowTypeOK, letterVars,
          LetterTypeOK, CopyTypeOK
    <3>2. RunTypeOK'
      BY <2>27, GotoTypes DEF CatchFails, Points
    <3>3. QED
      BY <3>1, <3>2
  <2>28. CASE UNCHANGED vars
    BY <2>28
    DEF vars, queueVars, rowVars, letterVars, runVars, QueueTypeOK, RowTypeOK,
        LetterTypeOK, RunTypeOK, CopyTypeOK
  <2>29. QED
    BY <2>1, <2>2, <2>3, <2>4, <2>5, <2>6, <2>7, <2>8, <2>9, <2>10,
       <2>11, <2>12, <2>13, <2>14, <2>15, <2>16, <2>17, <2>18, <2>19,
       <2>20, <2>21, <2>22, <2>23, <2>24, <2>25, <2>26, <2>27, <2>28
    DEF Next, Process
<1>3. QED
  BY <1>1, <1>2, PTL DEF Spec

-----------------------------------------------------------------------------
(* What the queue knows of the job that is run, and what holding its lock  *)
(* means.                                                                  *)
THEOREM RunIsKnown == Spec => []RunInv
<1>1. Init => RunInv
  BY DEF Init, RunInv
<1>2. TypeOK /\ RunInv /\ [Next]_vars => RunInv'
  <2> SUFFICES ASSUME TypeOK, RunInv, [Next]_vars
               PROVE  RunInv'
    OBVIOUS
  <2> USE
  DEF RunInv, queueVars, rowVars, letterVars, runVars, TypeOK, QueueTypeOK,
      RunTypeOK
  <2>1. ASSUME NEW j \in Jobs, Enqueue(j) PROVE RunInv'
    BY <2>1 DEF Enqueue
  <2>2. ASSUME NEW j \in Jobs, AdminRetry(j) PROVE RunInv'
    BY <2>2 DEF AdminRetry
  <2>3. ASSUME NEW j \in Jobs, Claim(j) PROVE RunInv'
    BY <2>3, OutboundAssumption DEF Claim, OutboundAssumption
  <2>4. ASSUME NEW j \in Jobs, BackoffExpires(j) PROVE RunInv'
    BY <2>4 DEF BackoffExpires
  <2>5. ASSUME NEW j \in Jobs, StalledSweep(j) PROVE RunInv'
    BY <2>5 DEF StalledSweep
  <2>6. ASSUME NEW j \in EditedJobs, DeleteSentCopy(j) PROVE RunInv'
    BY <2>6 DEF DeleteSentCopy
  <2>7. ASSUME NEW j \in EditedJobs, ReadFlags(j) PROVE RunInv'
    BY <2>7 DEF ReadFlags
  <2>8. ASSUME NEW j \in EditedJobs, WriteFlags(j) PROVE RunInv'
    BY <2>8 DEF WriteFlags
  <2>9. CASE Complete
    BY <2>9 DEF Complete, EndRun
  <2>10. CASE Reject
    BY <2>10 DEF Reject, EndRun
  <2>11. CASE LoseLock
    BY <2>11 DEF LoseLock
  <2>12. CASE Crash
    BY <2>12 DEF Crash, EndRun
  <2>13. CASE LoadMessage
    BY <2>13 DEF LoadMessage, Goto
  <2>14. CASE LoadFails
    BY <2>14 DEF LoadFails, Goto
  <2>15. CASE ResolveMx
    BY <2>15 DEF ResolveMx
  <2>16. CASE ResolveFails
    BY <2>16 DEF ResolveFails, Goto
  <2>17. CASE RelayRefused
    BY <2>17 DEF RelayRefused, NextMx, Goto
  <2>18. CASE RelayAccepted
    BY <2>18 DEF RelayAccepted, Goto
  <2>19. CASE QuitAccepted
    BY <2>19 DEF QuitAccepted, Goto
  <2>20. CASE QuitRefused
    BY <2>20 DEF QuitRefused, NextMx, Goto
  <2>21. CASE MxFallsSilent
    BY <2>21 DEF MxFallsSilent, Goto
  <2>22. CASE MarkDelivered
    BY <2>22 DEF MarkDelivered, Goto, SetRowFlags, ObjectFlags
  <2>23. CASE MarkDeliveredFails
    BY <2>23 DEF MarkDeliveredFails, Goto
  <2>24. CASE MarkFailed
    BY <2>24 DEF MarkFailed, Goto, SetRowFlags, ObjectFlags
  <2>25. CASE AddDeadLetter
    BY <2>25 DEF AddDeadLetter, Goto
  <2>26. CASE CreateBounce
    BY <2>26 DEF CreateBounce, Goto
  <2>27. CASE CatchFails
    BY <2>27 DEF CatchFails, Goto
  <2>28. CASE UNCHANGED vars
    BY <2>28 DEF vars
  <2>29. QED
    BY <2>1, <2>2, <2>3, <2>4, <2>5, <2>6, <2>7, <2>8, <2>9, <2>10,
       <2>11, <2>12, <2>13, <2>14, <2>15, <2>16, <2>17, <2>18, <2>19,
       <2>20, <2>21, <2>22, <2>23, <2>24, <2>25, <2>26, <2>27, <2>28
    DEF Next, Process
<1>3. QED
  BY <1>1, <1>2, TypeCorrect, PTL DEF Spec

-----------------------------------------------------------------------------
(* A run has served every domain before the one it is at, so the row and   *)
(* the queue say "delivered" and "completed" only when all have accepted,  *)
(* and the domains are served in order.                                    *)
THEOREM RunsServeInOrder == Spec => []ServeInv
<1>1. Init => ServeInv
  BY OutboundAssumption
  DEF Init, ServeInv, OutboundAssumption, DeliveredMeansAccepted,
      ServedInOrder, AcceptedBy, Domains
<1>2. TypeOK /\ RunInv /\ ServeInv /\ [Next]_vars => ServeInv'
  <2> SUFFICES ASSUME TypeOK /\ RunInv, ServeInv, [Next]_vars
               PROVE  ServeInv'
    OBVIOUS
  <2> USE OutboundAssumption
  DEF OutboundAssumption, RunInv, ServeInv, DeliveredMeansAccepted,
      ServedInOrder, AcceptedEverywhere, AcceptedBy, Domains, queueVars,
      rowVars, letterVars, runVars, TypeOK, QueueTypeOK, RowTypeOK,
      LetterTypeOK, CopyTypeOK, RunTypeOK, RowFlags, JobStates
  <2>1. ASSUME NEW j \in Jobs, Enqueue(j) PROVE ServeInv'
    BY <2>1 DEF Enqueue
  <2>2. ASSUME NEW j \in Jobs, AdminRetry(j) PROVE ServeInv'
    BY <2>2 DEF AdminRetry
  <2>3. ASSUME NEW j \in Jobs, Claim(j) PROVE ServeInv'
    <3>1. /\ dom = 1 /\ dom' = 1 /\ cur' = j /\ pc' = "load"
          /\ UNCHANGED <<copies, flags>>
      BY <2>3 DEF Claim
    <3>2. ServedInOrder'
      BY <3>1
    <3>3. DeliveredMeansAccepted'
      BY <2>3, <3>1 DEF Claim
    <3>4. QED
      BY <3>1, <3>2, <3>3
  <2>4. ASSUME NEW j \in Jobs, BackoffExpires(j) PROVE ServeInv'
    BY <2>4 DEF BackoffExpires
  <2>5. ASSUME NEW j \in Jobs, StalledSweep(j) PROVE ServeInv'
    BY <2>5 DEF StalledSweep
  <2>6. ASSUME NEW j \in EditedJobs, DeleteSentCopy(j) PROVE ServeInv'
    BY <2>6 DEF DeleteSentCopy
  <2>7. ASSUME NEW j \in EditedJobs, ReadFlags(j) PROVE ServeInv'
    BY <2>7 DEF ReadFlags
  <2>8. ASSUME NEW j \in EditedJobs, WriteFlags(j) PROVE ServeInv'
    <3>1. UNCHANGED <<copies, state, cur, pc, dom>>
      BY <2>8 DEF WriteFlags
    <3>2. \A i \in Jobs : "delivered" \in flags'[i] => "delivered" \in flags[i]
      BY <2>8 DEF WriteFlags
    <3>3. QED
      BY <3>1, <3>2
  <2>9. CASE Complete
    BY <2>9 DEF Complete, EndRun
  <2>10. CASE Reject
    BY <2>10 DEF Reject, EndRun
  <2>11. CASE LoseLock
    BY <2>11 DEF LoseLock
  <2>12. CASE Crash
    BY <2>12 DEF Crash, EndRun
  <2>13. CASE LoadMessage
    BY <2>13 DEF LoadMessage, Goto
  <2>14. CASE LoadFails
    BY <2>14 DEF LoadFails, Goto
  <2>15. CASE ResolveMx
    BY <2>15 DEF ResolveMx
  <2>16. CASE ResolveFails
    BY <2>16 DEF ResolveFails, Goto
  <2>17. CASE RelayRefused
    BY <2>17 DEF RelayRefused, NextMx, Goto
  <2>18. CASE RelayAccepted
    <3>1. cur \in Jobs /\ cur # NoJob
      BY <2>18 DEF RelayAccepted
    <3>2. /\ UNCHANGED <<flags, state, cur, dom>>
          /\ pc' = "quit"
          /\ copies' = [copies EXCEPT ![cur][dom] = @ + 1]
      BY <2>18 DEF RelayAccepted, Goto
    <3>3. AcceptedBy(cur, dom)'
      BY <3>1, <3>2
    <3>4. \A i \in Jobs, d \in Domains : AcceptedBy(i, d) => AcceptedBy(i, d)'
      BY <3>1, <3>2
    <3>5. ASSUME NEW i \in Jobs, NEW d \in Domains, AcceptedBy(i, d)',
                 ~(i = cur /\ d = dom)
          PROVE  AcceptedBy(i, d)
      BY <3>1, <3>2, <3>5
    <3>6. ServedInOrder'
      <4>1. ASSUME NEW i \in Jobs, NEW d \in Domains, NEW e \in Domains,
                   d < e, AcceptedBy(i, e)'
            PROVE  AcceptedBy(i, d)
        <5>1. CASE i = cur /\ e = dom
          BY <3>1, <4>1, <5>1
        <5>2. CASE ~(i = cur /\ e = dom)
          BY <3>5, <4>1, <5>2
        <5> QED BY <5>1, <5>2
      <4> QED BY <3>4, <4>1
    <3>7. DeliveredMeansAccepted'
      BY <3>2, <3>4
    <3>8. QED
      BY <3>2, <3>3, <3>4, <3>6, <3>7
  <2>19. CASE QuitAccepted
    <3>1. UNCHANGED <<flags, state, cur, copies>>
      BY <2>19 DEF QuitAccepted, Goto
    <3>2. CASE dom < NumDomains
      BY <2>19, <3>1, <3>2 DEF QuitAccepted
    <3>3. CASE ~(dom < NumDomains)
      <4>1. dom = NumDomains /\ UNCHANGED dom /\ pc' = "markDelivered"
        BY <2>19, <3>3 DEF QuitAccepted, Goto
      <4>2. AcceptedEverywhere(cur)
        BY <2>19, <4>1 DEF QuitAccepted
      <4>3. QED
        BY <3>1, <4>1, <4>2
    <3>4. QED
      BY <3>2, <3>3
  <2>20. CASE QuitRefused
    BY <2>20 DEF QuitRefused, NextMx, Goto
  <2>21. CASE MxFallsSilent
    BY <2>21 DEF MxFallsSilent, Goto
  <2>22. CASE MarkDelivered
    BY <2>22 DEF MarkDelivered, Goto, SetRowFlags, ObjectFlags
  <2>23. CASE MarkDeliveredFails
    BY <2>23 DEF MarkDeliveredFails, Goto
  <2>24. CASE MarkFailed
    BY <2>24 DEF MarkFailed, Goto, SetRowFlags, ObjectFlags
  <2>25. CASE AddDeadLetter
    BY <2>25 DEF AddDeadLetter, Goto
  <2>26. CASE CreateBounce
    BY <2>26 DEF CreateBounce, Goto
  <2>27. CASE CatchFails
    BY <2>27 DEF CatchFails, Goto
  <2>28. CASE UNCHANGED vars
    BY <2>28 DEF vars
  <2>29. QED
    BY <2>1, <2>2, <2>3, <2>4, <2>5, <2>6, <2>7, <2>8, <2>9, <2>10,
       <2>11, <2>12, <2>13, <2>14, <2>15, <2>16, <2>17, <2>18, <2>19,
       <2>20, <2>21, <2>22, <2>23, <2>24, <2>25, <2>26, <2>27, <2>28
    DEF Next, Process
<1>3. QED
  BY <1>1, <1>2, TypeCorrect, RunIsKnown, PTL DEF Spec

(* A row flagged "delivered" and a job counted as completed stand for a    *)
(* message that every domain has accepted.                                 *)
THEOREM DeliveredSound == Spec => []DeliveredMeansAccepted
<1>1. ServeInv => DeliveredMeansAccepted
  BY DEF ServeInv
<1>2. QED
  BY <1>1, RunsServeInOrder, PTL

(* No run, retry or stalled restart gets past a domain that has not        *)
(* accepted the message.                                                   *)
THEOREM ServedInOrderHolds == Spec => []ServedInOrder
<1>1. ServeInv => ServedInOrder
  BY DEF ServeInv
<1>2. QED
  BY <1>1, RunsServeInOrder, PTL

-----------------------------------------------------------------------------
(* Only the last attempt passes markFailed to the dead letter and the      *)
(* bounce.                                                                 *)
THEOREM DeadLettersAreLast == Spec => []DeadInv
<1>1. Init => DeadInv
  BY OutboundAssumption
  DEF Init, DeadInv, OutboundAssumption, DeadOnlyWhenExhausted
<1>2. TypeOK /\ DeadInv /\ [Next]_vars => DeadInv'
  <2> SUFFICES ASSUME TypeOK, DeadInv, [Next]_vars
               PROVE  DeadInv'
    OBVIOUS
  <2> USE OutboundAssumption
  DEF OutboundAssumption, DeadInv, DeadOnlyWhenExhausted, IsDead, queueVars,
      rowVars, letterVars, runVars, TypeOK, QueueTypeOK, RowTypeOK,
      LetterTypeOK, CopyTypeOK, RunTypeOK, RowFlags
  <2>1. ASSUME NEW j \in Jobs, Enqueue(j) PROVE DeadInv'
    BY <2>1 DEF Enqueue
  <2>2. ASSUME NEW j \in Jobs, AdminRetry(j) PROVE DeadInv'
    BY <2>2 DEF AdminRetry
  <2>3. ASSUME NEW j \in Jobs, Claim(j) PROVE DeadInv'
    BY <2>3 DEF Claim
  <2>4. ASSUME NEW j \in Jobs, BackoffExpires(j) PROVE DeadInv'
    BY <2>4 DEF BackoffExpires
  <2>5. ASSUME NEW j \in Jobs, StalledSweep(j) PROVE DeadInv'
    BY <2>5 DEF StalledSweep
  <2>6. ASSUME NEW j \in EditedJobs, DeleteSentCopy(j) PROVE DeadInv'
    BY <2>6 DEF DeleteSentCopy
  <2>7. ASSUME NEW j \in EditedJobs, ReadFlags(j) PROVE DeadInv'
    BY <2>7 DEF ReadFlags
  <2>8. ASSUME NEW j \in EditedJobs, WriteFlags(j) PROVE DeadInv'
    BY <2>8 DEF WriteFlags
  <2>9. CASE Complete
    BY SMTT(60), <2>9 DEF Complete, EndRun
  <2>10. CASE Reject
    BY SMTT(60), <2>10 DEF Reject, EndRun
  <2>11. CASE LoseLock
    BY <2>11 DEF LoseLock
  <2>12. CASE Crash
    BY <2>12 DEF Crash, EndRun
  <2>13. CASE LoadMessage
    BY <2>13 DEF LoadMessage, Goto
  <2>14. CASE LoadFails
    BY <2>14 DEF LoadFails, Goto
  <2>15. CASE ResolveMx
    BY <2>15 DEF ResolveMx
  <2>16. CASE ResolveFails
    BY <2>16 DEF ResolveFails, Goto
  <2>17. CASE RelayRefused
    BY <2>17 DEF RelayRefused, NextMx, Goto
  <2>18. CASE RelayAccepted
    BY <2>18 DEF RelayAccepted, Goto
  <2>19. CASE QuitAccepted
    BY <2>19 DEF QuitAccepted, Goto
  <2>20. CASE QuitRefused
    BY <2>20 DEF QuitRefused, NextMx, Goto
  <2>21. CASE MxFallsSilent
    BY <2>21 DEF MxFallsSilent, Goto
  <2>22. CASE MarkDelivered
    BY <2>22 DEF MarkDelivered, Goto, SetRowFlags, ObjectFlags
  <2>23. CASE MarkDeliveredFails
    BY <2>23 DEF MarkDeliveredFails, Goto
  <2>24. CASE MarkFailed
    BY <2>24 DEF MarkFailed, Goto, SetRowFlags, ObjectFlags
  <2>25. CASE AddDeadLetter
    BY <2>25 DEF AddDeadLetter, Goto
  <2>26. CASE CreateBounce
    BY <2>26 DEF CreateBounce, Goto
  <2>27. CASE CatchFails
    BY <2>27 DEF CatchFails, Goto
  <2>28. CASE UNCHANGED vars
    BY <2>28 DEF vars
  <2>29. QED
    BY <2>1, <2>2, <2>3, <2>4, <2>5, <2>6, <2>7, <2>8, <2>9, <2>10,
       <2>11, <2>12, <2>13, <2>14, <2>15, <2>16, <2>17, <2>18, <2>19,
       <2>20, <2>21, <2>22, <2>23, <2>24, <2>25, <2>26, <2>27, <2>28
    DEF Next, Process
<1>3. QED
  BY <1>1, <1>2, TypeCorrect, PTL DEF Spec

(* A message that still has retries has no dead letter and no bounce.      *)
THEOREM DeadSound == Spec => []DeadOnlyWhenExhausted
<1>1. DeadInv => DeadOnlyWhenExhausted
  BY DEF DeadInv
<1>2. QED
  BY <1>1, DeadLettersAreLast, PTL

-----------------------------------------------------------------------------
(* Once the queue counts a job as completed, it is never run again: not by *)
(* a retry, a stalled sweep, an administrator or a run that lost its lock. *)
THEOREM CompletedStays == Spec => CompletedIsFinal
<1> DEFINE Final(j) == /\ state'[j] = "completed"
                       /\ copies'[j] = copies[j]
                       /\ deadLetters'[j] = deadLetters[j]
                       /\ bounces'[j] = bounces[j]
<1>1. ASSUME TypeOK, RunInv, Next, NEW i \in Jobs, state[i] = "completed"
      PROVE  Final(i)
  <2> USE <1>1
  DEF RunInv, queueVars, rowVars, letterVars, runVars, TypeOK, QueueTypeOK,
      RowTypeOK, LetterTypeOK, CopyTypeOK, RunTypeOK
  <2>1. ASSUME NEW j \in Jobs, Enqueue(j) PROVE Final(i)
    BY <2>1 DEF Enqueue
  <2>2. ASSUME NEW j \in Jobs, AdminRetry(j) PROVE Final(i)
    BY <2>2 DEF AdminRetry
  <2>3. ASSUME NEW j \in Jobs, Claim(j) PROVE Final(i)
    BY <2>3 DEF Claim
  <2>4. ASSUME NEW j \in Jobs, BackoffExpires(j) PROVE Final(i)
    BY <2>4 DEF BackoffExpires
  <2>5. ASSUME NEW j \in Jobs, StalledSweep(j) PROVE Final(i)
    BY <2>5 DEF StalledSweep
  <2>6. ASSUME NEW j \in EditedJobs, DeleteSentCopy(j) PROVE Final(i)
    BY <2>6 DEF DeleteSentCopy
  <2>7. ASSUME NEW j \in EditedJobs, ReadFlags(j) PROVE Final(i)
    BY <2>7 DEF ReadFlags
  <2>8. ASSUME NEW j \in EditedJobs, WriteFlags(j) PROVE Final(i)
    BY <2>8 DEF WriteFlags
  <2>9. CASE Complete
    BY <2>9 DEF Complete, EndRun
  <2>10. CASE Reject
    BY <2>10 DEF Reject, EndRun
  <2>11. CASE LoseLock
    BY <2>11 DEF LoseLock
  <2>12. CASE Crash
    BY <2>12 DEF Crash, EndRun
  <2>13. CASE LoadMessage
    BY <2>13 DEF LoadMessage, Goto
  <2>14. CASE LoadFails
    BY <2>14 DEF LoadFails, Goto
  <2>15. CASE ResolveMx
    BY <2>15 DEF ResolveMx
  <2>16. CASE ResolveFails
    BY <2>16 DEF ResolveFails, Goto
  <2>17. CASE RelayRefused
    BY <2>17 DEF RelayRefused, NextMx, Goto
  <2>18. CASE RelayAccepted
    BY <2>18 DEF RelayAccepted, Goto
  <2>19. CASE QuitAccepted
    BY <2>19 DEF QuitAccepted, Goto
  <2>20. CASE QuitRefused
    BY <2>20 DEF QuitRefused, NextMx, Goto
  <2>21. CASE MxFallsSilent
    BY <2>21 DEF MxFallsSilent, Goto
  <2>22. CASE MarkDelivered
    BY <2>22 DEF MarkDelivered, Goto, SetRowFlags, ObjectFlags
  <2>23. CASE MarkDeliveredFails
    BY <2>23 DEF MarkDeliveredFails, Goto
  <2>24. CASE MarkFailed
    BY <2>24 DEF MarkFailed, Goto, SetRowFlags, ObjectFlags
  <2>25. CASE AddDeadLetter
    BY <2>25 DEF AddDeadLetter, Goto
  <2>26. CASE CreateBounce
    BY <2>26 DEF CreateBounce, Goto
  <2>27. CASE CatchFails
    BY <2>27 DEF CatchFails, Goto
  <2>28. QED
    BY <1>1, <2>1, <2>2, <2>3, <2>4, <2>5, <2>6, <2>7, <2>8, <2>9, <2>10,
       <2>11, <2>12, <2>13, <2>14, <2>15, <2>16, <2>17, <2>18, <2>19,
       <2>20, <2>21, <2>22, <2>23, <2>24, <2>25, <2>26, <2>27
    DEF Next, Process
<1>2. TypeOK /\ RunInv /\ [Next]_vars =>
        [\A j \in Jobs : state[j] = "completed" => Final(j)]_vars
  BY <1>1
<1>3. QED
  BY <1>2, TypeCorrect, RunIsKnown, PTL DEF Spec, CompletedIsFinal

-----------------------------------------------------------------------------
(* The pipeline implements DeliveryPromise: what each action does to the   *)
(* promised state, and then the refinement.                                *)

(* A step that sends nothing and reports nothing is a stutter.             *)
LEMMA PromiseStutter ==
    ASSUME UNCHANGED <<copies, deadLetters, bounces>>,
           \A j \in Jobs : "delivered" \in flags'[j] <=> "delivered" \in
               flags[j]
    PROVE  [Promise!Next]_(Promise!vars)
BY DEF Promise!vars, AcceptedBy

(* Replacing the flags by an array takes a report back.                    *)
LEMMA PromiseWithdraw ==
    ASSUME TypeOK, UNCHANGED <<copies, deadLetters, bounces>>,
           NEW j \in Jobs, NEW fs \in SUBSET {"seen"},
           flags' = [flags EXCEPT ![j] = fs]
    PROVE  [Promise!Next]_(Promise!vars)
<1>1. {i \in Jobs : "delivered" \in flags[i]}'
        = {i \in Jobs : "delivered" \in flags[i]} \ {j}
  BY DEF TypeOK, RowTypeOK
<1>2. Promise!Withdraw(j)
  BY <1>1 DEF Promise!Withdraw, AcceptedBy
<1>3. QED
  BY <1>2 DEF Promise!Next

(* An accepted copy is the next domain in order, or one again.             *)
LEMMA PromiseReceive ==
    ASSUME TypeOK, ServeInv, RelayAccepted
    PROVE  Promise!Next
<1> DEFINE got(i) == {d \in Domains : AcceptedBy(i, d)}
<1>1. PICK j \in Jobs, e \in Domains : j = cur /\ e = dom
  BY DEF TypeOK, RunTypeOK, RelayAccepted
<1>2. /\ copies' = [copies EXCEPT ![j][e] = @ + 1]
      /\ UNCHANGED <<flags, deadLetters, bounces>>
  BY <1>1 DEF RelayAccepted, rowVars, letterVars
<1>3. \A i \in Jobs : i # j => got(i)' = got(i)
  BY <1>1, <1>2 DEF TypeOK, CopyTypeOK, AcceptedBy
<1>4. got(j)' = got(j) \cup {e}
  BY <1>1, <1>2 DEF TypeOK, CopyTypeOK, AcceptedBy
<1>5. 1..(e - 1) \subseteq got(j)
  <2>1. cur # NoJob
    BY DEF TypeOK, RunTypeOK, RelayAccepted
  <2>2. QED
    BY <1>1, <2>1, OutboundAssumption DEF ServeInv, Domains, OutboundAssumption
<1> DEFINE received == [i \in Jobs |-> got(i)]
<1>6. received' = [received EXCEPT ![j] = got(j) \cup {e}]
  BY <1>3, <1>4
<1>7. Promise!Receive(j, e)
  BY <1>2, <1>5, <1>6 DEF Promise!Receive
<1>8. QED
  BY <1>7 DEF Promise!Next, Promise!Domains, Domains

(* markDelivered reports, if the row is still there.                       *)
LEMMA PromiseReport ==
    ASSUME TypeOK, ServeInv, MarkDelivered
    PROVE  [Promise!Next]_(Promise!vars)
<1>1. PICK j \in Jobs : j = cur
  BY DEF TypeOK, RunTypeOK, MarkDelivered
<1>2. UNCHANGED <<copies, deadLetters, bounces>>
  BY DEF MarkDelivered, letterVars
<1>3. CASE stored[j]
  <2>1. {i \in Jobs : "delivered" \in flags[i]}'
        = {i \in Jobs : "delivered" \in flags[i]} \cup {j}
    BY <1>1, <1>3 DEF TypeOK, RowTypeOK, MarkDelivered, SetRowFlags
  <2>2. {d \in Domains : AcceptedBy(j, d)} = Domains
    BY <1>1 DEF ServeInv, AcceptedEverywhere, MarkDelivered
  <2>3. Promise!Report(j)
    BY <1>2, <2>1, <2>2
    DEF Promise!Report, AcceptedBy, Promise!Domains, Domains
  <2>4. QED
    BY <2>3 DEF Promise!Next
<1>4. CASE ~stored[j]
  BY <1>1, <1>2, <1>4, PromiseStutter DEF MarkDelivered, SetRowFlags
<1>5. QED
  BY <1>3, <1>4

(* markFailed keeps what the row says of the delivery.                     *)
LEMMA PromiseMarkFailed ==
    ASSUME TypeOK, MarkFailed
    PROVE [Promise!Next]_(Promise!vars)
<1>1. cur \in Jobs /\ UNCHANGED <<copies, deadLetters, bounces>>
  BY DEF TypeOK, RunTypeOK, MarkFailed, letterVars
<1>2. \A j \in Jobs : "delivered" \in flags'[j] <=> "delivered" \in flags[j]
  BY <1>1 DEF TypeOK, RowTypeOK, MarkFailed, SetRowFlags, ObjectFlags, IsArray
<1>3. QED
  BY <1>1, <1>2, PromiseStutter

(* A dead letter gives the message up, a bounce is its notice.             *)
LEMMA PromiseLetter ==
    ASSUME TypeOK, DeadInv, AddDeadLetter \/ CreateBounce
    PROVE Promise!Next
<1>1. cur \in Jobs /\ UNCHANGED <<copies, flags>>
  BY DEF TypeOK, RunTypeOK, AddDeadLetter, CreateBounce, rowVars
<1>2. CASE AddDeadLetter
  BY <1>1, <1>2 DEF AddDeadLetter, Promise!Abandon, Promise!Next, AcceptedBy
<1>3. CASE CreateBounce
  BY <1>1, <1>3
  DEF CreateBounce, Promise!Notify, Promise!Next, AcceptedBy, DeadInv
<1>4. QED
  BY <1>2, <1>3

(* Outbound delivery keeps the promise of DeliveryPromise: domains in      *)
(* order, "delivered" only after the last, and never a notice for a        *)
(* message that was not given up.                                          *)
THEOREM DeliveryKeepsPromise == Spec => KeepsPromise
<1>1. Init => Promise!Init
  BY OutboundAssumption DEF Init, Promise!Init, AcceptedBy
<1>2. TypeOK /\ ServeInv /\ DeadInv /\ [Next]_vars
        => [Promise!Next]_(Promise!vars)
  <2> SUFFICES ASSUME TypeOK, ServeInv, DeadInv, [Next]_vars
               PROVE  [Promise!Next]_(Promise!vars)
    OBVIOUS
  <2>1. ASSUME NEW j \in Jobs, Enqueue(j)
       PROVE  [Promise!Next]_(Promise!vars)
    <3>1. /\ flags' = [flags EXCEPT ![j] = {"seen"}]
          /\ UNCHANGED <<copies, deadLetters, bounces>>
      BY <2>1 DEF Enqueue, letterVars
    <3>2. QED
      BY <3>1, PromiseWithdraw
  <2>2. ASSUME NEW j \in Jobs, AdminRetry(j)
       PROVE  [Promise!Next]_(Promise!vars)
    BY <2>2, PromiseStutter DEF AdminRetry, rowVars, letterVars
  <2>3. ASSUME NEW j \in Jobs, Claim(j)
       PROVE  [Promise!Next]_(Promise!vars)
    BY <2>3, PromiseStutter DEF Claim, rowVars, letterVars
  <2>4. ASSUME NEW j \in Jobs, BackoffExpires(j)
       PROVE  [Promise!Next]_(Promise!vars)
    BY <2>4, PromiseStutter DEF BackoffExpires, rowVars, letterVars
  <2>5. ASSUME NEW j \in Jobs, StalledSweep(j)
       PROVE  [Promise!Next]_(Promise!vars)
    BY <2>5, PromiseStutter DEF StalledSweep, rowVars, letterVars
  <2>6. ASSUME NEW j \in EditedJobs, DeleteSentCopy(j)
       PROVE  [Promise!Next]_(Promise!vars)
    <3>1. /\ flags' = [flags EXCEPT ![j] = {}]
          /\ UNCHANGED <<copies, deadLetters, bounces>>
      BY <2>6 DEF DeleteSentCopy, letterVars
    <3>2. j \in Jobs
      BY OutboundAssumption DEF OutboundAssumption
    <3>3. QED
      BY <3>1, <3>2, PromiseWithdraw
  <2>7. ASSUME NEW j \in EditedJobs, ReadFlags(j)
       PROVE  [Promise!Next]_(Promise!vars)
    BY <2>7, PromiseStutter DEF ReadFlags, rowVars, letterVars
  <2>8. ASSUME NEW j \in EditedJobs, WriteFlags(j)
       PROVE  [Promise!Next]_(Promise!vars)
    <3>1. UNCHANGED <<copies, deadLetters, bounces>>
      BY <2>8 DEF WriteFlags, letterVars
    <3>2. j \in Jobs
      BY OutboundAssumption DEF OutboundAssumption
    <3>3. CASE flags' = flags
      BY <3>1, <3>3, PromiseStutter
    <3>4. CASE \E fs \in SUBSET {"seen"} : flags' = [flags EXCEPT ![j] = fs]
      BY <3>1, <3>2, <3>4, PromiseWithdraw
    <3>5. QED
      BY <2>8, <3>3, <3>4 DEF WriteFlags
  <2>9. CASE Complete
    BY <2>9, PromiseStutter DEF Complete, rowVars, letterVars
  <2>10. CASE Reject
    BY <2>10, PromiseStutter DEF Reject, rowVars, letterVars
  <2>11. CASE LoseLock
    BY <2>11, PromiseStutter DEF LoseLock, rowVars, letterVars
  <2>12. CASE Crash
    BY <2>12, PromiseStutter DEF Crash, rowVars, letterVars
  <2>13. CASE LoadMessage
    BY <2>13, PromiseStutter DEF LoadMessage, rowVars, letterVars
  <2>14. CASE LoadFails
    BY <2>14, PromiseStutter DEF LoadFails, rowVars, letterVars
  <2>15. CASE ResolveMx
    BY <2>15, PromiseStutter DEF ResolveMx, rowVars, letterVars
  <2>16. CASE ResolveFails
    BY <2>16, PromiseStutter DEF ResolveFails, rowVars, letterVars
  <2>17. CASE RelayRefused
    BY <2>17, PromiseStutter DEF RelayRefused, rowVars, letterVars
  <2>18. CASE RelayAccepted
    BY <2>18, PromiseReceive
  <2>19. CASE QuitAccepted
    BY <2>19, PromiseStutter DEF QuitAccepted, rowVars, letterVars
  <2>20. CASE QuitRefused
    BY <2>20, PromiseStutter DEF QuitRefused, rowVars, letterVars
  <2>21. CASE MxFallsSilent
    BY <2>21, PromiseStutter DEF MxFallsSilent, rowVars, letterVars
  <2>22. CASE MarkDelivered
    BY <2>22, PromiseReport
  <2>23. CASE MarkDeliveredFails
    BY <2>23, PromiseStutter DEF MarkDeliveredFails, rowVars, letterVars
  <2>24. CASE MarkFailed
    BY <2>24, PromiseMarkFailed
  <2>25. CASE AddDeadLetter
    BY <2>25, PromiseLetter
  <2>26. CASE CreateBounce
    BY <2>26, PromiseLetter
  <2>27. CASE CatchFails
    BY <2>27, PromiseStutter DEF CatchFails, rowVars, letterVars
  <2>28. CASE UNCHANGED vars
    BY <2>28, PromiseStutter DEF vars, rowVars, letterVars
  <2>29. QED
    BY <2>1, <2>2, <2>3, <2>4, <2>5, <2>6, <2>7, <2>8, <2>9, <2>10,
       <2>11, <2>12, <2>13, <2>14, <2>15, <2>16, <2>17, <2>18, <2>19,
       <2>20, <2>21, <2>22, <2>23, <2>24, <2>25, <2>26, <2>27, <2>28
    DEF Next, Process
<1>3. QED
  BY <1>1, <1>2, TypeCorrect, RunsServeInOrder, DeadLettersAreLast, PTL
  DEF Spec, KeepsPromise, Promise!Spec

-----------------------------------------------------------------------------
(***************************************************************************)
(* The duplicates a domain receives are bounded by the runs the queue has  *)
(* counted.  CopyInv splits the bound into what earlier runs may have      *)
(* sent, NumMx * (Runs(cur) - 1), and what the current one has, Added(d),  *)
(* so a step of the run has to be looked at for the current run only.      *)
(***************************************************************************)

(* Multiplication by the constant NumMx, as the later steps use it.        *)
LEMMA MxProduct ==
    \A r \in Nat : NumMx * r \in Nat /\ NumMx * (r + 1) = NumMx * r + NumMx
BY OutboundAssumption DEF OutboundAssumption

(* A run gives a domain at most one copy per MX.                           *)
LEMMA AddedBound ==
    ASSUME TypeOK PROVE \A d \in Domains : Added(d) \in 0..NumMx
BY OutboundAssumption DEF OutboundAssumption, TypeOK, RunTypeOK, Domains, Added

(* The number of runs of a job is a natural number.                        *)
LEMMA RunsType ==
    ASSUME TypeOK PROVE \A j \in Jobs : Runs(j) \in Nat
BY DEF TypeOK, QueueTypeOK, Runs

(* A step of the run that gives each domain at most what Added allows.     *)
LEMMA CopyStep ==
    ASSUME TypeOK, TypeOK', CopyInv, cur # NoJob,
           UNCHANGED <<cur, attempts, stalls, state>>,
           \A j \in Jobs : j # cur => copies'[j] = copies[j],
           \A d \in Domains :
               copies'[cur][d] - copies[cur][d] <= Added(d)' - Added(d)
    PROVE  CopyInv'
<1>1. cur \in Jobs /\ \A j \in Jobs : Runs(j)' = Runs(j) /\ Runs(j) \in Nat
  BY RunsType DEF TypeOK, RunTypeOK, Runs
<1>2. Runs(cur) > 0 /\ Runs(cur)' > 0
  BY <1>1 DEF CopyInv
<1>3. \A d \in Domains : copies[cur][d] \in Nat /\ copies'[cur][d] \in Nat
  BY <1>1 DEF TypeOK, CopyTypeOK
<1>4. \A d \in Domains : Added(d) \in 0..NumMx /\ Added(d)' \in 0..NumMx
  <2>1. \A d \in Domains : Added(d)' \in 0..NumMx
    BY OutboundAssumption
    DEF OutboundAssumption, TypeOK, RunTypeOK, Domains, Added
  <2>2. QED
    BY <2>1, AddedBound
<1>5. PICK b \in Nat : b = NumMx * (Runs(cur) - 1) /\ NumMx * Runs(cur) = b +
    NumMx
  <2>1. Runs(cur) - 1 \in Nat /\ Runs(cur) = (Runs(cur) - 1) + 1
    BY <1>1, <1>2
  <2>2. QED
    BY <2>1, MxProduct
<1>6. \A d \in Domains : copies'[cur][d] <= b + Added(d)'
  <2>1. \A d \in Domains : copies[cur][d] <= b + Added(d)
    BY <1>5 DEF CopyInv
  <2>2. QED
    BY <2>1, <1>3, <1>4
<1>7. \A d \in Domains : copies'[cur][d] <= NumMx * Runs(cur)
  BY <1>3, <1>4, <1>5, <1>6, OutboundAssumption DEF OutboundAssumption
<1>8. CopiesBounded'
  BY <1>1, <1>7 DEF CopiesBounded, CopyInv
<1>9. QED
  BY <1>1, <1>2, <1>5, <1>6, <1>8 DEF CopyInv

(* A step of the run that sends nothing and forgets none of what it sent.  *)
LEMMA SilentStep ==
    ASSUME TypeOK, TypeOK', CopyInv, cur # NoJob,
           UNCHANGED <<cur, attempts, stalls, state, copies>>,
           \A d \in Domains : Added(d)' >= Added(d) /\ Added(d)' \in Nat
    PROVE  CopyInv'
<1>1. cur \in Jobs /\ \A d \in Domains : copies[cur][d] \in Nat
  BY DEF TypeOK, RunTypeOK, CopyTypeOK
<1>2. \A d \in Domains : Added(d) \in Nat
  BY AddedBound, OutboundAssumption DEF OutboundAssumption
<1>3. \A d \in Domains :
          copies'[cur][d] - copies[cur][d] <= Added(d)' - Added(d)
  BY <1>1, <1>2
<1>4. QED
  BY <1>3, CopyStep

(* A step outside the run that neither sends nor changes the run counts.   *)
LEMMA OutsideStep ==
    ASSUME TypeOK, CopyInv, UNCHANGED <<copies, cur, pc, dom, mx>>,
           \A i \in Jobs : Runs(i)' = Runs(i)
    PROVE  CopyInv'
<1>1. \A d \in Domains : Added(d)' = Added(d)
  BY DEF Added
<1>2. QED
  BY <1>1 DEF CopyInv, CopiesBounded, TypeOK, RunTypeOK

(* The end of a run, which leaves the run counts as they are.              *)
LEMMA EndStep ==
    ASSUME CopyInv, cur' = NoJob, UNCHANGED copies,
           \A i \in Jobs : Runs(i)' = Runs(i)
    PROVE  CopyInv'
BY DEF CopyInv, CopiesBounded

-----------------------------------------------------------------------------
(* The inductive invariant: earlier runs and the current one keep to their *)
(* share of the copies.                                                    *)
THEOREM CopiesInductive == Spec => []CopyInv
<1>1. Init => CopyInv
  BY OutboundAssumption
  DEF Init, CopyInv, OutboundAssumption, CopiesBounded, Runs
<1>2. TypeOK /\ TypeOK' /\ RunInv /\ CopyInv /\ [Next]_vars => CopyInv'
  <2> SUFFICES ASSUME TypeOK /\ TypeOK' /\ RunInv, CopyInv, [Next]_vars
               PROVE  CopyInv'
    OBVIOUS
  <2>1. ASSUME NEW j \in Jobs, Enqueue(j) PROVE CopyInv'
    BY <2>1, OutsideStep
    DEF Enqueue, Runs, queueVars, runVars, QueueTypeOK, TypeOK
  <2>2. ASSUME NEW j \in Jobs, AdminRetry(j) PROVE CopyInv'
    BY <2>2, OutsideStep
    DEF AdminRetry, Runs, queueVars, runVars, QueueTypeOK, TypeOK
  <2>3. ASSUME NEW j \in Jobs, Claim(j) PROVE CopyInv'
    <3>1. /\ cur = NoJob /\ cur' = j /\ pc' = "load" /\ dom = 1 /\ dom' = 1
          /\ state[j] = "waiting" /\ UNCHANGED <<copies, attempts, stalls>>
          /\ state' = [state EXCEPT ![j] = "active"]
      BY <2>3 DEF Claim, RunInv
    <3>2. Runs(j)' = Runs(j) + 1 /\ Runs(j) \in Nat
      BY <3>1, RunsType DEF Runs, TypeOK, QueueTypeOK
    <3>3. \A i \in Jobs : i # j => Runs(i)' = Runs(i)
      BY <3>1 DEF Runs, TypeOK, QueueTypeOK
    <3>4. \A d \in Domains : Added(d)' = 0
      BY <3>1, OutboundAssumption DEF Added, Domains, OutboundAssumption
    <3>5. \A d \in Domains : 
              copies[j][d] \in Nat /\ copies[j][d] <= NumMx * Runs(j)
      BY DEF CopyInv, CopiesBounded, TypeOK, CopyTypeOK
    <3>6. /\ NumMx * Runs(j) \in Nat
          /\ NumMx * (Runs(j) + 1) = NumMx * Runs(j) + NumMx
      BY <3>2, MxProduct
    <3>7. CopiesBounded'
      <4>1. \A d \in Domains : copies[j][d] <= NumMx * Runs(j)'
        BY <3>2, <3>5, <3>6, OutboundAssumption DEF OutboundAssumption
      <4>2. QED
        BY <3>1, <3>3, <4>1 DEF CopyInv, CopiesBounded
    <3>8. Runs(j)' > 0 /\ Runs(j)' - 1 = Runs(j)
      BY <3>2
    <3>9. \A d \in Domains : copies'[j][d] <= NumMx * (Runs(j)' - 1) +
        Added(d)'
      BY <3>1, <3>4, <3>5, <3>6, <3>8
    <3>10. QED
      BY <3>1, <3>7, <3>8, <3>9 DEF CopyInv
  <2>4. ASSUME NEW j \in Jobs, BackoffExpires(j) PROVE CopyInv'
    BY <2>4, OutsideStep
    DEF BackoffExpires, Runs, queueVars, runVars, QueueTypeOK, TypeOK
  <2>5. ASSUME NEW j \in Jobs, StalledSweep(j) PROVE CopyInv'
    BY <2>5, OutsideStep
    DEF StalledSweep, Runs, queueVars, runVars, QueueTypeOK, TypeOK
  <2>6. ASSUME NEW j \in EditedJobs, DeleteSentCopy(j) PROVE CopyInv'
    BY <2>6, OutsideStep
    DEF DeleteSentCopy, Runs, queueVars, runVars, QueueTypeOK, TypeOK
  <2>7. ASSUME NEW j \in EditedJobs, ReadFlags(j) PROVE CopyInv'
    BY <2>7, OutsideStep
    DEF ReadFlags, Runs, queueVars, runVars, QueueTypeOK, TypeOK
  <2>8. ASSUME NEW j \in EditedJobs, WriteFlags(j) PROVE CopyInv'
    BY <2>8, OutsideStep
    DEF WriteFlags, Runs, queueVars, runVars, QueueTypeOK, TypeOK
  <2>9. CASE Complete
    BY <2>9, EndStep
    DEF Complete, EndRun, Runs, queueVars, QueueTypeOK, RunTypeOK, TypeOK,
        RunInv
  <2>10. CASE Reject
    BY <2>10, EndStep
    DEF Reject, EndRun, Runs, queueVars, QueueTypeOK, RunTypeOK, TypeOK, RunInv
  <2>11. CASE LoseLock
    BY <2>11, OutsideStep
    DEF LoseLock, Runs, queueVars, runVars, QueueTypeOK, TypeOK
  <2>12. CASE Crash
    BY <2>12, EndStep
    DEF Crash, EndRun, Runs, queueVars, QueueTypeOK, RunTypeOK, TypeOK, RunInv
  <2>13. CASE LoadMessage
    <3>1. cur # NoJob /\ UNCHANGED <<cur, attempts, stalls, state, copies>>
      BY <2>13 DEF LoadMessage, Goto, TypeOK, RunTypeOK, queueVars
    <3>2. \A d \in Domains : Added(d)' >= Added(d) /\ Added(d)' \in Nat
      BY <2>13, OutboundAssumption
      DEF LoadMessage, Goto, Added, TypeOK, RunTypeOK, Domains,
          OutboundAssumption
    <3>3. QED
      BY <3>1, <3>2, SilentStep
  <2>14. CASE LoadFails
    <3>1. cur # NoJob /\ UNCHANGED <<cur, attempts, stalls, state, copies>>
      BY <2>14 DEF LoadFails, Goto, TypeOK, RunTypeOK, queueVars
    <3>2. \A d \in Domains : Added(d)' >= Added(d) /\ Added(d)' \in Nat
      BY <2>14, OutboundAssumption
      DEF LoadFails, Goto, Added, TypeOK, RunTypeOK, Domains,
          OutboundAssumption
    <3>3. QED
      BY <3>1, <3>2, SilentStep
  <2>15. CASE ResolveMx
    <3>1. cur # NoJob /\ UNCHANGED <<cur, attempts, stalls, state, copies>>
      BY <2>15 DEF ResolveMx, TypeOK, RunTypeOK, queueVars
    <3>2. \A d \in Domains : Added(d)' >= Added(d) /\ Added(d)' \in Nat
      BY <2>15, OutboundAssumption
      DEF ResolveMx, Added, TypeOK, RunTypeOK, Domains, OutboundAssumption
    <3>3. QED
      BY <3>1, <3>2, SilentStep
  <2>16. CASE ResolveFails
    <3>1. cur # NoJob /\ UNCHANGED <<cur, attempts, stalls, state, copies>>
      BY <2>16 DEF ResolveFails, Goto, TypeOK, RunTypeOK, queueVars
    <3>2. \A d \in Domains : Added(d)' >= Added(d) /\ Added(d)' \in Nat
      BY <2>16, OutboundAssumption
      DEF ResolveFails, Goto, Added, TypeOK, RunTypeOK, Domains,
          OutboundAssumption
    <3>3. QED
      BY <3>1, <3>2, SilentStep
  <2>17. CASE RelayRefused
    <3>1. cur # NoJob /\ UNCHANGED <<cur, attempts, stalls, state, copies>>
      BY <2>17 DEF RelayRefused, NextMx, Goto, TypeOK, RunTypeOK, queueVars
    <3>2. \A d \in Domains : Added(d)' >= Added(d) /\ Added(d)' \in Nat
      BY <2>17, OutboundAssumption
      DEF RelayRefused, NextMx, Goto, Added, TypeOK, RunTypeOK, Domains,
          OutboundAssumption
    <3>3. QED
      BY <3>1, <3>2, SilentStep
  <2>18. CASE RelayAccepted
    <3>1. /\ cur # NoJob /\ cur \in Jobs /\ dom \in Domains
          /\ UNCHANGED <<cur, dom, mx, attempts, stalls, state>>
          /\ pc = "relay" /\ pc' = "quit"
          /\ copies' = [copies EXCEPT ![cur][dom] = @ + 1]
      BY <2>18 DEF RelayAccepted, Goto, TypeOK, RunTypeOK, queueVars
    <3>2. mx \in Nat /\ \A d \in Domains : copies[cur][d] \in Nat
      BY <3>1, OutboundAssumption
      DEF TypeOK, RunTypeOK, CopyTypeOK, OutboundAssumption
    <3>3. \A i \in Jobs : i # cur => copies'[i] = copies[i]
      BY <3>1 DEF TypeOK, CopyTypeOK
    <3>4. ASSUME NEW d \in Domains
          PROVE  copies'[cur][d] - copies[cur][d] <= Added(d)' - Added(d)
      <4>1. CASE d = dom
        <5>1. copies'[cur][d] = copies[cur][d] + 1
          BY <3>1, <4>1 DEF TypeOK, CopyTypeOK
        <5>2. Added(d) = mx - 1 /\ Added(d)' = mx
          BY <3>1, <4>1, OutboundAssumption
          DEF Added, Domains, OutboundAssumption
        <5>3. QED
          BY <3>2, <5>1, <5>2
      <4>2. CASE d # dom
        <5>1. copies'[cur][d] = copies[cur][d]
          BY <3>1, <4>2 DEF TypeOK, CopyTypeOK
        <5>2. Added(d)' = Added(d) /\ Added(d) \in 0..NumMx
          BY <3>1, <4>2, AddedBound, OutboundAssumption
          DEF Added, Domains, OutboundAssumption
        <5>3. QED
          BY <3>2, <5>1, <5>2, OutboundAssumption DEF OutboundAssumption
      <4>3. QED
        BY <4>1, <4>2
    <3>5. QED
      BY <3>1, <3>3, <3>4, CopyStep
  <2>19. CASE QuitAccepted
    <3>1. cur # NoJob /\ UNCHANGED <<cur, attempts, stalls, state, copies>>
      BY <2>19 DEF QuitAccepted, Goto, TypeOK, RunTypeOK, queueVars
    <3>2. \A d \in Domains : Added(d)' >= Added(d) /\ Added(d)' \in Nat
      BY <2>19, OutboundAssumption
      DEF QuitAccepted, Goto, Added, TypeOK, RunTypeOK, Domains,
          OutboundAssumption
    <3>3. QED
      BY <3>1, <3>2, SilentStep
  <2>20. CASE QuitRefused
    <3>1. cur # NoJob /\ UNCHANGED <<cur, attempts, stalls, state, copies>>
      BY <2>20 DEF QuitRefused, NextMx, Goto, TypeOK, RunTypeOK, queueVars
    <3>2. \A d \in Domains : Added(d)' >= Added(d) /\ Added(d)' \in Nat
      BY <2>20, OutboundAssumption
      DEF QuitRefused, NextMx, Goto, Added, TypeOK, RunTypeOK, Domains,
          OutboundAssumption
    <3>3. QED
      BY <3>1, <3>2, SilentStep
  <2>21. CASE MxFallsSilent
    <3>1. cur # NoJob /\ UNCHANGED <<cur, attempts, stalls, state, copies>>
      BY <2>21 DEF MxFallsSilent, Goto, TypeOK, RunTypeOK, queueVars
    <3>2. \A d \in Domains : Added(d)' >= Added(d) /\ Added(d)' \in Nat
      BY <2>21, OutboundAssumption
      DEF MxFallsSilent, Goto, Added, TypeOK, RunTypeOK, Domains,
          OutboundAssumption
    <3>3. QED
      BY <3>1, <3>2, SilentStep
  <2>22. CASE MarkDelivered
    <3>1. cur # NoJob /\ UNCHANGED <<cur, attempts, stalls, state, copies>>
      BY <2>22 DEF MarkDelivered, Goto, TypeOK, RunTypeOK, queueVars
    <3>2. \A d \in Domains : Added(d)' >= Added(d) /\ Added(d)' \in Nat
      BY <2>22, OutboundAssumption
      DEF MarkDelivered, Goto, Added, TypeOK, RunTypeOK, Domains,
          OutboundAssumption
    <3>3. QED
      BY <3>1, <3>2, SilentStep
  <2>23. CASE MarkDeliveredFails
    <3>1. cur # NoJob /\ UNCHANGED <<cur, attempts, stalls, state, copies>>
      BY <2>23 DEF MarkDeliveredFails, Goto, TypeOK, RunTypeOK, queueVars
    <3>2. \A d \in Domains : Added(d)' >= Added(d) /\ Added(d)' \in Nat
      BY <2>23, OutboundAssumption
      DEF MarkDeliveredFails, Goto, Added, TypeOK, RunTypeOK, Domains,
          OutboundAssumption
    <3>3. QED
      BY <3>1, <3>2, SilentStep
  <2>24. CASE MarkFailed
    <3>1. cur # NoJob /\ UNCHANGED <<cur, attempts, stalls, state, copies>>
      BY <2>24 DEF MarkFailed, Goto, TypeOK, RunTypeOK, queueVars
    <3>2. \A d \in Domains : Added(d)' >= Added(d) /\ Added(d)' \in Nat
      BY <2>24, OutboundAssumption
      DEF MarkFailed, Goto, Added, TypeOK, RunTypeOK, Domains,
          OutboundAssumption
    <3>3. QED
      BY <3>1, <3>2, SilentStep
  <2>25. CASE AddDeadLetter
    <3>1. cur # NoJob /\ UNCHANGED <<cur, attempts, stalls, state, copies>>
      BY <2>25 DEF AddDeadLetter, Goto, TypeOK, RunTypeOK, queueVars
    <3>2. \A d \in Domains : Added(d)' >= Added(d) /\ Added(d)' \in Nat
      BY <2>25, OutboundAssumption
      DEF AddDeadLetter, Goto, Added, TypeOK, RunTypeOK, Domains,
          OutboundAssumption
    <3>3. QED
      BY <3>1, <3>2, SilentStep
  <2>26. CASE CreateBounce
    <3>1. cur # NoJob /\ UNCHANGED <<cur, attempts, stalls, state, copies>>
      BY <2>26 DEF CreateBounce, Goto, TypeOK, RunTypeOK, queueVars
    <3>2. \A d \in Domains : Added(d)' >= Added(d) /\ Added(d)' \in Nat
      BY <2>26, OutboundAssumption
      DEF CreateBounce, Goto, Added, TypeOK, RunTypeOK, Domains,
          OutboundAssumption
    <3>3. QED
      BY <3>1, <3>2, SilentStep
  <2>27. CASE CatchFails
    <3>1. cur # NoJob /\ UNCHANGED <<cur, attempts, stalls, state, copies>>
      BY <2>27 DEF CatchFails, Goto, TypeOK, RunTypeOK, queueVars
    <3>2. \A d \in Domains : Added(d)' >= Added(d) /\ Added(d)' \in Nat
      BY <2>27, OutboundAssumption
      DEF CatchFails, Goto, Added, TypeOK, RunTypeOK, Domains,
          OutboundAssumption
    <3>3. QED
      BY <3>1, <3>2, SilentStep
  <2>28. CASE UNCHANGED vars
    BY <2>28, OutsideStep DEF vars, queueVars, runVars, Runs
  <2>29. QED
    BY <2>1, <2>2, <2>3, <2>4, <2>5, <2>6, <2>7, <2>8, <2>9, <2>10,
       <2>11, <2>12, <2>13, <2>14, <2>15, <2>16, <2>17, <2>18, <2>19,
       <2>20, <2>21, <2>22, <2>23, <2>24, <2>25, <2>26, <2>27, <2>28
    DEF Next, Process
<1>3. QED
  BY <1>1, <1>2, TypeCorrect, RunIsKnown, PTL DEF Spec

(* However often a message is retried, stalls or is restarted, a domain    *)
(* receives at most NumMx copies per run that the queue has counted.       *)
THEOREM DuplicatesBounded == Spec => []CopiesBounded
<1>1. CopyInv => CopiesBounded
  BY DEF CopyInv
<1>2. QED
  BY <1>1, CopiesInductive, PTL
=============================================================================
