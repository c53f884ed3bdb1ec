-------------------------- MODULE JobRunnerProofs --------------------------
(***************************************************************************)
(* The job runner keeps its promise for any number of jobs, stages and     *)
(* cancel requests, whatever publish and on_finish do.                     *)
(***************************************************************************)
EXTENDS JobRunner, TLAPS

LEMMA InitTypeOK == Init => TypeOK
<1> USE ThreadsAssumption, StagesAssumption
<1> SUFFICES ASSUME Init PROVE TypeOK
  OBVIOUS
<1>1. /\ pc \in [Jobs \cup Requests -> JobPoints \cup RequestPoints]
      /\ \A j \in Jobs : pc[j] = "absent" /\ snap[j] = Nothing
      /\ \A r \in Requests : pc[r] = "idle" /\ snap[r] = Nothing
  BY DEF Init, JobPoints, RequestPoints
<1>2. /\ status \in [Jobs -> Status] /\ outcome \in [Jobs -> Terminal]
      /\ stage \in [Jobs -> 0..MaxStages] /\ checked \in [Jobs -> Nat]
  BY DEF Init, Status, Terminal
<1>3. /\ cancelled \in [Jobs -> BOOLEAN] /\ hasSeq \in [Jobs -> BOOLEAN]
      /\ done \in [Jobs -> BOOLEAN]
  BY DEF Init
<1>4. /\ snap \in [Jobs \cup Requests -> Snapshots \cup {Nothing}]
      /\ shown \in [Jobs -> Snapshots \cup {Nothing}]
      /\ emitLock = Free /\ unheard = {} /\ brokenEnd = {}
  BY DEF Init
<1>5. /\ \A j \in Jobs : pc[j] \in JobPoints /\ pc[j] # "update"
      /\ \A r \in Requests : pc[r] \in RequestPoints
      /\ \A p \in Jobs \cup Requests : snap[p] = Nothing
  BY <1>1 DEF JobPoints, RequestPoints
<1> QED
  BY <1>1, <1>2, <1>3, <1>4, <1>5 DEF TypeOK

\* Every variable keeps its type.
THEOREM TypeCorrect == Spec => []TypeOK
<1> USE ThreadsAssumption, StagesAssumption
<1>1. Init => TypeOK
  BY InitTypeOK
<1>2. TypeOK /\ [Next]_vars => TypeOK'
  <2> SUFFICES ASSUME TypeOK, [Next]_vars PROVE TypeOK'
    OBVIOUS
  <2> USE DEF TypeOK, Goto, jobVars, hist, JobPoints, RequestPoints, EmitPoints
  <2>1. ASSUME NEW j \in Jobs, Submit(j) PROVE TypeOK'
    BY <2>1 DEF Submit, JobPoints
  <2>2. ASSUME NEW j \in Jobs, StartThread(j) PROVE TypeOK'
    BY <2>2 DEF StartThread, JobPoints, EmitPoints
  <2>3. ASSUME NEW j \in Jobs, StartFails(j) PROVE TypeOK'
    BY <2>3 DEF StartFails, JobPoints, Status, Terminal
  <2>4. ASSUME NEW p \in Jobs \cup Requests, EmitBegin(p) PROVE TypeOK'
    BY <2>4 DEF EmitBegin, Snapshot, Snapshots, JobOf
  <2>5. ASSUME NEW p \in Jobs \cup Requests, EmitEnd(p) PROVE TypeOK'
    <3>1. pc[p] \in EmitPoints /\ (p \in Requests => pc[p] = "emitCancel") /\ JobOf(p) \in Jobs
      BY <2>5 DEF EmitEnd, JobOf, RequestPoints, EmitPoints
    <3>2. p \in Jobs => AfterEmit(pc[p]) \in {"body", "emitFinal", "release"}
      BY <3>1 DEF AfterEmit, EmitPoints, JobPoints
    <3>3. p \in Requests => AfterEmit(pc[p]) = "returned"
      BY <3>1 DEF AfterEmit
    <3>4. pc' \in [Jobs \cup Requests -> JobPoints \cup RequestPoints]
      BY <2>5, <3>2, <3>3 DEF EmitEnd, JobPoints, RequestPoints, EmitPoints
    <3>5. /\ \A j \in Jobs : pc'[j] \in JobPoints /\ (pc'[j] = "update" => stage'[j] < MaxStages)
          /\ \A r \in Requests : pc'[r] \in RequestPoints
      BY <2>5, <3>2, <3>3 DEF EmitEnd, JobPoints, RequestPoints, EmitPoints
    <3> QED
      BY <2>5, <3>1, <3>4, <3>5, NothingAssumption DEF EmitEnd
  <2>6. ASSUME NEW p \in Jobs \cup Requests, EmitRaises(p) PROVE TypeOK'
    <3>1. pc[p] \in EmitPoints /\ (p \in Requests => pc[p] = "emitCancel") /\ JobOf(p) \in Jobs
      BY <2>6 DEF EmitRaises, JobOf, RequestPoints, EmitPoints
    <3>2. p \in Jobs => AfterRaise(pc[p]) \in {"settle", "emitFinal", "release"}
      BY <3>1 DEF AfterRaise, AfterEmit, EmitPoints, JobPoints
    <3>3. p \in Requests => AfterRaise(pc[p]) = "returned"
      BY <3>1 DEF AfterRaise, AfterEmit
    <3>4. pc' \in [Jobs \cup Requests -> JobPoints \cup RequestPoints]
      BY <2>6, <3>2, <3>3 DEF EmitRaises, JobPoints, RequestPoints, EmitPoints
    <3>5. /\ \A j \in Jobs : pc'[j] \in JobPoints /\ (pc'[j] = "update" => stage'[j] < MaxStages)
          /\ \A r \in Requests : pc'[r] \in RequestPoints
      BY <2>6, <3>2, <3>3 DEF EmitRaises, JobPoints, RequestPoints, EmitPoints
    <3>6. outcome' \in [Jobs -> Terminal] /\ unheard' \subseteq Jobs
      BY <2>6, <3>1 DEF EmitRaises, Terminal
    <3> QED
      BY <2>6, <3>1, <3>4, <3>5, <3>6, NothingAssumption DEF EmitRaises
  <2>7. ASSUME NEW j \in Jobs, PassCheckpoint(j) PROVE TypeOK'
    BY <2>7 DEF PassCheckpoint, JobPoints
  <2>8. ASSUME NEW j \in Jobs, StopAtCheckpoint(j) PROVE TypeOK'
    BY <2>8 DEF StopAtCheckpoint, JobPoints, Terminal
  <2>9. ASSUME NEW j \in Jobs, EnterStage(j) PROVE TypeOK'
    BY <2>9 DEF EnterStage, JobPoints, EmitPoints
  <2>10. ASSUME NEW j \in Jobs, BodyEnds(j) PROVE TypeOK'
    BY <2>10 DEF BodyEnds, JobPoints, Terminal
  <2>11. ASSUME NEW j \in Jobs, Settle(j) PROVE TypeOK'
    BY <2>11 DEF Settle, JobPoints, Status
  <2>12. ASSUME NEW j \in Jobs, OnFinish(j) PROVE TypeOK'
    BY <2>12 DEF OnFinish, JobPoints, EmitPoints
  <2>13. ASSUME NEW j \in Jobs, OnFinishRaises(j) PROVE TypeOK'
    BY <2>13 DEF OnFinishRaises, JobPoints, EmitPoints
  <2>14. ASSUME NEW j \in Jobs, Release(j) PROVE TypeOK'
    BY <2>14 DEF Release, JobPoints
  <2>15. ASSUME NEW r \in Requests, Cancel(r) PROVE TypeOK'
    BY <2>15 DEF Cancel, RequestPoints
  <2>16. ASSUME NEW r \in Requests, CancelTooLate(r) PROVE TypeOK'
    BY <2>16 DEF CancelTooLate, RequestPoints
  <2>17. CASE UNCHANGED vars
    BY <2>17 DEF vars
  <2> QED
    BY <2>1, <2>2, <2>3, <2>4, <2>5, <2>6, <2>7, <2>8, <2>9, <2>10, <2>11, <2>12, <2>13,
       <2>14, <2>15, <2>16, <2>17 DEF Next, Thread, Request, Emit
<1> QED
  BY <1>1, <1>2, PTL DEF Spec

-----------------------------------------------------------------------------
(* The invariant. A snapshot that was taken or published says nothing the  *)
(* job's fields have not reached; the one waiting to be published is at    *)
(* least as late as the last one published, because its holder has the     *)
(* emit lock; and a thread past on_finish has published the end.           *)

Unsettled == {"absent", "registered", "emitStart", "emitStage", "body", "update", "settle"}
Finished  == {"emitHistory", "emitFinal", "release", "ended"}

Reached(s, j) == /\ s.status \in {"running", status[j]}
                 /\ s.stage <= stage[j]
                 /\ s.cancelled => cancelled[j]
                 /\ s.hasSeq => hasSeq[j]

EmitInv ==
  /\ \A j \in Jobs : shown[j] # Nothing => Reached(shown[j], j)
  /\ \A p \in Jobs \cup Requests : snap[p] # Nothing =>
       /\ Reached(snap[p], JobOf(p))
       /\ Supersedes(snap[p], shown[JobOf(p)])

PhaseInv == \A j \in Jobs :
  /\ status[j] = "running" <=> pc[j] \in Unsettled
  /\ pc[j] = "settle" /\ outcome[j] = "cancelled" => cancelled[j]
  /\ status[j] = "cancelled" => cancelled[j]
  /\ cancelled[j] => stage[j] + (IF pc[j] = "update" THEN 1 ELSE 0) <= checked[j]
  /\ done[j] => pc[j] = "ended"

Complete(s, j) == s # Nothing /\ s.status = status[j] /\ s.hasSeq

EndInv == \A j \in Jobs : j \notin unheard \cup brokenEnd =>
  /\ pc[j] \in Finished => hasSeq[j]
  /\ pc[j] \in Finished /\ snap[j] # Nothing => Complete(snap[j], j)
  /\ pc[j] \in {"release", "ended"} => Complete(shown[j], j)

IInv == TypeOK /\ EmitInv /\ PhaseInv /\ EndInv

\* A step moves the job's fields only forward.
Grows(j) == /\ status[j] \in {"running", status'[j]}
            /\ stage[j] <= stage'[j]
            /\ cancelled[j] => cancelled'[j]
            /\ hasSeq[j] => hasSeq'[j]

LEMMA InitIInv == Init => IInv
<1> SUFFICES ASSUME Init PROVE IInv
  OBVIOUS
<1> USE ThreadsAssumption, StagesAssumption
<1>1. /\ \A j \in Jobs : /\ pc[j] = "absent" /\ status[j] = "running" /\ ~cancelled[j]
                         /\ ~done[j] /\ shown[j] = Nothing
      /\ \A p \in Jobs \cup Requests : snap[p] = Nothing
  BY DEF Init
<1>2. TypeOK
  BY InitTypeOK
<1> QED
  BY <1>1, <1>2 DEF IInv, EmitInv, PhaseInv, EndInv, Unsettled, Finished

LEMMA ReachedStays ==
  ASSUME NEW j \in Jobs, NEW s \in Snapshots, TypeOK, TypeOK', Grows(j), Reached(s, j)
  PROVE  Reached(s, j)'
BY StagesAssumption DEF Reached, Grows, TypeOK, Snapshots, Status

LEMMA JobOfType == \A p \in Jobs \cup Requests : JobOf(p) \in Jobs
BY ThreadsAssumption DEF JobOf

\* Fields that only grow leave what was taken and published within reach.
LEMMA GrowthKeepsEmitInv ==
  ASSUME TypeOK, TypeOK', EmitInv, \A j \in Jobs : Grows(j), UNCHANGED <<snap, shown>>
  PROVE  EmitInv'
<1>1. ASSUME NEW j \in Jobs, shown[j] # Nothing PROVE Reached(shown[j], j)'
  BY <1>1, ReachedStays DEF EmitInv, TypeOK
<1>2. ASSUME NEW p \in Jobs \cup Requests, snap[p] # Nothing PROVE Reached(snap[p], JobOf(p))'
  BY <1>2, ReachedStays, JobOfType DEF EmitInv, TypeOK
<1> QED
  BY <1>1, <1>2 DEF EmitInv, Reached, JobOf

\* Only publishing needs a closer look at what is in flight.
LEMMA EmitInvKept == TypeOK /\ TypeOK' /\ EmitInv /\ PhaseInv /\ [Next]_vars => EmitInv'
<1> SUFFICES ASSUME TypeOK, TypeOK', EmitInv, PhaseInv, [Next]_vars PROVE EmitInv'
  OBVIOUS
<1> USE ThreadsAssumption, StagesAssumption
<1>1. ASSUME NEW p \in Jobs \cup Requests, EmitBegin(p) PROVE EmitInv'
  <2> DEFINE j == JobOf(p)
  <2>1. j \in Jobs
    BY JobOfType
  <2>2. /\ snap' = [snap EXCEPT ![p] = Snapshot(j)] /\ shown' = shown
        /\ UNCHANGED jobVars
    BY <1>1 DEF EmitBegin
  <2>3. Reached(Snapshot(j), j)
    BY <2>1 DEF Reached, Snapshot, TypeOK
  <2>4. Supersedes(Snapshot(j), shown[j])
    BY <2>1 DEF EmitInv, Reached, Supersedes, Snapshot
  <2>5. \A i \in Jobs : Reached(shown[i], i) => Reached(shown[i], i)'
    BY <2>2 DEF Reached, jobVars
  <2>6. ASSUME NEW q \in Jobs \cup Requests, snap'[q] # Nothing
        PROVE  Reached(snap[q], JobOf(q))' /\ Supersedes(snap[q], shown[JobOf(q)])'
    <3>1. CASE q = p
      BY <3>1, <2>2, <2>3, <2>4 DEF TypeOK, Reached, JobOf, jobVars
    <3>2. CASE q # p
      BY <3>2, <2>2, <2>6 DEF TypeOK, EmitInv, Reached, JobOf, jobVars
    <3> QED
      BY <3>1, <3>2
  <2> QED
    BY <2>2, <2>5, <2>6 DEF EmitInv
<1>2. ASSUME NEW p \in Jobs \cup Requests, EmitEnd(p) PROVE EmitInv'
  <2> DEFINE j == JobOf(p)
  <2>1. j \in Jobs
    BY JobOfType
  <2>2. /\ snap' = [snap EXCEPT ![p] = Nothing] /\ shown' = [shown EXCEPT ![j] = snap[p]]
        /\ UNCHANGED jobVars /\ snap[p] # Nothing
    BY <1>2 DEF EmitEnd
  <2>3. \A q \in Jobs \cup Requests : snap'[q] = Nothing
    BY <2>2 DEF TypeOK
  <2>4. Reached(snap[p], j)
    BY <2>2 DEF EmitInv
  <2>5. ASSUME NEW i \in Jobs, shown'[i] # Nothing PROVE Reached(shown[i], i)'
    <3>1. CASE i = j
      BY <3>1, <2>2, <2>4 DEF TypeOK, Reached, jobVars
    <3>2. CASE i # j
      BY <3>2, <2>2, <2>5 DEF TypeOK, EmitInv, Reached, jobVars
    <3> QED
      BY <3>1, <3>2
  <2> QED
    BY <2>3, <2>5 DEF EmitInv
<1>3. ASSUME NEW p \in Jobs \cup Requests, EmitRaises(p) PROVE EmitInv'
  <2>1. /\ snap' = [snap EXCEPT ![p] = Nothing] /\ shown' = shown /\ UNCHANGED jobVars
    BY <1>3 DEF EmitRaises
  <2>2. \A q \in Jobs \cup Requests : snap'[q] # Nothing => snap'[q] = snap[q]
    BY <2>1 DEF TypeOK
  <2> QED
    BY <2>1, <2>2 DEF EmitInv, Reached, JobOf, jobVars
<1>4. ASSUME UNCHANGED <<snap, shown>>, \A j \in Jobs : Grows(j) PROVE EmitInv'
  BY <1>4, GrowthKeepsEmitInv
<1>5. ASSUME UNCHANGED jobVars, NEW j \in Jobs PROVE Grows(j)
  BY <1>5 DEF Grows, jobVars, TypeOK
<1> USE <1>4, <1>5 DEF Grows, jobVars, TypeOK
<1>6. ASSUME NEW j \in Jobs, StartFails(j) PROVE EmitInv'
  <2>1. status[j] = "running"
    BY <1>6 DEF StartFails, Goto, PhaseInv, Unsettled
  <2> QED
    BY <1>6, <2>1 DEF StartFails
<1>7. ASSUME NEW j \in Jobs, EnterStage(j) PROVE EmitInv'
  BY <1>7 DEF EnterStage
<1>8. ASSUME NEW j \in Jobs, Settle(j) PROVE EmitInv'
  <2>1. status[j] = "running"
    BY <1>8 DEF Settle, Goto, PhaseInv, Unsettled
  <2> QED
    BY <1>8, <2>1 DEF Settle
<1>9. ASSUME NEW j \in Jobs, OnFinish(j) PROVE EmitInv'
  BY <1>9 DEF OnFinish
<1>10. ASSUME NEW r \in Requests, Cancel(r) PROVE EmitInv'
  BY <1>10 DEF Cancel
<1>11. ASSUME NEW j \in Jobs,
              \/ Submit(j) \/ StartThread(j) \/ PassCheckpoint(j) \/ StopAtCheckpoint(j)
              \/ BodyEnds(j) \/ OnFinishRaises(j) \/ Release(j)
       PROVE  EmitInv'
  BY <1>11 DEF Submit, StartThread, PassCheckpoint, StopAtCheckpoint, BodyEnds,
               OnFinishRaises, Release
<1>12. ASSUME NEW r \in Requests, CancelTooLate(r) PROVE EmitInv'
  BY <1>12 DEF CancelTooLate
<1>13. CASE UNCHANGED vars
  BY <1>13 DEF vars
<1> QED
  BY <1>1, <1>2, <1>3, <1>6, <1>7, <1>8, <1>9, <1>10, <1>11, <1>12, <1>13
     DEF Next, Thread, Request, Emit

\* Outcome and point of control go together.
LEMMA PhaseInvKept == TypeOK /\ TypeOK' /\ PhaseInv /\ [Next]_vars => PhaseInv'
<1> SUFFICES ASSUME TypeOK, TypeOK', PhaseInv, [Next]_vars,
                    NEW i \in Jobs
             PROVE  /\ status'[i] = "running" <=> pc'[i] \in Unsettled
                    /\ pc'[i] = "settle" /\ outcome'[i] = "cancelled" => cancelled'[i]
                    /\ status'[i] = "cancelled" => cancelled'[i]
                    /\ cancelled'[i] => stage'[i] + (IF pc'[i] = "update" THEN 1 ELSE 0)
                                         <= checked'[i]
                    /\ done'[i] => pc'[i] = "ended"
  BY DEF PhaseInv
<1> DEFINE Phase == /\ status'[i] = "running" <=> pc'[i] \in Unsettled
                    /\ pc'[i] = "settle" /\ outcome'[i] = "cancelled" => cancelled'[i]
                    /\ status'[i] = "cancelled" => cancelled'[i]
                    /\ cancelled'[i] => stage'[i] + (IF pc'[i] = "update" THEN 1 ELSE 0)
                                         <= checked'[i]
                    /\ done'[i] => pc'[i] = "ended"
<1> USE ThreadsAssumption, StagesAssumption
<1>0. /\ status[i] = "running" <=> pc[i] \in Unsettled
      /\ pc[i] = "settle" /\ outcome[i] = "cancelled" => cancelled[i]
      /\ status[i] = "cancelled" => cancelled[i]
      /\ cancelled[i] => stage[i] + (IF pc[i] = "update" THEN 1 ELSE 0) <= checked[i]
      /\ done[i] => pc[i] = "ended"
  BY DEF PhaseInv
<1>00. pc \in [Jobs \cup Requests -> JobPoints \cup RequestPoints]
  BY DEF TypeOK
<1>000. /\ stage \in [Jobs -> 0..MaxStages] /\ checked \in [Jobs -> Nat]
        /\ status \in [Jobs -> Status] /\ cancelled \in [Jobs -> BOOLEAN]
        /\ outcome \in [Jobs -> Terminal] /\ done \in [Jobs -> BOOLEAN]
  BY DEF TypeOK
<1> USE <1>0, <1>00, <1>000 DEF Goto, jobVars, hist, Unsettled
<1>1. ASSUME NEW j \in Jobs, Submit(j) PROVE Phase
  BY <1>1 DEF Submit
<1>2. ASSUME NEW j \in Jobs, StartThread(j) PROVE Phase
  BY <1>2 DEF StartThread
<1>3. ASSUME NEW j \in Jobs, StartFails(j) PROVE Phase
  BY <1>3 DEF StartFails
<1>4. ASSUME NEW p \in Jobs \cup Requests, EmitBegin(p) PROVE Phase
  BY <1>4 DEF EmitBegin
<1>5. ASSUME NEW p \in Jobs \cup Requests, EmitEnd(p) PROVE Phase
  <2>1. pc[p] \in EmitPoints
    BY <1>5 DEF EmitEnd, TypeOK
  <2>2. /\ pc[p] \in Unsettled <=> AfterEmit(pc[p]) \in Unsettled
        /\ AfterEmit(pc[p]) \notin {"settle", "update"} /\ pc[p] # "ended"
    BY <2>1 DEF AfterEmit, EmitPoints
  <2> QED
    BY <1>5, <2>2 DEF EmitEnd
<1>6. ASSUME NEW p \in Jobs \cup Requests, EmitRaises(p) PROVE Phase
  <2>1. pc[p] \in EmitPoints
    BY <1>6 DEF EmitRaises, TypeOK
  <2>2. /\ pc[p] \in Unsettled <=> AfterRaise(pc[p]) \in Unsettled
        /\ AfterRaise(pc[p]) # "update" /\ pc[p] # "ended"
    BY <2>1 DEF AfterRaise, AfterEmit, EmitPoints
  <2>3. p \in Jobs /\ pc'[p] = "settle" => outcome'[p] = "failed"
    BY <1>6, <2>1 DEF EmitRaises, AfterRaise, AfterEmit, EmitPoints
  <2>4. /\ status' = status /\ cancelled' = cancelled /\ stage' = stage
        /\ checked' = checked /\ done' = done
        /\ pc' = [pc EXCEPT ![p] = AfterRaise(@)]
    BY <1>6 DEF EmitRaises
  <2>5. pc'[i] = "settle" /\ outcome'[i] = "cancelled" => cancelled'[i]
    BY <1>6, <2>3, <2>4 DEF EmitRaises
  <2> QED
    BY <2>2, <2>4, <2>5
<1>7. ASSUME NEW j \in Jobs, PassCheckpoint(j) PROVE Phase
  BY <1>7 DEF PassCheckpoint
<1>8. ASSUME NEW j \in Jobs, StopAtCheckpoint(j) PROVE Phase
  BY <1>8 DEF StopAtCheckpoint
<1>9. ASSUME NEW j \in Jobs, EnterStage(j) PROVE Phase
  BY <1>9 DEF EnterStage
<1>10. ASSUME NEW j \in Jobs, BodyEnds(j) PROVE Phase
  BY <1>10 DEF BodyEnds
<1>11. ASSUME NEW j \in Jobs, Settle(j) PROVE Phase
  BY <1>11 DEF Settle, Terminal
<1>12. ASSUME NEW j \in Jobs, OnFinish(j) PROVE Phase
  BY <1>12 DEF OnFinish
<1>13. ASSUME NEW j \in Jobs, OnFinishRaises(j) PROVE Phase
  BY <1>13 DEF OnFinishRaises
<1>14. ASSUME NEW j \in Jobs, Release(j) PROVE Phase
  BY <1>14 DEF Release
<1>15. ASSUME NEW r \in Requests, Cancel(r) PROVE Phase
  <2>1. pc'[i] = pc[i] /\ UNCHANGED <<status, stage, outcome, done>>
    BY <1>15 DEF Cancel
  <2>2. i # Target[r] => cancelled'[i] = cancelled[i] /\ checked'[i] = checked[i]
    BY <1>15 DEF Cancel
  <2>3. i = Target[r] => cancelled'[i] /\ status[i] = "running"
    BY <1>15 DEF Cancel
  <2>4. i = Target[r] /\ ~cancelled[i] =>
          checked'[i] = stage[i] + (IF pc[i] = "update" THEN 1 ELSE 0)
    BY <1>15 DEF Cancel
  <2>5. i = Target[r] /\ cancelled[i] => checked'[i] = checked[i]
    BY <1>15 DEF Cancel
  <2> QED
    BY <2>1, <2>2, <2>3, <2>4, <2>5
<1>16. ASSUME NEW r \in Requests, CancelTooLate(r) PROVE Phase
  BY <1>16 DEF CancelTooLate
<1>17. CASE UNCHANGED vars
  BY <1>17 DEF vars
<1> QED
  BY <1>1, <1>2, <1>3, <1>4, <1>5, <1>6, <1>7, <1>8, <1>9, <1>10, <1>11, <1>12, <1>13,
     <1>14, <1>15, <1>16, <1>17 DEF Next, Thread, Request, Emit

\* What a thread past on_finish has published, nobody publishes over.
LEMMA EndInvKept ==
  TypeOK /\ TypeOK' /\ EmitInv /\ PhaseInv /\ EndInv /\ [Next]_vars => EndInv'
<1> SUFFICES ASSUME TypeOK, TypeOK', EmitInv, PhaseInv, EndInv, [Next]_vars,
                    NEW i \in Jobs, i \notin unheard' \cup brokenEnd'
             PROVE  /\ pc'[i] \in Finished => hasSeq'[i]
                    /\ pc'[i] \in Finished /\ snap'[i] # Nothing => Complete(snap[i], i)'
                    /\ pc'[i] \in {"release", "ended"} => Complete(shown[i], i)'
  BY DEF EndInv, Complete
<1> DEFINE Ended == /\ pc'[i] \in Finished => hasSeq'[i]
                    /\ pc'[i] \in Finished /\ snap'[i] # Nothing => Complete(snap[i], i)'
                    /\ pc'[i] \in {"release", "ended"} => Complete(shown[i], i)'
<1> USE ThreadsAssumption
<1>a. ASSUME i \notin unheard \cup brokenEnd
      PROVE  /\ pc[i] \in Finished => hasSeq[i]
             /\ pc[i] \in Finished /\ snap[i] # Nothing => Complete(snap[i], i)
             /\ pc[i] \in {"release", "ended"} => Complete(shown[i], i)
  BY <1>a DEF EndInv
<1>b. /\ pc \in [Jobs \cup Requests -> JobPoints \cup RequestPoints]
      /\ snap \in [Jobs \cup Requests -> Snapshots \cup {Nothing}]
      /\ status \in [Jobs -> Status] /\ hasSeq \in [Jobs -> BOOLEAN]
      /\ shown \in [Jobs -> Snapshots \cup {Nothing}]
  BY DEF TypeOK
<1>c. status[i] = "running" <=> pc[i] \in Unsettled
  BY DEF PhaseInv
\* A step that leaves what was said alone and does not finish a callback.
<1>d. ASSUME UNCHANGED <<status, hasSeq, snap, shown, unheard, brokenEnd>>,
             pc'[i] = pc[i] \/ pc'[i] \notin Finished \/ (pc[i] = "release" /\ pc'[i] = "ended")
      PROVE  Ended
  BY <1>a, <1>d DEF Complete, Finished
<1> USE <1>b DEF Goto, jobVars, hist, Finished
<1>1. ASSUME NEW j \in Jobs,
             \/ Submit(j) \/ StartThread(j) \/ PassCheckpoint(j) \/ StopAtCheckpoint(j)
             \/ BodyEnds(j) \/ EnterStage(j)
      PROVE  Ended
  <2>1. /\ UNCHANGED <<status, hasSeq, snap, shown, unheard, brokenEnd>>
        /\ pc' = [pc EXCEPT ![j] = pc'[j]]
        /\ pc'[j] \in {"registered", "emitStart", "body", "update", "settle", "emitStage"}
    BY <1>1 DEF Submit, StartThread, PassCheckpoint, StopAtCheckpoint, BodyEnds, EnterStage
  <2> QED
    BY <2>1, <1>d
<1>2. ASSUME NEW j \in Jobs, StartFails(j) PROVE Ended
  <2>1. i # j
    BY <1>2 DEF StartFails
  <2> QED
    BY <1>2, <2>1, <1>a DEF StartFails, Complete
<1>3. ASSUME NEW p \in Jobs \cup Requests, EmitBegin(p) PROVE Ended
  <2>1. /\ pc' = pc /\ UNCHANGED <<status, hasSeq, shown, unheard, brokenEnd>>
        /\ snap' = [snap EXCEPT ![p] = Snapshot(JobOf(p))]
    BY <1>3 DEF EmitBegin
  <2>2. Snapshot(i).status = status[i] /\ Snapshot(i).hasSeq = hasSeq[i]
    BY DEF Snapshot
  <2>3. p = i => snap'[i] = Snapshot(i)
    BY <2>1 DEF JobOf
  <2>4. p # i => snap'[i] = snap[i]
    BY <2>1
  <2> QED
    BY <2>1, <2>2, <2>3, <2>4, <1>a DEF Complete
<1>4. ASSUME NEW p \in Jobs \cup Requests, EmitEnd(p) PROVE Ended
  <2>1. /\ UNCHANGED <<status, hasSeq, unheard, brokenEnd>> /\ snap[p] # Nothing
        /\ snap' = [snap EXCEPT ![p] = Nothing] /\ pc' = [pc EXCEPT ![p] = AfterEmit(@)]
        /\ shown' = [shown EXCEPT ![JobOf(p)] = snap[p]]
    BY <1>4 DEF EmitEnd
  <2>2. pc[p] \in EmitPoints /\ \A q \in Jobs \cup Requests : q # p => snap[q] = Nothing
    BY <2>1 DEF TypeOK
  <2>3. snap'[i] = Nothing
    BY <2>1, <2>2
  <2>4. pc'[i] \in Finished => pc[i] \in Finished
    BY <2>1, <2>2 DEF AfterEmit, EmitPoints
  <2>5. CASE p = i
    <3>1. pc'[i] \in {"release", "ended"} => pc[i] \in Finished
      BY <2>4
    <3>2. shown'[i] = snap[i]
      BY <2>1, <2>5 DEF JobOf
    <3> QED
      BY <1>a, <2>1, <2>3, <2>4, <2>5, <3>1, <3>2 DEF Complete
  <2>6. CASE p # i /\ JobOf(p) # i
    BY <1>a, <2>1, <2>3, <2>6 DEF Complete
  <2>7. CASE p # i /\ JobOf(p) = i
    <3>1. shown'[i] = snap[p] /\ pc'[i] = pc[i]
      BY <2>1, <2>7
    <3>2. Reached(snap[p], i) /\ Supersedes(snap[p], shown[i])
      BY <2>1, <2>7 DEF EmitInv
    <3>3. ASSUME pc[i] \in {"release", "ended"} PROVE Complete(shown[i], i)'
      <4>1. Complete(shown[i], i)
        BY <1>a, <2>1, <3>3
      <4>2. status[i] # "running"
        BY <3>3, <1>c DEF Unsettled
      <4>3. snap[p].status = status[i] /\ snap[p].hasSeq
        BY <4>1, <4>2, <3>2 DEF Complete, Supersedes, Reached
      <4> QED
        BY <2>1, <3>1, <4>3 DEF Complete
    <3> QED
      BY <1>a, <2>1, <2>3, <3>1, <3>3
  <2> QED
    BY <2>5, <2>6, <2>7
<1>5. ASSUME NEW p \in Jobs \cup Requests, EmitRaises(p) PROVE Ended
  <2>1. /\ UNCHANGED <<status, hasSeq, shown, brokenEnd>> /\ snap[p] # Nothing
        /\ snap' = [snap EXCEPT ![p] = Nothing] /\ pc' = [pc EXCEPT ![p] = AfterRaise(@)]
        /\ unheard' = unheard \cup {JobOf(p)}
    BY <1>5 DEF EmitRaises
  <2>2. p # i /\ i \notin unheard \cup brokenEnd
    BY <2>1 DEF JobOf
  <2> QED
    BY <1>a, <2>1, <2>2 DEF Complete
<1>6. ASSUME NEW j \in Jobs, Settle(j) PROVE Ended
  <2>1. j = i => pc'[i] = "finish"
    BY <1>6 DEF Settle
  <2> QED
    BY <1>6, <2>1, <1>a DEF Settle, Complete
<1>7. ASSUME NEW j \in Jobs, OnFinish(j) PROVE Ended
  <2>1. j = i => pc'[i] = "emitHistory" /\ hasSeq'[i] /\ snap'[i] = Nothing
    BY <1>7 DEF OnFinish, TypeOK, EmitPoints
  <2> QED
    BY <1>7, <2>1, <1>a DEF OnFinish, Complete
<1>8. ASSUME NEW j \in Jobs, OnFinishRaises(j) PROVE Ended
  <2>1. i # j
    BY <1>8 DEF OnFinishRaises
  <2> QED
    BY <1>8, <2>1, <1>a DEF OnFinishRaises, Complete
<1>9. ASSUME NEW j \in Jobs, Release(j) PROVE Ended
  <2>1. /\ UNCHANGED <<status, hasSeq, snap, shown, unheard, brokenEnd>>
        /\ pc[j] = "release" /\ pc' = [pc EXCEPT ![j] = "ended"]
    BY <1>9 DEF Release
  <2> QED
    BY <2>1, <1>d
<1>10. ASSUME NEW r \in Requests, Cancel(r) \/ CancelTooLate(r) PROVE Ended
  BY <1>10, <1>d DEF Cancel, CancelTooLate
<1>11. CASE UNCHANGED vars
  BY <1>11, <1>d DEF vars
<1> QED
  BY <1>1, <1>2, <1>3, <1>4, <1>5, <1>6, <1>7, <1>8, <1>9, <1>10, <1>11
     DEF Next, Thread, Request, Emit

LEMMA Invariance == Spec => []IInv
<1>1. IInv /\ TypeOK' /\ [Next]_vars => IInv'
  BY EmitInvKept, PhaseInvKept, EndInvKept DEF IInv
<1> QED
  BY <1>1, InitIInv, TypeCorrect, PTL DEF Spec

\* Whoever waits for a job has seen its last event, and its history entry is
\* there: for any number of jobs, stages and cancel requests (jobs.py:218).
THEOREM WaitersSawTheEnd == Spec => []WaiterSawTheEnd
<1>1. IInv => WaiterSawTheEnd
  BY DEF IInv, PhaseInv, EndInv, WaiterSawTheEnd, Complete, Finished
<1> QED
  BY <1>1, Invariance, PTL

\* A cancel stops its job at the next checkpoint, and only a job that was asked
\* to stop ends cancelled (jobs.py:99).
THEOREM CancelsAreObeyed == Spec => []CancelStopsAtCheckpoint
<1>1. IInv => CancelStopsAtCheckpoint
  <2> SUFFICES ASSUME IInv, NEW j \in Jobs
               PROVE  /\ status[j] # "running" /\ cancelled[j] => stage[j] <= checked[j]
                      /\ status[j] = "cancelled" => cancelled[j]
    BY DEF CancelStopsAtCheckpoint
  <2> QED
    BY StagesAssumption DEF IInv, PhaseInv, Unsettled, TypeOK
<1> QED
  BY <1>1, Invariance, PTL

\* Subscribers never see a job go backwards.
THEOREM OrderedEvents == Spec => EventsInOrder
<1>1. IInv /\ [Next]_vars =>
        [\A j \in Jobs : shown'[j] # shown[j] => Supersedes(shown'[j], shown[j])]_shown
  <2> SUFFICES ASSUME IInv, [Next]_vars, NEW j \in Jobs, shown'[j] # shown[j]
               PROVE  Supersedes(shown'[j], shown[j])
    OBVIOUS
  <2>1. PICK p \in Jobs \cup Requests : EmitEnd(p)
    BY DEF Next, Thread, Request, Emit, vars, hist, jobVars, Submit, StartThread, StartFails,
           EmitBegin, EmitRaises, PassCheckpoint, StopAtCheckpoint, EnterStage, BodyEnds,
           Settle, OnFinish, OnFinishRaises, Release, Cancel, CancelTooLate
  <2>2. shown' = [shown EXCEPT ![JobOf(p)] = snap[p]] /\ snap[p] # Nothing
    BY <2>1 DEF EmitEnd
  <2>3. JobOf(p) = j /\ shown'[j] = snap[p]
    BY <2>2 DEF IInv, TypeOK
  <2> QED
    BY <2>2, <2>3 DEF IInv, EmitInv
<1> QED
  BY <1>1, Invariance, PTL DEF Spec, EventsInOrder

\* The runner implements its promise: each step is one of the promise's steps
\* or changes nothing it speaks of. What a job's thread, a stage and the emit
\* lock do is a stutter; publishing is telling.
THEOREM RunnerKeepsPromise == Spec => KeepsPromise
<1> USE DEF Promise!promise
<1>1. Init => Promise!Init
  BY DEF Init, Promise!Init, Told
<1>2. ASSUME IInv, [Next]_vars PROVE [Promise!Next]_(Promise!promise)
  <2> USE <1>2
  <2>0. TypeOK /\ EmitInv /\ PhaseInv /\ EndInv
    BY DEF IInv
  <2> DEFINE Silent == UNCHANGED <<status, cancelled, shown, done, unheard, brokenEnd>>
  <2>1. ASSUME Silent PROVE UNCHANGED Promise!promise
    BY <2>1 DEF Told
  <2>2. ASSUME NEW j \in Jobs, StartFails(j) PROVE Promise!End(j)
    <3>1. status[j] = "running"
      BY <2>0, <2>2 DEF StartFails, Goto, PhaseInv, Unsettled
    <3>2. UNCHANGED [i \in Jobs |-> Told(i)]
      BY <2>2 DEF StartFails, Told
    <3> QED
      BY <2>2, <3>1, <3>2 DEF StartFails, Promise!End
  <2>3. ASSUME NEW p \in Jobs \cup Requests, EmitEnd(p)
        PROVE  Promise!TellRunning(JobOf(p)) \/ Promise!TellEnd(JobOf(p))
    <3> DEFINE j == JobOf(p)
    <3>1. j \in Jobs
      BY JobOfType
    <3>2. /\ shown' = [shown EXCEPT ![j] = snap[p]] /\ snap[p] # Nothing
          /\ UNCHANGED <<status, cancelled, done, unheard, brokenEnd>>
      BY <2>3 DEF EmitEnd, jobVars, hist
    <3>3. Reached(snap[p], j) /\ Supersedes(snap[p], shown[j])
      BY <2>0, <3>2 DEF EmitInv
    <3>4. /\ shown'[j] = snap[p] /\ \A i \in Jobs : i # j => shown'[i] = shown[i]
      BY <2>0, <3>1, <3>2 DEF TypeOK
    <3>5. CASE snap[p].status = "running"
      <4>1. Told(j)' = "running" /\ \A i \in Jobs : i # j => Told(i)' = Told(i)
        BY <3>2, <3>4, <3>5 DEF Told
      <4>2. [i \in Jobs |-> Told(i)]' = [[i \in Jobs |-> Told(i)] EXCEPT ![j] = "running"]
        BY <3>1, <4>1
      <4>3. Told(j) # "ended"
        BY <3>3, <3>5 DEF Told, Supersedes
      <4> QED
        BY <3>1, <3>2, <4>2, <4>3 DEF Promise!TellRunning
    <3>6. CASE snap[p].status # "running"
      <4>1. Told(j)' = "ended" /\ \A i \in Jobs : i # j => Told(i)' = Told(i)
        BY <3>2, <3>4, <3>6 DEF Told
      <4>2. [i \in Jobs |-> Told(i)]' = [[i \in Jobs |-> Told(i)] EXCEPT ![j] = "ended"]
        BY <3>1, <4>1
      <4>3. status[j] # "running"
        BY <3>3, <3>6 DEF Reached
      <4> QED
        BY <3>1, <3>2, <4>2, <4>3 DEF Promise!TellEnd
    <3> QED
      BY <3>5, <3>6
  <2>4. ASSUME NEW p \in Jobs \cup Requests, EmitRaises(p) PROVE Promise!Excuse(JobOf(p))
    <3>1. UNCHANGED [i \in Jobs |-> Told(i)]
      BY <2>4 DEF EmitRaises, Told
    <3> QED
      BY <2>4, <3>1 DEF EmitRaises, jobVars, Promise!Excuse
  <2>5. ASSUME NEW j \in Jobs, Settle(j) PROVE Promise!End(j)
    <3>1. status[j] = "running" /\ (outcome[j] = "cancelled" => cancelled[j])
      BY <2>0, <2>5 DEF Settle, Goto, PhaseInv, Unsettled
    <3>2. outcome[j] \in {"done", "failed"} \cup (IF cancelled[j] THEN {"cancelled"} ELSE {})
      BY <2>0, <3>1 DEF TypeOK, Terminal
    <3>3. UNCHANGED [i \in Jobs |-> Told(i)]
      BY <2>5 DEF Settle, Told
    <3> QED
      BY <2>5, <3>1, <3>2, <3>3 DEF Settle, hist, Promise!End
  <2>6. ASSUME NEW j \in Jobs, OnFinishRaises(j) PROVE Promise!Excuse(j)
    <3>1. UNCHANGED [i \in Jobs |-> Told(i)]
      BY <2>6 DEF OnFinishRaises, Told
    <3> QED
      BY <2>6, <3>1 DEF OnFinishRaises, jobVars, Promise!Excuse
  <2>7. ASSUME NEW j \in Jobs, Release(j) PROVE Promise!Release(j)
    <3>1. pc[j] = "release" /\ status[j] # "running"
      BY <2>0, <2>7 DEF Release, Goto, PhaseInv, Unsettled
    <3>2. Told(j) = "ended" \/ j \in unheard \cup brokenEnd
      BY <2>0, <3>1 DEF EndInv, Complete, Told
    <3>3. UNCHANGED [i \in Jobs |-> Told(i)]
      BY <2>7 DEF Release, Told
    <3> QED
      BY <2>7, <3>1, <3>2, <3>3 DEF Release, jobVars, hist, Promise!Release
  <2>8. ASSUME NEW r \in Requests, Cancel(r) PROVE Promise!Ask(Target[r])
    <3>1. UNCHANGED [i \in Jobs |-> Told(i)]
      BY <2>8 DEF Cancel, Told
    <3> QED
      BY <2>8, <3>1 DEF Cancel, Promise!Ask
  <2>9. ASSUME NEW j \in Jobs,
               \/ Submit(j) \/ StartThread(j) \/ PassCheckpoint(j) \/ StopAtCheckpoint(j)
               \/ EnterStage(j) \/ BodyEnds(j) \/ OnFinish(j)
        PROVE  Silent
    BY <2>9 DEF Submit, StartThread, PassCheckpoint, StopAtCheckpoint, EnterStage, BodyEnds,
                OnFinish, jobVars, hist
  <2>10. ASSUME NEW p \in Jobs \cup Requests, EmitBegin(p) \/ CancelTooLate(p) PROVE Silent
    BY <2>10 DEF EmitBegin, CancelTooLate, jobVars, hist
  <2>11. CASE UNCHANGED vars
    BY <2>1, <2>11 DEF vars, jobVars, hist
  <2>12. \A p \in Jobs \cup Requests : JobOf(p) \in Jobs /\ (p \in Requests => Target[p] \in Jobs)
    BY JobOfType, ThreadsAssumption
  <2> QED
    BY <2>1, <2>2, <2>3, <2>4, <2>5, <2>6, <2>7, <2>8, <2>9, <2>10, <2>11, <2>12
       DEF Next, Thread, Request, Emit, Promise!Next
<1> QED
  BY <1>1, <1>2, Invariance, PTL DEF Spec, KeepsPromise, Promise!Spec
=============================================================================
