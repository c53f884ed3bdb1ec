------------------------------ MODULE JobRunner ------------------------------
(***************************************************************************)
(* The background jobs of the workbench (netstead/workbench/jobs.py): one  *)
(* daemon thread per job, progress pushed as events, cooperative cancel.   *)
(*                                                                         *)
(* A job's public fields change under the runner's lock, so every change   *)
(* of them is one atomic step here. _emit takes the emit lock, snapshots   *)
(* the fields and publishes the snapshot: a step to take the lock and the  *)
(* snapshot, a step to publish and release. Between the two, and between a *)
(* field change and its emit, any other thread may run.                    *)
(*                                                                         *)
(* The job function is a sequence of at most MaxStages ctx.stage() calls   *)
(* that returns or raises at any point; on_finish is any callback that     *)
(* stores history_seq with JobRunner.update, or raises.                    *)
(***************************************************************************)
EXTENDS Naturals

CONSTANTS
  Jobs,       \* the jobs, each named like the thread that runs it
  Requests,   \* the cancel requests, each one call of JobRunner.cancel
  Target,     \* the job each cancel request is about
  MaxStages,  \* how many ctx.stage() calls a job function makes at most
  Free,       \* "nobody": the emit lock is not held
  Nothing     \* no snapshot: the job has published no event yet

ASSUME ThreadsAssumption ==
  /\ Jobs \cap Requests = {}
  /\ Free \notin Jobs \cup Requests
  /\ Target \in [Requests -> Jobs]

ASSUME StagesAssumption == MaxStages \in Nat

\* A Target: every request is about the same job.
OneTarget == [r \in Requests |-> CHOOSE j \in Jobs : TRUE]

VARIABLES
  pc,         \* where each job thread and each cancel request stands
  status,     \* Job.status
  stage,      \* Job.stage: how many stages the function has entered
  cancelled,  \* Job.cancel_requested and Job._cancel, set together
  hasSeq,     \* whether Job.history_seq is set
  outcome,    \* the outcome the thread will settle (a local of _run)
  done,       \* Job._done
  emitLock,   \* the holder of JobRunner._emit_lock
  snap,       \* the snapshot a thread has taken and not yet published
  shown,      \* the last snapshot published of each job
  checked,    \* history: the checkpoints passed when cancel was requested
  unheard,    \* history: jobs some event of which was never published
  brokenEnd   \* history: jobs whose on_finish raised

jobVars  == <<status, stage, cancelled, hasSeq>>
hist     == <<checked, unheard, brokenEnd>>
vars     == <<pc, jobVars, outcome, done, emitLock, snap, shown, hist>>

-----------------------------------------------------------------------------

Terminal == {"done", "failed", "cancelled"}
Status   == {"running"} \cup Terminal

\* Job.to_dict, taken under the runner's lock by JobRunner.snapshot.
Snapshot(j) == [status |-> status[j], stage |-> stage[j],
                cancelled |-> cancelled[j], hasSeq |-> hasSeq[j]]

Snapshots == [status : Status, stage : 0..MaxStages,
              cancelled : BOOLEAN, hasSeq : BOOLEAN]

ASSUME NothingAssumption == Nothing \notin Snapshots

\* The points at which a thread calls _emit, and where it goes on after a
\* publish that returns and after one that raises.
EmitPoints == {"emitStart", "emitStage", "emitHistory", "emitFinal", "emitCancel"}

AfterEmit(point) ==
  CASE point \in {"emitStart", "emitStage"} -> "body"
    [] point = "emitHistory"                -> "emitFinal"
    [] point = "emitFinal"                  -> "release"
    [] point = "emitCancel"                 -> "returned"

\* Plausible bug: the thread dies of its final publish without the finally.
AfterRaiseNoFinally(point) ==
  IF point = "emitFinal" THEN "ended"
  ELSE IF point \in {"emitStart", "emitStage"} THEN "settle" ELSE AfterEmit(point)

AfterRaise(point) ==
  CASE point \in {"emitStart", "emitStage"} -> "settle"
    [] OTHER                                -> AfterEmit(point)

JobPoints     == {"absent", "registered", "body", "update", "settle",
                  "finish", "release", "ended"} \cup (EmitPoints \ {"emitCancel"})
RequestPoints == {"idle", "emitCancel", "returned"}

JobOf(p) == IF p \in Jobs THEN p ELSE Target[p]

Goto(p, from, to) == /\ pc[p] = from
                     /\ pc' = [pc EXCEPT ![p] = to]

-----------------------------------------------------------------------------

Init ==
  /\ pc = [p \in Jobs \cup Requests |-> IF p \in Jobs THEN "absent" ELSE "idle"]
  /\ status    = [j \in Jobs |-> "running"]
  /\ stage     = [j \in Jobs |-> 0]
  /\ cancelled = [j \in Jobs |-> FALSE]
  /\ hasSeq    = [j \in Jobs |-> FALSE]
  /\ outcome   = [j \in Jobs |-> "failed"]
  /\ done      = [j \in Jobs |-> FALSE]
  /\ emitLock  = Free
  /\ snap      = [p \in Jobs \cup Requests |-> Nothing]
  /\ shown     = [j \in Jobs |-> Nothing]
  /\ checked   = [j \in Jobs |-> 0]
  /\ unheard   = {}
  /\ brokenEnd = {}

\* submit, first half: the Job object exists and can be looked up.
Submit(j) ==
  /\ Goto(j, "absent", "registered")
  /\ UNCHANGED <<jobVars, outcome, done, emitLock, snap, shown, hist>>

\* submit, second half: the thread starts with _run's first _emit.
StartThread(j) ==
  /\ Goto(j, "registered", "emitStart")
  /\ UNCHANGED <<jobVars, outcome, done, emitLock, snap, shown, hist>>

\* submit's except branch: no thread, so the submitter settles the job and
\* releases its waiters; nothing is published and on_finish does not run.
StartFails(j) ==
  /\ Goto(j, "registered", "release")
  /\ status' = [status EXCEPT ![j] = "failed"]
  /\ unheard' = unheard \cup {j}
  /\ UNCHANGED <<stage, cancelled, hasSeq, outcome, done, emitLock,
                 snap, shown, checked, brokenEnd>>

\* Plausible bug: snapshots are published without the emit lock.
EmitBeginUnordered(p) ==
  /\ pc[p] \in EmitPoints /\ snap[p] = Nothing
  /\ emitLock' = p
  /\ snap' = [snap EXCEPT ![p] = Snapshot(JobOf(p))]
  /\ UNCHANGED <<pc, jobVars, outcome, done, shown, hist>>

\* _emit: take the emit lock, then snapshot the job under the runner's lock.
EmitBegin(p) ==
  /\ pc[p] \in EmitPoints /\ snap[p] = Nothing
  /\ emitLock = Free
  /\ emitLock' = p
  /\ snap' = [snap EXCEPT ![p] = Snapshot(JobOf(p))]
  /\ UNCHANGED <<pc, jobVars, outcome, done, shown, hist>>

\* _emit: publish the snapshot and release the emit lock.
EmitEnd(p) ==
  /\ snap[p] # Nothing
  /\ emitLock' = Free
  /\ snap' = [snap EXCEPT ![p] = Nothing]
  /\ shown' = [shown EXCEPT ![JobOf(p)] = snap[p]]
  /\ pc' = [pc EXCEPT ![p] = AfterEmit(@)]
  /\ UNCHANGED <<jobVars, outcome, done, hist>>

\* _emit when publish raises: the lock is released by "with"; in the job
\* function the exception is a failed outcome, in on_finish it is swallowed,
\* in the final _emit it ends the thread, in cancel it reaches the caller.
EmitRaises(p) ==
  /\ snap[p] # Nothing
  /\ emitLock' = Free
  /\ snap' = [snap EXCEPT ![p] = Nothing]
  /\ pc' = [pc EXCEPT ![p] = AfterRaise(@)]
  /\ outcome' = IF pc[p] \in {"emitStart", "emitStage"}
                THEN [outcome EXCEPT ![p] = "failed"] ELSE outcome
  /\ unheard' = unheard \cup {JobOf(p)}
  /\ UNCHANGED <<jobVars, done, shown, checked, brokenEnd>>

\* Plausible bug: stage() does not check for a cancel.
PassCheckpointBlindly(j) ==
  /\ stage[j] < MaxStages
  /\ Goto(j, "body", "update")
  /\ UNCHANGED <<jobVars, outcome, done, emitLock, snap, shown, hist>>

\* JobContext.stage, first half: the cancellation checkpoint passes.
PassCheckpoint(j) ==
  /\ stage[j] < MaxStages
  /\ ~cancelled[j]
  /\ Goto(j, "body", "update")
  /\ UNCHANGED <<jobVars, outcome, done, emitLock, snap, shown, hist>>

\* JobContext.check raises JobCancelled.
StopAtCheckpoint(j) ==
  /\ cancelled[j]
  /\ Goto(j, "body", "settle")
  /\ outcome' = [outcome EXCEPT ![j] = "cancelled"]
  /\ UNCHANGED <<jobVars, done, emitLock, snap, shown, hist>>

\* JobContext.stage, second half: JobRunner.update, then its _emit.
EnterStage(j) ==
  /\ Goto(j, "update", "emitStage")
  /\ stage' = [stage EXCEPT ![j] = @ + 1]
  /\ UNCHANGED <<status, cancelled, hasSeq, outcome, done, emitLock,
                 snap, shown, hist>>

\* The job function returns, or raises something that is not JobCancelled.
BodyEnds(j) ==
  /\ Goto(j, "body", "settle")
  /\ outcome' \in {[outcome EXCEPT ![j] = o] : o \in {"done", "failed"}}
  /\ UNCHANGED <<jobVars, done, emitLock, snap, shown, hist>>

\* Plausible bug: waiters are released as soon as the outcome is settled.
SettleAndRelease(j) ==
  /\ Goto(j, "settle", "finish")
  /\ status' = [status EXCEPT ![j] = outcome[j]]
  /\ done' = [done EXCEPT ![j] = TRUE]
  /\ UNCHANGED <<stage, cancelled, hasSeq, outcome, emitLock, snap, shown, hist>>

\* _settle: the outcome and "finished" are set together under the lock.
Settle(j) ==
  /\ Goto(j, "settle", "finish")
  /\ status' = [status EXCEPT ![j] = outcome[j]]
  /\ UNCHANGED <<stage, cancelled, hasSeq, outcome, done, emitLock,
                 snap, shown, hist>>

\* on_finish stores history_seq with JobRunner.update, whose _emit follows.
OnFinish(j) ==
  /\ Goto(j, "finish", "emitHistory")
  /\ hasSeq' = [hasSeq EXCEPT ![j] = TRUE]
  /\ UNCHANGED <<status, stage, cancelled, outcome, done, emitLock,
                 snap, shown, hist>>

\* on_finish raises: an Exception is swallowed and the final _emit follows,
\* any other BaseException skips it.
OnFinishRaises(j) ==
  /\ \/ Goto(j, "finish", "emitFinal") /\ UNCHANGED unheard
     \/ Goto(j, "finish", "release") /\ unheard' = unheard \cup {j}
  /\ brokenEnd' = brokenEnd \cup {j}
  /\ UNCHANGED <<jobVars, outcome, done, emitLock, snap, shown, checked>>

\* The finally of _run (or of submit): waiters are released, the thread ends.
Release(j) ==
  /\ Goto(j, "release", "ended")
  /\ done' = [done EXCEPT ![j] = TRUE]
  /\ UNCHANGED <<jobVars, outcome, emitLock, snap, shown, hist>>

\* Plausible bug: cancel does not look whether the job has finished.
CancelAnyTime(r) ==
  LET j == Target[r] IN
  /\ pc[j] # "absent"
  /\ Goto(r, "idle", "emitCancel")
  /\ cancelled' = [cancelled EXCEPT ![j] = TRUE]
  /\ UNCHANGED <<status, stage, hasSeq, outcome, done, emitLock, snap, shown, hist>>

\* cancel of a running job: both flags are set under the lock, then _emit.
Cancel(r) ==
  LET j == Target[r] IN
  /\ pc[j] # "absent"
  /\ status[j] = "running"
  /\ Goto(r, "idle", "emitCancel")
  /\ cancelled' = [cancelled EXCEPT ![j] = TRUE]
  /\ checked' = IF cancelled[j] THEN checked
                ELSE [checked EXCEPT ![j] = stage[j] + IF pc[j] = "update" THEN 1 ELSE 0]
  /\ UNCHANGED <<status, stage, hasSeq, outcome, done, emitLock, snap,
                 shown, unheard, brokenEnd>>

\* cancel of a finished job changes and publishes nothing.
CancelTooLate(r) ==
  /\ status[Target[r]] # "running"
  /\ Goto(r, "idle", "returned")
  /\ UNCHANGED <<jobVars, outcome, done, emitLock, snap, shown, hist>>

\* What the thread of job j, and the request r, may do next.
Emit(p) == EmitBegin(p) \/ EmitEnd(p) \/ EmitRaises(p)

Thread(j) ==
  \/ StartThread(j) \/ StartFails(j) \/ Emit(j)
  \/ PassCheckpoint(j) \/ StopAtCheckpoint(j) \/ EnterStage(j) \/ BodyEnds(j)
  \/ Settle(j) \/ OnFinish(j) \/ OnFinishRaises(j) \/ Release(j)

Request(r) == Cancel(r) \/ CancelTooLate(r) \/ Emit(r)

Next == \/ \E j \in Jobs : Submit(j) \/ Thread(j)
        \/ \E r \in Requests : Request(r)

\* A submitted job's thread keeps running and so does a request that holds or
\* waits for the emit lock. Nothing makes anyone submit or cancel.
Fairness == /\ \A j \in Jobs : WF_vars(Thread(j))
            /\ \A r \in Requests : WF_vars(Emit(r))

Spec     == Init /\ [][Next]_vars
FairSpec == Spec /\ Fairness

-----------------------------------------------------------------------------

TypeOK ==
  /\ pc \in [Jobs \cup Requests -> JobPoints \cup RequestPoints]
  /\ \A j \in Jobs : pc[j] \in JobPoints
  /\ \A r \in Requests : pc[r] \in RequestPoints
  /\ \A j \in Jobs : pc[j] = "update" => stage[j] < MaxStages
  /\ \A p \in Jobs \cup Requests : snap[p] # Nothing => emitLock = p /\ pc[p] \in EmitPoints
  /\ status \in [Jobs -> Status]
  /\ stage \in [Jobs -> 0..MaxStages]
  /\ cancelled \in [Jobs -> BOOLEAN]
  /\ hasSeq \in [Jobs -> BOOLEAN]
  /\ outcome \in [Jobs -> Terminal]
  /\ done \in [Jobs -> BOOLEAN]
  /\ emitLock \in Jobs \cup Requests \cup {Free}
  /\ snap \in [Jobs \cup Requests -> Snapshots \cup {Nothing}]
  /\ shown \in [Jobs -> Snapshots \cup {Nothing}]
  /\ checked \in [Jobs -> Nat]
  /\ unheard \subseteq Jobs
  /\ brokenEnd \subseteq Jobs

\* Snapshots are published in the order they were taken: a later event of a
\* job never takes back what an earlier one said (a "running" event after the
\* terminal one, a stage or a cancel request undone, a history_seq lost).
Supersedes(new, old) ==
  \/ old = Nothing
  \/ /\ old.status \in {"running", new.status}
     /\ old.stage <= new.stage
     /\ old.cancelled => new.cancelled
     /\ old.hasSeq => new.hasSeq

EventsInOrder ==
  [][\A j \in Jobs : shown'[j] # shown[j] => Supersedes(shown'[j], shown[j])]_shown

\* When wait() returns, and ever after, the last event of the job is the
\* terminal one and carries history_seq: no late cancel request overwrites it
\* with an older snapshot. (A publish or an on_finish that raised is exempt.)
WaiterSawTheEnd ==
  \A j \in Jobs : done[j] /\ j \notin unheard \cup brokenEnd =>
    /\ shown[j] # Nothing
    /\ shown[j].status = status[j]
    /\ shown[j].hasSeq

\* A cancel takes effect at the next checkpoint: a job that ends "done" with
\* a cancel requested had no checkpoint left, and "cancelled" was asked for.
CancelStopsAtCheckpoint ==
  \A j \in Jobs :
    /\ status[j] # "running" /\ cancelled[j] => stage[j] <= checked[j]
    /\ status[j] = "cancelled" => cancelled[j]

\* The runner keeps the promise of JobPromise: the refinement mapping reads
\* what subscribers were told off the last snapshot published.
Told(j) == IF shown[j] = Nothing THEN "nothing"
           ELSE IF shown[j].status = "running" THEN "running" ELSE "ended"

Promise == INSTANCE JobPromise WITH
  result   <- status,
  asked    <- cancelled,
  told     <- [j \in Jobs |-> Told(j)],
  released <- done,
  excused  <- unheard \cup brokenEnd

KeepsPromise == Promise!Spec

\* No job stays running forever, whatever fails, and its waiters return.
EveryJobEnds ==
  \A j \in Jobs : (pc[j] = "registered") ~> (done[j] /\ status[j] # "running")
=============================================================================
