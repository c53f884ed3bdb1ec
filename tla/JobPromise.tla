----------------------------- MODULE JobPromise -----------------------------
(***************************************************************************)
(* What the workbench's job runner promises to those who only hold a job   *)
(* id (netstead/workbench/jobs.py): a job ends once, for a reason that was *)
(* given; a subscriber is never told "running" after it was told the end;  *)
(* whoever waits for the job is released after the end, and was told of it *)
(* unless a callback or a publish broke on the way.                        *)
(***************************************************************************)
CONSTANT Jobs

VARIABLES
  result,    \* "running", or how the job ended
  asked,     \* whether a cancel was accepted
  told,      \* what subscribers were last told: "nothing", "running", "ended"
  released,  \* whether the job's waiters return
  excused    \* jobs whose thread, publish or callback failed

promise == <<result, asked, told, released, excused>>

Init ==
  /\ result   = [j \in Jobs |-> "running"]
  /\ asked    = [j \in Jobs |-> FALSE]
  /\ told     = [j \in Jobs |-> "nothing"]
  /\ released = [j \in Jobs |-> FALSE]
  /\ excused  = {}

Ask(j) ==
  /\ result[j] = "running"
  /\ asked' = [asked EXCEPT ![j] = TRUE]
  /\ UNCHANGED <<result, told, released, excused>>

\* The job ends; a job that is excused may do so in the same step.
End(j) ==
  /\ result[j] = "running"
  /\ \E o \in {"done", "failed"} \cup (IF asked[j] THEN {"cancelled"} ELSE {}) :
       result' = [result EXCEPT ![j] = o]
  /\ excused' \in {excused, excused \cup {j}}
  /\ UNCHANGED <<asked, told, released>>

TellRunning(j) ==
  /\ told[j] # "ended"
  /\ told' = [told EXCEPT ![j] = "running"]
  /\ UNCHANGED <<result, asked, released, excused>>

TellEnd(j) ==
  /\ result[j] # "running"
  /\ told' = [told EXCEPT ![j] = "ended"]
  /\ UNCHANGED <<result, asked, released, excused>>

Excuse(j) ==
  /\ excused' = excused \cup {j}
  /\ UNCHANGED <<result, asked, told, released>>

Release(j) ==
  /\ result[j] # "running"
  /\ told[j] = "ended" \/ j \in excused
  /\ released' = [released EXCEPT ![j] = TRUE]
  /\ UNCHANGED <<result, asked, told, excused>>

Next == \E j \in Jobs : \/ Ask(j) \/ End(j) \/ TellRunning(j) \/ TellEnd(j)
                        \/ Excuse(j) \/ Release(j)

Spec == Init /\ [][Next]_promise
=============================================================================
