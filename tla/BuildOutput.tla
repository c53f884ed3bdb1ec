----------------------------- MODULE BuildOutput -----------------------------
(***************************************************************************)
(* The output of BuildNetwork jobs (netstead/workbench/build.py and        *)
(* Session._job_build_network) on a file system that other builds, other   *)
(* servers and other programs write to: a build writes beside the name it  *)
(* was asked for and moves the finished output there, never over anything. *)
(*                                                                         *)
(* The builds here were all asked for one name. A file (DuckDB, zip) is    *)
(* moved by a hard link or, where there are none, by claiming the name     *)
(* with an empty placeholder; a folder (Parquet, CSV) by a rename. Each    *)
(* system call is a step.                                                  *)
(***************************************************************************)
EXTENDS Naturals

CONSTANTS
  Builds,    \* build jobs, of one server or of several
  Parts,     \* how many writes make an output whole
  Formats,   \* what builds write: "file", "folder"
  Strangers, \* what other programs put at the name: "file", "folder", "emptyFolder"
  Nothing    \* no file or folder

ASSUME PartsAssumption == Parts \in Nat \ {0}

ASSUME FormatsAssumption == Formats \subseteq {"file", "folder"}

ASSUME StrangersAssumption == Strangers \subseteq {"file", "folder", "emptyFolder"}

\* What may be at a name: whose it is, what it is, and how much of it there is.
Things == [of : Builds \cup {Nothing}, parts : 0..Parts,
           what : {"output", "placeholder", "file", "folder", "emptyFolder"}]

ASSUME NothingAssumption == Nothing \notin Builds \cup Things \cup 0..Parts

VARIABLES
  format,    \* what each build writes
  hardLinks, \* whether the file system has hard links
  pc,        \* where each build stands
  dest,      \* what is at the name the builds were asked for
  tmp,       \* each build's staging output: how much is written
  outcome,   \* how each build ended
  old,       \* leftovers of builds that are older than STALE_PARTIAL_S
  denied     \* history: builds that were refused a removal of something of theirs

vars == <<format, hardLinks, pc, dest, tmp, outcome, old, denied>>
disk == <<dest, tmp, old>>
kept == <<format, hardLinks, denied>>

Steps == {"idle", "clean", "stage", "writing", "promote", "linked", "claimed", "checked",
          "cleanup", "opening", "ended", "crashed"}

Output(b)  == [of |-> b, what |-> "output", parts |-> tmp[b]]
Placeholder(b) == [of |-> b, what |-> "placeholder", parts |-> 0]
Stranger(w)    == [of |-> Nothing, what |-> w, parts |-> 0]

Goto(b, from, to) == pc[b] = from /\ pc' = [pc EXCEPT ![b] = to]

Init ==
  /\ format \in [Builds -> Formats]
  /\ hardLinks \in BOOLEAN
  /\ pc = [b \in Builds |-> "idle"]
  /\ dest = Nothing
  /\ tmp = [b \in Builds |-> Nothing]
  /\ outcome = [b \in Builds |-> "none"]
  /\ old = {}
  /\ denied = {}

\* The job function raises: an ActionError, a cancel at a checkpoint or an
\* unexpected exception. The staging output is removed on the way out.
Fail(b, from) ==
  /\ Goto(b, from, "cleanup")
  /\ outcome' = [outcome EXCEPT ![b] = "failed"]

-----------------------------------------------------------------------------

\* plan_build: the name must be free before any work.
Plan(b) ==
  /\ IF dest = Nothing
     THEN Goto(b, "idle", "clean") /\ UNCHANGED outcome
     ELSE Fail(b, "idle")
  /\ UNCHANGED <<kept, disk>>

\* Plausible bug: every staging output beside the name counts as a leftover.
RemoveAllPartials(b) ==
  /\ Goto(b, "clean", "stage")
  /\ tmp' = [c \in Builds |-> Nothing]
  /\ old' = {}
  /\ UNCHANGED <<kept, dest, outcome>>

\* remove_stale_partials: what cannot be removed is left to a later build.
RemoveStalePartials(b) ==
  /\ Goto(b, "clean", "stage")
  /\ \E gone \in SUBSET old :
       /\ tmp' = [c \in Builds |-> IF c \in gone THEN Nothing ELSE tmp[c]]
       /\ old' = old \ gone
  /\ UNCHANGED <<kept, dest, outcome>>

\* The estimate, the fetch and the conversion fail, or the job is cancelled.
FetchFails(b) == Fail(b, "stage") /\ UNCHANGED <<kept, disk>>

\* write_output creates the staging output and fills it.
StartWriting(b) ==
  /\ Goto(b, "stage", "writing")
  /\ tmp' = [tmp EXCEPT ![b] = 0]
  /\ UNCHANGED <<kept, dest, outcome, old>>

Write(b) ==
  /\ pc[b] = "writing" /\ tmp[b] # Nothing /\ tmp[b] < Parts
  /\ tmp' = [tmp EXCEPT ![b] = @ + 1]
  /\ UNCHANGED <<kept, pc, dest, outcome, old>>

\* The disk is full, or the staging output is gone.
WriteFails(b) == Fail(b, "writing") /\ UNCHANGED <<kept, disk>>

\* The last cancellation checkpoint, passed; a cancel is a WriteFails.
Written(b) ==
  /\ tmp[b] = Parts
  /\ Goto(b, "writing", "promote")
  /\ UNCHANGED <<kept, disk, outcome>>

-----------------------------------------------------------------------------
(* promote, for a file: os.link and unlink, or _claim_then_replace.        *)

MovesFile(b) == format[b] = "file"

\* Plausible bug: a check and a rename, as for a folder.
LinkOver(b) ==
  /\ MovesFile(b) /\ hardLinks
  /\ Goto(b, "promote", "linked") /\ dest' = Output(b)
  /\ UNCHANGED <<kept, outcome, tmp, old>>

Link(b) ==
  /\ MovesFile(b) /\ hardLinks
  /\ IF dest = Nothing /\ tmp[b] # Nothing
     THEN Goto(b, "promote", "linked") /\ dest' = Output(b) /\ UNCHANGED outcome
     ELSE Fail(b, "promote") /\ UNCHANGED dest
  /\ UNCHANGED <<kept, tmp, old>>

\* The file system does not remove what the build asks it to.
Refused(b) == denied' = denied \cup {b}

Unlink(b) ==
  /\ Goto(b, "linked", "opening")
  /\ tmp' = [tmp EXCEPT ![b] = Nothing]
  /\ UNCHANGED <<kept, dest, outcome, old>>

\* The name exists by now, so this is reported as "already exists".
UnlinkFails(b) ==
  /\ Fail(b, "linked") /\ Refused(b)
  /\ UNCHANGED <<format, hardLinks, disk>>

Claim(b) ==
  /\ MovesFile(b) /\ ~hardLinks
  /\ IF dest = Nothing
     THEN Goto(b, "promote", "claimed") /\ dest' = Placeholder(b) /\ UNCHANGED outcome
     ELSE Fail(b, "promote") /\ UNCHANGED dest
  /\ UNCHANGED <<kept, tmp, old>>

Replace(b) ==
  /\ tmp[b] # Nothing
  /\ Goto(b, "claimed", "opening")
  /\ dest' = Output(b)
  /\ tmp' = [tmp EXCEPT ![b] = Nothing]
  /\ UNCHANGED <<kept, outcome, old>>

\* Plausible bug: the name stays claimed when the move fails.
ReplaceFailsAndStays(b) ==
  /\ Fail(b, "claimed")
  /\ UNCHANGED <<kept, dest, tmp, old>>

ReplaceFails(b) ==
  /\ Fail(b, "claimed")
  /\ \/ dest' = Nothing /\ UNCHANGED denied
     \/ Refused(b) /\ UNCHANGED dest
  /\ UNCHANGED <<format, hardLinks, tmp, old>>

-----------------------------------------------------------------------------
(* promote, for a folder: a check, and a rename that fails unless there is *)
(* nothing or an empty folder to replace.                                  *)

CheckFree(b) ==
  /\ ~MovesFile(b)
  /\ IF dest = Nothing /\ tmp[b] # Nothing
     THEN Goto(b, "promote", "checked") /\ UNCHANGED outcome
     ELSE Fail(b, "promote")
  /\ UNCHANGED <<kept, disk>>

Rename(b) ==
  /\ IF tmp[b] # Nothing /\ (dest = Nothing \/ dest.what = "emptyFolder")
     THEN /\ Goto(b, "checked", "opening")
          /\ dest' = Output(b)
          /\ tmp' = [tmp EXCEPT ![b] = Nothing]
          /\ UNCHANGED outcome
     ELSE Fail(b, "checked") /\ UNCHANGED <<dest, tmp>>
  /\ UNCHANGED <<kept, old>>

-----------------------------------------------------------------------------

\* The finally of staging: _remove leaves of a folder what it cannot remove,
\* and raises if it cannot unlink a file, whereupon the build fails all the same.
CleanUp(b) ==
  /\ Goto(b, "cleanup", "ended")
  /\ \/ tmp' = [tmp EXCEPT ![b] = Nothing] /\ UNCHANGED denied
     \/ tmp[b] # Nothing /\ Refused(b) /\ UNCHANGED tmp
  /\ UNCHANGED <<format, hardLinks, dest, outcome, old>>

\* The output is opened; if that fails the error says where it was written.
Load(b) ==
  /\ Goto(b, "opening", "ended")
  /\ \E o \in {"done", "unopened"} : outcome' = [outcome EXCEPT ![b] = o]
  /\ UNCHANGED <<kept, disk>>

\* The server dies; its staging output is left. What is left grows old.
Crash(b) ==
  /\ pc[b] \notin {"idle", "ended", "crashed"}
  /\ pc' = [pc EXCEPT ![b] = "crashed"]
  /\ UNCHANGED <<kept, disk, outcome>>

Age(b) ==
  /\ pc[b] \in {"crashed", "ended"} /\ tmp[b] # Nothing
  /\ old' = old \cup {b}
  /\ UNCHANGED <<kept, pc, dest, tmp, outcome>>

\* Another program puts something at the name.
Appear(what) ==
  /\ dest = Nothing
  /\ dest' = Stranger(what)
  /\ UNCHANGED <<kept, pc, tmp, outcome, old>>

Build(b) ==
  \/ Plan(b) \/ RemoveStalePartials(b) \/ FetchFails(b)
  \/ StartWriting(b) \/ Write(b) \/ WriteFails(b) \/ Written(b)
  \/ Link(b) \/ Unlink(b) \/ UnlinkFails(b) \/ Claim(b) \/ Replace(b) \/ ReplaceFails(b)
  \/ CheckFree(b) \/ Rename(b) \/ CleanUp(b) \/ Load(b)

Next == \/ \E b \in Builds : Build(b) \/ Crash(b) \/ Age(b)
        \/ \E what \in Strangers : Appear(what)

Spec == Init /\ [][Next]_vars

-----------------------------------------------------------------------------

TypeOK ==
  /\ format \in [Builds -> Formats]
  /\ hardLinks \in BOOLEAN
  /\ pc \in [Builds -> Steps]
  /\ dest \in Things \cup {Nothing}
  /\ tmp \in [Builds -> 0..Parts \cup {Nothing}]
  /\ outcome \in [Builds -> {"none", "done", "unopened", "failed"}]
  /\ denied \subseteq Builds
  /\ old \subseteq {b \in Builds : pc[b] \in {"crashed", "ended"}}

\* What may become of what is at the name: the placeholder of a build is
\* replaced by its output or given up, and an empty folder that appeared after
\* a build of a folder found the name free is replaced.
Spares ==
  dest # Nothing /\ dest' # dest =>
    \/ /\ dest.what = "placeholder"
       /\ dest' \in {Nothing} \cup {Output(b) : b \in {dest.of}}
    \/ /\ dest.what = "emptyFolder"
       /\ \E b \in Builds : format[b] = "folder" /\ dest' = Output(b)

\* Builds never overwrite: nothing else at the name changes.
NeverClobbers == [][Spares]_dest

\* A build that reports an output has the whole of it at the name, for good,
\* and no two builds of one name do.
ReportedOutputIsThere ==
  \A b \in Builds : pc[b] = "opening" \/ outcome[b] \in {"done", "unopened"} =>
    dest = [of |-> b, what |-> "output", parts |-> Parts]

\* A build that ended leaves nothing behind: no staging output, and nothing at
\* the name if it failed. (Exempt is one that the file system refused to remove
\* its staging output or its placeholder: nobody tries again but for the former,
\* when it has grown old, and _remove does not say.)
FailedBuildLeavesNothing ==
  \A b \in Builds : pc[b] = "ended" /\ b \notin denied =>
    /\ tmp[b] = Nothing
    /\ outcome[b] = "failed" /\ dest # Nothing => dest.of # b

\* A build in progress keeps its staging output: the clean-up that another
\* build starts with takes only what a crash left.
WorkInProgressIsKept ==
  \A b \in Builds : pc[b] \in {"writing", "promote", "linked", "claimed", "checked"} =>
    tmp[b] # Nothing
=============================================================================
