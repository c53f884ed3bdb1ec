------------------------- MODULE BuildOutputProofs -------------------------
(***************************************************************************)
(* That builds never overwrite, report only what is there and clean up     *)
(* after themselves, for any number of builds, servers and other programs. *)
(***************************************************************************)
EXTENDS BuildOutput, TLAPS

Unfinished == {"promote", "linked", "claimed", "checked"}
Reported(b) == outcome[b] \in {"done", "unopened"}

\* The finished output of a build.
Whole(b) == [of |-> b, what |-> "output", parts |-> Parts]

\* What a build has staged, by where it stands.
StagedIsWhole ==
  \A b \in Builds :
    /\ pc[b] = "writing" => tmp[b] # Nothing
    /\ pc[b] \in Unfinished => tmp[b] = Parts
    /\ pc[b] = "opening" \/ (pc[b] = "ended" /\ b \notin denied) => tmp[b] = Nothing

\* A build that stands where it has the name finds its own at the name.
OwnersHaveTheName ==
  \A b \in Builds :
    /\ pc[b] = "claimed" => dest = Placeholder(b)
    /\ pc[b] \in {"linked", "opening"} \/ Reported(b) => dest = Whole(b)
    /\ Reported(b) => pc[b] = "ended"

\* What is at the name and of a build is of one that has the name, that
\* crashed or that was refused a removal.
NameHasAnOwner ==
  \A b \in Builds :
    dest # Nothing /\ dest.of = b =>
      pc[b] \in {"linked", "claimed", "opening", "crashed"} \/ Reported(b) \/ b \in denied

\* Only a folder is moved by a check and a rename.
FoldersAreChecked == \A b \in Builds : pc[b] = "checked" => format[b] = "folder"

IInv == TypeOK /\ StagedIsWhole /\ OwnersHaveTheName /\ NameHasAnOwner /\ FoldersAreChecked

-----------------------------------------------------------------------------

\* The initial states.
LEMMA InitIInv == Init => IInv
BY PartsAssumption, NothingAssumption
   DEF Init, IInv, TypeOK, StagedIsWhole, OwnersHaveTheName, NameHasAnOwner, FoldersAreChecked, Steps, Unfinished, Reported

USE PartsAssumption, NothingAssumption

\* The steps of a build.
LEMMA BuildIInv ==
  ASSUME IInv, NEW b \in Builds, Build(b)
  PROVE  IInv'
<1> USE DEF IInv, TypeOK, StagedIsWhole, OwnersHaveTheName, NameHasAnOwner, FoldersAreChecked, Steps, Unfinished, Reported,
            Output, Placeholder, Whole, Things, Goto, Fail, kept, disk
<1>1. CASE Plan(b)
  BY <1>1 DEF Plan
<1>2. CASE RemoveStalePartials(b)
  BY <1>2 DEF RemoveStalePartials
<1>3. CASE FetchFails(b)
  BY <1>3 DEF FetchFails
<1>4. CASE StartWriting(b)
  BY <1>4 DEF StartWriting
<1>5. CASE Write(b)
  BY <1>5 DEF Write
<1>6. CASE WriteFails(b)
  BY <1>6 DEF WriteFails
<1>7. CASE Written(b)
  BY <1>7 DEF Written
<1>8. CASE Link(b)
  BY <1>8 DEF Link
<1>9. CASE Unlink(b)
  BY <1>9 DEF Unlink
<1>10. CASE UnlinkFails(b)
  BY <1>10 DEF UnlinkFails, Refused
<1>11. CASE Claim(b)
  BY <1>11 DEF Claim
<1>12. CASE Replace(b)
  BY <1>12 DEF Replace
<1>13. CASE ReplaceFails(b)
  BY <1>13 DEF ReplaceFails, Refused
<1>14. CASE CheckFree(b)
  BY <1>14, FormatsAssumption DEF CheckFree, MovesFile
<1>15. CASE Rename(b)
  BY <1>15 DEF Rename
<1>16. CASE CleanUp(b)
  BY <1>16 DEF CleanUp, Refused
<1>17. CASE Load(b)
  BY <1>17 DEF Load
<1> QED
  BY <1>1, <1>2, <1>3, <1>4, <1>5, <1>6, <1>7, <1>8, <1>9, <1>10, <1>11, <1>12, <1>13, <1>14, <1>15, <1>16, <1>17 DEF Build

\* Crashes, the time that passes, and other programs.
LEMMA OthersIInv ==
  ASSUME IInv, \/ \E b \in Builds : Crash(b) \/ Age(b)
               \/ \E what \in Strangers : Appear(what)
  PROVE  IInv'
<1> USE DEF IInv, TypeOK, StagedIsWhole, OwnersHaveTheName, NameHasAnOwner, FoldersAreChecked, Steps, Unfinished, Reported,
            Output, Placeholder, Whole, Things, kept, disk
<1>1. ASSUME NEW b \in Builds, Crash(b) PROVE IInv'
  BY <1>1 DEF Crash
<1>2. ASSUME NEW b \in Builds, Age(b) PROVE IInv'
  BY <1>2 DEF Age
<1>3. ASSUME NEW what \in Strangers, Appear(what) PROVE IInv'
  BY <1>3, StrangersAssumption DEF Appear, Stranger
<1> QED
  BY <1>1, <1>2, <1>3

LEMMA NextIInv == IInv /\ [Next]_vars => IInv'
<1> SUFFICES ASSUME IInv, [Next]_vars PROVE IInv'
  OBVIOUS
<1>1. CASE UNCHANGED vars
  BY <1>1 DEF vars, IInv, TypeOK, StagedIsWhole, OwnersHaveTheName, NameHasAnOwner, FoldersAreChecked, Reported,
              Output, Placeholder, Whole
<1>2. CASE Next
  BY <1>2, BuildIInv, OthersIInv DEF Next
<1> QED
  BY <1>1, <1>2

LEMMA SpecIInv == Spec => []IInv
BY InitIInv, NextIInv, PTL DEF Spec

-----------------------------------------------------------------------------
(* The theorems.                                                           *)

\* The shape of the state: what build.py keeps in a build, beside the
\* destination and at it.
THEOREM TypeCorrect == Spec => []TypeOK
<1>1. IInv => TypeOK
  BY DEF IInv
<1> QED
  BY <1>1, SpecIInv, PTL

\* A build that reports an output has the whole of it at the name, for good:
\* promote moves only what was staged completely, and nothing is moved over it.
THEOREM ReportedOutputsAreThere == Spec => []ReportedOutputIsThere
<1>1. IInv => ReportedOutputIsThere
  BY DEF IInv, OwnersHaveTheName, ReportedOutputIsThere, Reported, Whole
<1> QED
  BY <1>1, SpecIInv, PTL

\* A build that fails leaves no staging output and nothing at the name: the
\* finally of staging, and the unlink of _claim_then_replace.
THEOREM FailedBuildsLeaveNothing == Spec => []FailedBuildLeavesNothing
<1>1. IInv => FailedBuildLeavesNothing
  BY DEF IInv, StagedIsWhole, NameHasAnOwner, FailedBuildLeavesNothing, Reported
<1> QED
  BY <1>1, SpecIInv, PTL

\* remove_stale_partials of one build takes nothing of another that is at work.
THEOREM WorkIsKept == Spec => []WorkInProgressIsKept
<1>1. IInv => WorkInProgressIsKept
  BY DEF IInv, StagedIsWhole, WorkInProgressIsKept, Unfinished
<1> QED
  BY <1>1, SpecIInv, PTL

\* A build moves something to the name only when the name is free, its own
\* placeholder or, for a folder, an empty folder.
LEMMA StepsSpare == IInv /\ [Next]_vars => Spares
<1> SUFFICES ASSUME IInv, Next PROVE Spares
  BY DEF vars, Spares
<1>1. ASSUME NEW b \in Builds, Link(b) \/ Claim(b) PROVE Spares
  BY <1>1 DEF Link, Claim, Spares
<1>2. ASSUME NEW b \in Builds, Replace(b) \/ ReplaceFails(b) PROVE Spares
  <2>1. dest = Placeholder(b)
    BY <1>2 DEF Replace, ReplaceFails, Goto, Fail, IInv, OwnersHaveTheName
  <2>2. dest.what = "placeholder" /\ dest.of = b
    BY <2>1 DEF Placeholder
  <2> QED
    BY <1>2, <2>2 DEF Replace, ReplaceFails, Spares
<1>3. ASSUME NEW b \in Builds, Rename(b) PROVE Spares
  <2>1. format[b] = "folder"
    BY <1>3 DEF Rename, Goto, Fail, IInv, FoldersAreChecked
  <2> QED
    BY <1>3, <2>1 DEF Rename, Spares, Output
<1>4. ASSUME NEW what \in Strangers, Appear(what) PROVE Spares
  BY <1>4 DEF Appear, Spares
<1>5. CASE UNCHANGED dest
  BY <1>5 DEF Spares
<1> QED
  BY <1>1, <1>2, <1>3, <1>4, <1>5 DEF Next, Build, Plan, RemoveStalePartials, FetchFails, StartWriting, Write,
     WriteFails, Written, Unlink, UnlinkFails, CheckFree, CleanUp, Load, Crash, Age, disk

\* Builds never overwrite (promote's promise), whatever other builds, servers
\* and programs do meanwhile.
THEOREM NothingIsOverwritten == Spec => NeverClobbers
<1>1. IInv /\ [Next]_vars => [Spares]_dest
  BY StepsSpare
<1> QED
  BY <1>1, SpecIInv, PTL DEF Spec, NeverClobbers
=============================================================================
