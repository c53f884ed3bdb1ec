------------------------------ MODULE MCRules ------------------------------
(* Model checking the rules that are functions of their input: each initial  *)
(* state is one case of the module of cases of its part, and the one step    *)
(* there is calls the code with it.                                          *)
EXTENDS Sequences

CONSTANTS Null, MaxRampHops

VARIABLES
  case,    \* the input
  called   \* the code has run on it

vars == <<case, called>>

(* The names of the package files, sorted.                                   *)
FileNames ==
  <<<<"", "x">>, <<"", "x", "csv">>, <<"", "x", "parquet">>, <<"a">>, <<"a", "csv">>, <<"a", "csv", "csv">>,
    <<"a", "csv", "parquet">>, <<"a", "csv", "zip">>, <<"a", "duckdb">>, <<"a", "parquet">>, <<"a", "zip">>, <<"key=value">>,
    <<"link">>, <<"link", "csv">>, <<"link", "parquet">>, <<"old", "csv">>, <<"old", "pkg">>>>

Sel == INSTANCE MCSelection
Imp == INSTANCE MCImport WITH Retries <- 1
Val == INSTANCE MCValidation WITH Cap <- 1
Fil == INSTANCE MCPackageFiles WITH NameOrder <- FileNames
Set == INSTANCE MCSettings
Qua == INSTANCE MCQuality
Plu == INSTANCE MCPlugins

Posed ==
  \/ case \in Sel!PayloadCases \/ case \in Sel!SelectionCases
  \/ case \in Imp!AreaCases \/ case \in Imp!PlaceCases \/ case \in Imp!SegmentCases
  \/ case \in Val!TextCases \/ case \in Val!NumberCases \/ case \in Val!StructuralCases
  \/ case \in Fil!RoundTrips \/ case \in Fil!Sources \/ case \in Fil!Registrations
  \/ case \in Set!LayerCases \/ case \in Set!ActionCases \/ case \in Set!SaveCases \/ case \in Set!TreeCases
  \/ case \in Set!KeyCases \/ case \in Set!StatusCases \/ case \in Set!CredentialCases
  \/ case \in Qua!NodeCases \/ case \in Qua!LineCases \/ case \in Qua!RuleCases \/ case \in Qua!DiscoveryCases
  \/ case \in Qua!LogCases \/ case \in Qua!CardCases \/ case \in Qua!FixCases
  \/ case \in Val!LoadCases \/ case \in Val!FileCases
  \/ case \in Plu!GivenCases \/ case \in Plu!FoundCases

Init == Posed /\ called = FALSE
Call == ~called /\ called' = TRUE /\ UNCHANGED case
Spec == Init /\ [][Call]_vars

(* A freeway or street segment is a walk along links of its facility from    *)
(* one anchor to the other (select/resolve).                                 *)
SegmentsAreWalks ==
  [][case.part = "selection" => Sel!SegmentIsWalk(case.intent, case.link, Sel!Places)]_vars

(* What a selection means does not depend on the order in which the anchors  *)
(* are looked at, nor on its having been written as a payload and read back. *)
FragmentsAreDeterminate ==
  [][/\ case.part = "selection" => Sel!FragmentIsDeterminate(case.intent, case.link, Sel!Places)
     /\ case.part = "payload" => Sel!PayloadRoundTrips(case.payload)]_vars

(* What is imported is what was there, neither cut off nor joined up nor     *)
(* opened to a direction that is closed.                                     *)
ImportsRetraceTheirSource ==
  [][Imp!Holds(case)]_vars

(* A validation report tells the rows and the tables at fault, all of them   *)
(* and no others.                                                            *)
ReportsAreExact ==
  [][Val!Holds(case)]_vars

(* What is written comes back, the check and the load see the same, and a    *)
(* schema means the same alone and among others.                             *)
FilesAreFound ==
  [][Fil!Holds(case) /\ Val!LoadsHold(case)]_vars

(* A setting is the one of the highest layer that gives it, what is saved is *)
(* what is read, and a key goes to its own endpoint only.                    *)
SettingsAreLayered ==
  [][Set!Holds(case)]_vars

(* A clean-up keeps the streets, a fix changes the cell it was proposed for,  *)
(* and a rule reports what is there, whatever the order of the rows.         *)
CleaningKeepsTheNetwork ==
  [][Qua!Holds(case)]_vars

(* A plugin is installed whole or leaves no trace.                           *)
PluginsAreWholeOrAbsent ==
  [][Plu!Holds(case)]_vars
=============================================================================
