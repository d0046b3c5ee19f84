-------------------------- MODULE MCStaffAndReports ---------------------------
(***************************************************************************)
(* Staff, reports, edits and moved threads for TLC.  These components share *)
(* no state, so an instance starts in one of them and stays in it: TLC      *)
(* explores the sum of their states and not the product.                    *)
(***************************************************************************)
EXTENDS StaffSessions, Reports, EditPost, ThreadUpkeep, TLC

VARIABLE focus

vars == <<focus, staffVars, reportVars, editVars, upkeepVars>>

AdminAndJanitor == ("admin" :> 3) @@ ("jan" :> 1)
OnlyTheOPHasAFile == ("op" :> "first")

Init ==
    /\ focus \in {"staff", "reports", "edits", "upkeep"}
    /\ StaffInit /\ ReportsInit /\ EditInit /\ UpkeepInit
    /\ focus # "upkeep" => threadBoard = "a"

Next ==
    /\ UNCHANGED focus
    /\ \/ focus = "staff" /\ StaffNext /\ UNCHANGED <<reportVars, editVars, upkeepVars>>
       \/ focus = "reports" /\ ReportsNext /\ UNCHANGED <<staffVars, editVars, upkeepVars>>
       \/ focus = "edits" /\ EditNext /\ UNCHANGED <<staffVars, reportVars, upkeepVars>>
       \/ focus = "upkeep" /\ UpkeepNext /\ UNCHANGED <<staffVars, reportVars, editVars>>

Spec == Init /\ [][Next]_vars

TypesOK == StaffTypeOK /\ ReportsTypeOK /\ EditTypeOK /\ UpkeepTypeOK

\* Requests and session keys are interchangeable.
Symmetry == Permutations(Requests) \cup Permutations(SessionKeys)
===============================================================================
