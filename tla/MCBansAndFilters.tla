--------------------------- MODULE MCBansAndFilters ---------------------------
(* Bans and filters for TLC: an instance starts in one of them and stays in it *)
(* (see MCStaffAndReports).                                                    *)
EXTENDS BansAppeals, Filters, TLC

VARIABLE focus

vars == <<focus, banVars, filterVars>>

BanOrLog ==
    {[action |-> "ban", any |-> TRUE, here |-> TRUE, conditions |-> {"b", "hasfile"}, detail |-> ""],
     [action |-> "log", any |-> FALSE, here |-> TRUE, conditions |-> {"a"}, detail |-> ""]}
ReplaceByBanned ==
    {[action |-> "replace", any |-> FALSE, here |-> TRUE, conditions |-> {"a"}, detail |-> "b"]}

Init ==
    /\ focus \in {"bans", "filters"}
    /\ BansInit /\ FiltersInit

Next ==
    /\ UNCHANGED focus
    /\ \/ focus = "bans" /\ BansNext /\ UNCHANGED filterVars
       \/ focus = "filters" /\ FiltersNext /\ UNCHANGED banVars

Spec == Init /\ [][Next]_vars

TypesOK == BansTypeOK /\ FiltersTypeOK

Symmetry == Permutations(Requests)
===============================================================================
