-------------------------- MODULE MCBoardsAndUpdates --------------------------
(* Boards, their pages, the ids of new posts and the update of the database    *)
(* for TLC: an instance starts in one of them and stays in it (see             *)
(* MCStaffAndReports).                                                         *)
EXTENDS Boards, BoardPages, InsertIDs, DatabaseUpdate, TLC

VARIABLE focus

vars == <<focus, boardVars, pageVars, insertVars, updateVars>>

\* Thread 2 is stickied and shows no replies on the board's pages.
OneReplyUnlessStickied == 1 :> 1 @@ 2 :> 0 @@ 3 :> 1
BusyOrQuiet == {[t \in Discussions |-> ReplyNumbers],
                [t \in Discussions |-> IF t = 1 THEN {1} ELSE {}]}

Init ==
    /\ focus \in {"boards", "pages", "inserts", "update"}
    /\ BoardsInit /\ PagesInit /\ InsertInit /\ UpdateInit
    /\ focus # "pages" => \A t \in Discussions : replies[t] = ReplyNumbers
    /\ focus # "inserts" => database = "mysql"
    /\ focus # "update" => driver = "mysql" /\ db = Empty

Next ==
    /\ UNCHANGED focus
    /\ \/ focus = "boards" /\ BoardsNext /\ UNCHANGED <<pageVars, insertVars, updateVars>>
       \/ focus = "pages" /\ PagesNext /\ UNCHANGED <<boardVars, insertVars, updateVars>>
       \/ focus = "inserts" /\ InsertNext /\ UNCHANGED <<boardVars, pageVars, updateVars>>
       \/ focus = "update" /\ UpdateNext /\ UNCHANGED <<boardVars, pageVars, insertVars>>

Spec == Init /\ [][Next]_vars

TypesOK == BoardsTypeOK /\ PagesTypeOK /\ InsertTypeOK /\ UpdateTypeOK

Symmetry == Permutations(Requests)
===============================================================================
