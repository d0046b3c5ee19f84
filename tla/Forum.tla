-------------------------------- MODULE Forum --------------------------------
(***************************************************************************)
(* What a board promises its readers, whatever goes wrong inside: posts     *)
(* appear at once, a thread together with its OP; locked threads get no     *)
(* replies; what was deleted stays deleted, and a thread goes together with *)
(* its OP.                                                                  *)
(***************************************************************************)
EXTENDS Integers

CONSTANTS Posts, Threads

VARIABLES
    post,       \* post[p]: its state, its thread, and whether it is the OP
    thread      \* thread[t]: its state, and whether it is locked

forumVars == <<post, thread>>

ForumInit ==
    /\ \A p \in Posts : post[p].state = "none"
    /\ \A t \in Threads : thread[t].state = "none"

NewThread(p, t) ==
    /\ post[p].state = "none" /\ thread[t].state = "none"
    /\ post' = [post EXCEPT ![p] = [state |-> "live", thread |-> t, top |-> TRUE]]
    /\ \E locked \in BOOLEAN : thread' = [thread EXCEPT ![t] = [state |-> "live", locked |-> locked]]

Reply(p, t) ==
    /\ post[p].state = "none" /\ thread[t].state # "none"
    /\ ~thread[t].locked
    /\ post' = [post EXCEPT ![p] = [state |-> "live", thread |-> t, top |-> FALSE]]
    /\ UNCHANGED thread

Remove(P) ==
    LET T == {post[p].thread : p \in {q \in P : post[q].top}} IN
    /\ \A p \in P : post[p].state = "live"
    /\ post' = [p \in Posts |-> IF p \in P THEN [post[p] EXCEPT !.state = "deleted"] ELSE post[p]]
    /\ thread' = [t \in Threads |-> IF t \in T THEN [thread[t] EXCEPT !.state = "deleted"] ELSE thread[t]]

ForumNext ==
    \/ \E p \in Posts, t \in Threads : NewThread(p, t) \/ Reply(p, t)
    \/ \E P \in SUBSET Posts : Remove(P)

ForumSpec == ForumInit /\ [][ForumNext]_forumVars
===============================================================================
