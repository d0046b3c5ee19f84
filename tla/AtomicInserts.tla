----------------------------- MODULE AtomicInserts -----------------------------
(***************************************************************************)
(* What the insert of a post promises MakePost: the post appears at once,   *)
(* together with its thread if it begins one, with ids above all that are   *)
(* there; it belongs to the thread it was meant for; and the id the request *)
(* goes on with is its own, or 0 if asking for it failed.                   *)
(***************************************************************************)
EXTENDS Handlers

CONSTANT IDs

VARIABLES
    threadIDs,  \* the threads that are there
    postRows,   \* the posts: id, thread, and whether it began the thread
    answers     \* answers[r]: what request r has got

atomicVars == <<threadIDs, postRows, answers>>

Waiting == [state |-> "waiting", thread |-> 0, post |-> 0]
Refused == [state |-> "refused", thread |-> 0, post |-> 0]

\* A thread and its OP.
AtomicInit ==
    /\ threadIDs = {1}
    /\ postRows = {[id |-> 1, thread |-> 1, top |-> TRUE]}
    /\ answers = [r \in Requests |-> Waiting]

InsertPost(r, p, t, top) ==
    /\ answers[r] = Waiting
    /\ \A row \in postRows : row.id < p
    /\ postRows' = postRows \cup {[id |-> p, thread |-> t, top |-> top]}
    /\ \E id \in {p} \cup (IF MayFail THEN {0} ELSE {}) :
          answers' = [answers EXCEPT ![r] = [state |-> "inserted", thread |-> t, post |-> id]]

InsertThread(r, p, t) ==
    /\ \A u \in threadIDs : u < t
    /\ threadIDs' = threadIDs \cup {t}
    /\ InsertPost(r, p, t, TRUE)

InsertReply(r, p, t) ==
    /\ t \in threadIDs
    /\ InsertPost(r, p, t, FALSE)
    /\ UNCHANGED threadIDs

Refuse(r) ==
    /\ MayFail /\ answers[r] = Waiting
    /\ answers' = [answers EXCEPT ![r] = Refused]
    /\ UNCHANGED <<threadIDs, postRows>>

AtomicNext ==
    \/ \E r \in Requests, p, t \in IDs : InsertThread(r, p, t) \/ InsertReply(r, p, t)
    \/ \E r \in Requests : Refuse(r)

AtomicSpec == AtomicInit /\ [][AtomicNext]_atomicVars
===============================================================================
