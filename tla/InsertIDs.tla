------------------------------- MODULE InsertIDs -------------------------------
(***************************************************************************)
(* Post.Insert and CreateThread learn the id of the row they inserted by    *)
(* SELECT MAX(id) in the same transaction.  What that returns depends on    *)
(* what the database shows a transaction of the others: committed rows      *)
(* (PostgreSQL), the rows committed when its first SELECT ran (MySQL); with *)
(* SQLite there is one writer at a time.                                    *)
(***************************************************************************)
EXTENDS Handlers

CONSTANT Databases      \* the drivers looked at

ASSUME DatabasesAssumption == Databases \subseteq {"mysql", "postgres", "sqlite3"}

\* Bounds: a thread and its OP exist, every request inserts at most one of each.
InsertedIDs == 1..(Cardinality(Requests) + 1)

VARIABLES
    database,
    insertPc,       \* insertPc[r]: the next step of request r
    insertReq,      \* insertReq[r]: thread, post: Thread.ID and Post.ID in memory; newThread,
                    \* newPost: the ids of the rows; postThread: the row's thread_id; snapshot
    lastThread, lastPost    \* AUTO_INCREMENT of threads and posts

insertVars == <<database, insertPc, insertReq, lastThread, lastPost>>

Snapshots == [taken: BOOLEAN, threads: SUBSET InsertedIDs, posts: SUBSET InsertedIDs]
InsertLocals == [thread: InsertedIDs \cup {0}, post: InsertedIDs \cup {0}, newThread: InsertedIDs \cup {0},
                 newPost: InsertedIDs \cup {0}, postThread: InsertedIDs \cup {0}, snapshot: Snapshots]
NoSnapshot == [taken |-> FALSE, threads |-> {}, posts |-> {}]
InsertSteps == {"start", "insertThread", "threadID", "locked", "insertPost", "postID", "commit",
                "committed", "rolledBack"}

InsertTypeOK ==
    /\ database \in Databases
    /\ insertPc \in [Requests -> InsertSteps]
    /\ insertReq \in [Requests -> InsertLocals]
    /\ lastThread \in InsertedIDs /\ lastPost \in InsertedIDs

InsertInit ==
    /\ database \in Databases
    /\ insertPc = [r \in Requests |-> "start"]
    /\ insertReq = [r \in Requests |-> [thread |-> 0, post |-> 0, newThread |-> 0, newPost |-> 0,
                                        postThread |-> 0, snapshot |-> NoSnapshot]]
    /\ lastThread = 1 /\ lastPost = 1

-----------------------------------------------------------------------------
(* The database. *)

CommittedThreads == {1} \cup ({insertReq[q].newThread : q \in {p \in Requests : insertPc[p] = "committed"}} \ {0})
CommittedPosts == {1} \cup {insertReq[q].newPost : q \in {p \in Requests : insertPc[p] = "committed"}}

CurrentSnapshot == [taken |-> TRUE, threads |-> CommittedThreads, posts |-> CommittedPosts]

\* What a SELECT of the transaction sees besides its own rows.
SnapshotOf(r) ==
    IF database = "mysql" /\ insertReq[r].snapshot.taken THEN insertReq[r].snapshot ELSE CurrentSnapshot

\* A transaction that has written keeps other writers out.
MayWrite(r) ==
    database = "sqlite3" =>
       \A q \in Requests \ {r} : \/ insertPc[q] \in {"committed", "rolledBack"}
                                 \/ insertReq[q].newThread = 0 /\ insertReq[q].newPost = 0

Latest(ids) == CHOOSE i \in ids : \A j \in ids : j <= i

-----------------------------------------------------------------------------
InsertGoto(r, step) == insertPc' = [insertPc EXCEPT ![r] = step]

BeginInsert(r) ==
    /\ insertPc[r] = "start"
    /\ \E step \in {"insertThread", "locked"} : InsertGoto(r, step)
    /\ UNCHANGED <<database, insertReq, lastThread, lastPost>>

\* CreateThread (its query of the board's directory is outside of the transaction)
InsertThreadRow(r) ==
    /\ insertPc[r] = "insertThread" /\ MayWrite(r)
    /\ lastThread' = lastThread + 1
    /\ insertReq' = [insertReq EXCEPT ![r].newThread = lastThread + 1]
    /\ InsertGoto(r, "threadID")
    /\ UNCHANGED <<database, lastPost>>

\* SELECT MAX(id) FROM DBPREFIXthreads
SelectThreadID_OtherConnection(r) ==
    /\ insertPc[r] = "threadID"
    /\ insertReq' = [insertReq EXCEPT ![r].thread = Latest(CommittedThreads)]
    /\ InsertGoto(r, "insertPost")
    /\ UNCHANGED <<database, lastThread, lastPost>>
SelectThreadID(r) ==
    /\ insertPc[r] = "threadID"
    /\ insertReq' = [insertReq EXCEPT ![r].thread = Latest(SnapshotOf(r).threads \cup {insertReq[r].newThread}),
                                      ![r].snapshot = SnapshotOf(r)]
    /\ InsertGoto(r, "insertPost")
    /\ UNCHANGED <<database, lastThread, lastPost>>

\* A reply: SELECT locked FROM DBPREFIXthreads comes first.
SelectLocked_OtherConnection(r) ==
    /\ insertPc[r] = "locked"
    /\ insertReq' = [insertReq EXCEPT ![r].thread = 1]
    /\ InsertGoto(r, "insertPost")
    /\ UNCHANGED <<database, lastThread, lastPost>>
SelectLocked(r) ==
    /\ insertPc[r] = "locked"
    /\ insertReq' = [insertReq EXCEPT ![r].thread = 1, ![r].snapshot = SnapshotOf(r)]
    /\ InsertGoto(r, "insertPost")
    /\ UNCHANGED <<database, lastThread, lastPost>>

InsertPostRow(r) ==
    /\ insertPc[r] = "insertPost" /\ MayWrite(r)
    /\ lastPost' = lastPost + 1
    /\ insertReq' = [insertReq EXCEPT ![r].newPost = lastPost + 1, ![r].postThread = insertReq[r].thread]
    /\ InsertGoto(r, "postID")
    /\ UNCHANGED <<database, lastThread>>

\* getLatestID, whose query may fail: the error is dropped, the id is 0.
SelectPostID(r) ==
    /\ insertPc[r] = "postID"
    /\ \E id \in {Latest(SnapshotOf(r).posts \cup {insertReq[r].newPost})} \cup (IF MayFail THEN {0} ELSE {}) :
          insertReq' = [insertReq EXCEPT ![r].post = id, ![r].snapshot = SnapshotOf(r)]
    /\ InsertGoto(r, "commit")
    /\ UNCHANGED <<database, lastThread, lastPost>>

\* Bumping the thread and the commit.
CommitInsert(r) ==
    /\ insertPc[r] = "commit"
    /\ InsertGoto(r, "committed")
    /\ UNCHANGED <<database, insertReq, lastThread, lastPost>>

\* Any other query fails: the deferred Rollback.
RollbackInsert(r) ==
    /\ MayFail
    /\ insertPc[r] \notin {"start", "committed", "rolledBack"}
    /\ InsertGoto(r, "rolledBack")
    /\ UNCHANGED <<database, insertReq, lastThread, lastPost>>

InsertNext == \E r \in Requests :
    \/ BeginInsert(r)
    \/ InsertThreadRow(r) \/ SelectThreadID(r) \/ SelectLocked(r)
    \/ InsertPostRow(r) \/ SelectPostID(r)
    \/ CommitInsert(r) \/ RollbackInsert(r)

InsertSpec == InsertInit /\ [][InsertNext]_insertVars

-----------------------------------------------------------------------------
\* The id MakePost goes on with, to attach the upload and to build the thread, is the id of the
\* row it inserted or 0: with SQLite for threads and posts, with MySQL for posts, because the
\* first SELECT of the transaction comes before the post's INSERT.
IDsAreOwn ==
    \A r \in Requests : insertPc[r] = "committed" =>
       /\ database \in {"mysql", "sqlite3"} => insertReq[r].post \in {insertReq[r].newPost, 0}
       /\ database = "sqlite3" /\ insertReq[r].newThread # 0 => insertReq[r].thread = insertReq[r].newThread

\* A thread that was created has one OP.
EveryThreadHasItsOP ==
    \A r \in Requests : insertPc[r] = "committed" /\ insertReq[r].newThread # 0 =>
       insertReq[r].postThread = insertReq[r].newThread

-----------------------------------------------------------------------------
(* What readers of the tables and the requests see of it. *)

CommittedRows ==
    {[id |-> 1, thread |-> 1, top |-> TRUE]} \cup
    {[id |-> insertReq[q].newPost, thread |-> insertReq[q].postThread, top |-> insertReq[q].newThread # 0] :
        q \in {p \in Requests : insertPc[p] = "committed"}}

Answer(r) ==
    CASE insertPc[r] = "committed" ->
            [state |-> "inserted", thread |-> insertReq[r].thread, post |-> insertReq[r].post]
      [] insertPc[r] = "rolledBack" -> [state |-> "refused", thread |-> 0, post |-> 0]
      [] OTHER -> [state |-> "waiting", thread |-> 0, post |-> 0]

Atomic == INSTANCE AtomicInserts
          WITH IDs <- InsertedIDs, threadIDs <- CommittedThreads, postRows <- CommittedRows,
               answers <- [r \in Requests |-> Answer(r)]

\* With one writer at a time (SQLite) the statements of Post.Insert and CreateThread are one step of
\* AtomicInserts or none: a thread appears with its OP, under the ids the request goes on with.
\* MakePost inserts so.
ImplementsAtomicInserts ==
    /\ database = "sqlite3" => Atomic!AtomicInit
    /\ [][database = "sqlite3" => Atomic!AtomicNext]_(Atomic!atomicVars)
===============================================================================
