------------------------------ MODULE BoardStore ------------------------------
(***************************************************************************)
(* The state one board of gochan keeps: the rows of the threads, posts and  *)
(* files tables (sql/initdb_master.sql), the files below the board's        *)
(* directory in the document root, and the requests being served.  The      *)
(* handlers that change it are in MakePost, DeletePosts and BuildBoard;     *)
(* ImageBoard composes them.                                                *)
(***************************************************************************)
EXTENDS Integers, FiniteSets

CONSTANTS
    Requests,              \* the HTTP requests served at the same time
    MaxPostID,             \* bound: posts ever inserted
    MaxThreadID,           \* bound: threads ever created
    Filenames,             \* bound: the names getNewFilename may return
    ThreadKinds,           \* the flags new threads are created with
    MaxThreads,            \* board configuration: threads kept on the board
    CyclicThreadNumPosts,  \* board configuration: replies kept in a cyclic thread
    MayCollide,            \* may getNewFilename return a name it already returned?
    Faults                 \* the failures the environment may cause

ASSUME RequestsAssumption == IsFiniteSet(Requests)
ASSUME BoundsAssumption == MaxPostID \in Nat /\ MaxThreadID \in Nat
ASSUME ConfigAssumption == MaxThreads \in Nat \ {0} /\ CyclicThreadNumPosts \in Nat \ {0}
ASSUME FilenamesAssumption == Filenames \cap {"", "deleted"} = {}
ASSUME KindsAssumption == ThreadKinds \subseteq [cyclic: BOOLEAN, stickied: BOOLEAN, locked: BOOLEAN]
ASSUME FaultsAssumption == /\ Faults \subseteq {"insert", "attach", "chown", "remove", "query", "crash"}
                           /\ MayCollide \in BOOLEAN

PostIDs == 1..MaxPostID
ThreadIDs == 1..MaxThreadID

\* The filename column of a post that has no row in files, and of a row whose
\* file was removed while the post stays.
NoUpload == ""
DeletedUpload == "deleted"
FilenameColumn == Filenames \cup {NoUpload, DeletedUpload}

VARIABLES
    threads,     \* threads[t]: row t of the threads table
    posts,       \* posts[p]: row p of the posts table
    files,       \* files[p]: filename in the row of the files table with post_id = p
    nextThread,  \* AUTO_INCREMENT of threads
    nextPost,    \* AUTO_INCREMENT of posts
    src,         \* the files in <board>/src
    thumb,       \* the uploads with a thumbnail in <board>/thumb
    pages,       \* the OPs with a res/<id>.html
    up,          \* is the server running?
    pc,          \* pc[r]: the next step of request r
    req,         \* req[r]: the local variables of request r
    used,        \* history: every filename getNewFilename returned
    asked,       \* history: posts selected for deletion by some deletePosts
    abandoned,   \* history: uploads whose request was rejected after saving them
    owed         \* history: posts whose request ended before it pruned what they displaced

tables == <<threads, posts, files, nextThread, nextPost>>
disk == <<src, thumb, pages>>
history == <<used, asked, abandoned, owed>>
vars == <<tables, disk, up, pc, req, history>>

RowStates == {"none", "live", "deleted"}
ThreadRow == [state: RowStates, cyclic: BOOLEAN, stickied: BOOLEAN, locked: BOOLEAN,
              bump: 0..MaxPostID]
PostRow == [state: RowStates, thread: 0..MaxThreadID, top: BOOLEAN]

NoThread == [state |-> "none", cyclic |-> FALSE, stickied |-> FALSE, locked |-> FALSE, bump |-> 0]
NoPost == [state |-> "none", thread |-> 0, top |-> FALSE]
Steps == {"idle",
          "save", "filter", "insert", "attach", "chown", "cyclic", "prune", "pruneFile",
          "removeFiles", "deleteRows", "mark",
          "trim", "trimMark", "clean", "tops", "pages"}

\* The local variables of a handler.  thread = 0 asks for a new thread.  list and names
\* are what a SELECT returned, todo what is left of it.
Locals == [thread: 0..MaxThreadID, post: 0..MaxPostID, upload: Filenames \cup {NoUpload},
           fileOnly: BOOLEAN, failed: BOOLEAN,
           list: SUBSET PostIDs, names: [PostIDs -> FilenameColumn], todo: SUBSET PostIDs,
           victims: SUBSET ThreadIDs]

NoLocals == [thread |-> 0, post |-> 0, upload |-> NoUpload, fileOnly |-> FALSE, failed |-> FALSE,
             list |-> {}, names |-> [p \in PostIDs |-> NoUpload], todo |-> {}, victims |-> {}]

TypeOK ==
    /\ threads \in [ThreadIDs -> ThreadRow]
    /\ posts \in [PostIDs -> PostRow]
    /\ files \in [PostIDs -> FilenameColumn]
    /\ nextThread \in 1..(MaxThreadID + 1)
    /\ nextPost \in 1..(MaxPostID + 1)
    /\ src \subseteq Filenames
    /\ thumb \subseteq Filenames
    /\ pages \subseteq PostIDs
    /\ up \in BOOLEAN
    /\ pc \in [Requests -> Steps]
    /\ req \in [Requests -> Locals]
    /\ used \subseteq Filenames
    /\ asked \subseteq PostIDs
    /\ abandoned \subseteq Filenames
    /\ owed \subseteq PostIDs

Init ==
    /\ threads = [t \in ThreadIDs |-> NoThread]
    /\ posts = [p \in PostIDs |-> NoPost]
    /\ files = [p \in PostIDs |-> NoUpload]
    /\ nextThread = 1
    /\ nextPost = 1
    /\ src = {} /\ thumb = {} /\ pages = {}
    /\ up = TRUE
    /\ pc = [r \in Requests |-> "idle"]
    /\ req = [r \in Requests |-> NoLocals]
    /\ used = {} /\ asked = {} /\ abandoned = {} /\ owed = {}

-----------------------------------------------------------------------------
(* What the queries of the handlers return. *)

LivePost(p) == posts[p].state = "live"
LiveThread(t) == threads[t].state = "live"

PostsIn(T) == {p \in PostIDs : posts[p].state # "none" /\ posts[p].thread \in T}
LiveReplies(t) == {p \in PostsIn({t}) : LivePost(p) /\ ~posts[p].top}

\* v_posts_to_delete restricted to a selected post, with the replies of a selected OP
PostsToDelete(p) == {p} \cup IF posts[p].top THEN PostsIn({posts[p].thread}) ELSE {}

\* v_building_posts of one thread: what getThreadPosts returns
BuildablePosts(t) == {p \in PostsIn({t}) : LivePost(p) /\ LiveThread(t)}

\* Variant: the view forgets is_deleted.
BoardTopPosts_WithDeleted == {p \in PostIDs : posts[p].top}

\* GetBoardTopPosts: the condition is on the post alone, the thread row is not looked at
BoardTopPosts == {p \in PostIDs : LivePost(p) /\ posts[p].top}

\* Variant: one thread too many is kept.
TrimmedThreads_OffByOne ==
    LET candidates == {t \in ThreadIDs : LiveThread(t) /\ ~threads[t].stickied}
        newer(t) == {s \in candidates : threads[s].bump > threads[t].bump}
    IN  {t \in candidates : Cardinality(newer(t)) > MaxThreads}

\* The threads after the first MaxThreads of ORDER BY last_bump DESC, stickied ones left out
TrimmedThreads ==
    LET candidates == {t \in ThreadIDs : LiveThread(t) /\ ~threads[t].stickied}
        newer(t) == {s \in candidates : threads[s].bump > threads[t].bump}
    IN  {t \in candidates : Cardinality(newer(t)) >= MaxThreads}

\* Variant: one reply too many is kept.
CyclicOverflow_OffByOne(t) ==
    LET newer(p) == {q \in LiveReplies(t) : q > p}
    IN  {p \in LiveReplies(t) : Cardinality(newer(p)) > CyclicThreadNumPosts}

\* The posts before the last CyclicThreadNumPosts of ORDER BY post_id ASC
CyclicOverflow(t) ==
    LET newer(p) == {q \in LiveReplies(t) : q > p}
    IN  {p \in LiveReplies(t) : Cardinality(newer(p)) >= CyclicThreadNumPosts}

-----------------------------------------------------------------------------
(* Updates of the tables. *)

PostsMarkedDeleted(P) ==
    [p \in PostIDs |-> IF p \in P THEN [posts[p] EXCEPT !.state = "deleted"] ELSE posts[p]]

ThreadsMarkedDeleted(T) ==
    [t \in ThreadIDs |-> IF t \in T THEN [threads[t] EXCEPT !.state = "deleted"] ELSE threads[t]]

\* Variant: the UPDATE of the post is committed, the one of its thread is not.
PostsAfterDelete_PostOnly(p) == PostsMarkedDeleted({p})

\* Post.Delete: for a reply an UPDATE that is committed.  For a top post it returns
\* from deleteThread before the commit, so the deferred Rollback undoes both UPDATEs.
PostsAfterDelete(p) == IF posts[p].top THEN posts ELSE PostsMarkedDeleted({p})

-----------------------------------------------------------------------------
(* Control of a request. *)

At(r, step) == up /\ pc[r] = step

Goto(r, step) == pc' = [pc EXCEPT ![r] = step]

\* The handler returns: a response was sent, nothing of the request is left.
Finish(r) ==
    /\ pc' = [pc EXCEPT ![r] = "idle"]
    /\ req' = [req EXCEPT ![r] = NoLocals]

\* BuildBoards(false, board.ID): the other local variables of the handler are not used again.
GotoBuild(r) ==
    /\ Goto(r, "trim")
    /\ req' = [req EXCEPT ![r] = [NoLocals EXCEPT !.thread = req[r].thread, !.post = req[r].post]]

\* A request that inserted a reply has to prune its cyclic thread, one that created a thread
\* has to trim the board.
Owes(r) ==
    /\ req[r].post # 0
    /\ pc[r] \in {"attach", "chown", "cyclic"}
                 \cup IF req[r].thread = 0 THEN {"trim", "trimMark"} ELSE {"prune", "pruneFile"}
Owing(R) == {req[r].post : r \in {q \in R : Owes(q)}}

\* The process dies, and with it every request.
Die ==
    /\ up' = FALSE
    /\ pc' = [r \in Requests |-> "idle"]
    /\ req' = [r \in Requests |-> NoLocals]
    /\ owed' = owed \cup Owing(Requests)
===============================================================================
