------------------------------ MODULE ImageBoard ------------------------------
(***************************************************************************)
(* A board of gochan: the handlers MakePost and deletePosts, the build      *)
(* every handler ends with, the process that may die and start again.       *)
(***************************************************************************)
EXTENDS MakePost, DeletePosts, BuildBoard

\* A query of the request fails: the handler serves the error and returns, what it
\* did so far stays.
QueryFails(r) ==
    /\ "query" \in Faults
    /\ up
    /\ pc[r] \in {"cyclic", "prune", "deleteRows", "mark", "trim", "trimMark", "clean", "tops", "pages"}
    /\ Finish(r)
    /\ owed' = owed \cup Owing({r})
    /\ UNCHANGED <<tables, disk, up, used, asked, abandoned>>

Crash ==
    /\ "crash" \in Faults
    /\ up
    /\ Die
    /\ UNCHANGED <<tables, disk, used, asked, abandoned>>

\* main: every board is trimmed before the server listens; the posts DeleteOldThreads
\* returns are dropped, so nothing of them is removed from the disk.
Startup ==
    /\ ~up
    /\ up' = TRUE
    /\ threads' = ThreadsMarkedDeleted(TrimmedThreads)
    /\ posts' = PostsMarkedDeleted(PostsIn(TrimmedThreads))
    /\ UNCHANGED <<files, nextThread, nextPost, disk, pc, req, history>>

RequestNext(r) ==
    MakePostNext(r) \/ DeletePostsNext(r) \/ BuildBoardNext(r) \/ QueryFails(r)

Next ==
    \/ \E r \in Requests : RequestNext(r)
    \/ Crash
    \/ Startup

Spec == Init /\ [][Next]_vars

\* A request that is being served goes on: net/http runs it in a goroutine of its own and no
\* step waits for another request.  Nothing makes visitors send requests, and nothing in the
\* repository starts a server again that died.
Serve(r) == pc[r] # "idle" /\ RequestNext(r)
FairSpec == Spec /\ \A r \in Requests : WF_vars(Serve(r))

-----------------------------------------------------------------------------
(* Safety. *)

\* A thread is deleted exactly when its OP is: no handler deletes one of the two and leaves
\* the other.  GetBoardTopPosts relies on it, it lists the threads of a board by their OPs.
OPAndThreadAgree ==
    \A p \in PostIDs : posts[p].top => posts[p].state = threads[posts[p].thread].state

\* A live post keeps the upload its row names, unless somebody asked to delete that post or
\* its thread: pruning, failed posts and their clean-up never take another post's file.
UploadsSurvive ==
    \A p \in PostIDs :
       LivePost(p) /\ files[p] \in Filenames /\ p \notin asked => HasItsFiles(p)

\* A cyclic thread has at most CyclicThreadNumPosts live replies, and one more for each reply
\* whose request has not finished pruning, or ended without.
CyclicBound ==
    \A t \in ThreadIDs : threads[t].cyclic =>
       Cardinality(LiveReplies(t)) <= CyclicThreadNumPosts
          + Cardinality({r \in Requests : Owes(r) /\ req[r].thread = t})
          + Cardinality(owed \cap PostsIn({t}))

\* At most MaxThreads threads that are not stickied are live, and one more for each new thread
\* whose request has not trimmed the board, or ended without.
ThreadLimit ==
    Cardinality({t \in ThreadIDs : LiveThread(t) /\ ~threads[t].stickied}) <= MaxThreads
       + Cardinality({r \in Requests : Owes(r) /\ req[r].thread = 0})
       + Cardinality({p \in owed : posts[p].top})

\* Every upload on disk belongs to a row of files, to a request that has yet to attach it, or
\* to a request that was rejected after saving it.
Accounted(f) ==
    \/ \E p \in PostIDs : files[p] = f
    \/ \E r \in Requests : req[r].upload = f /\ pc[r] \in {"filter", "insert", "attach"}
    \/ f \in abandoned
UploadsAccountedFor == \A f \in src : Accounted(f)

\* An upload that belonged to somebody stays behind without an owner in one way only, while the
\* process lives: deletePosts deletes the row of an upload that was attached after it had looked
\* up the files of the post.
UploadsLeftOnlyByRaces ==
    [][\A f \in Filenames : f \in src' /\ Accounted(f) /\ ~Accounted(f)' =>
          \/ ~up'
          \/ \E r \in Requests : /\ pc[r] = "deleteRows"
                                 /\ \E p \in req[r].list : files[p] = f /\ req[r].names[p] # f]_vars

-----------------------------------------------------------------------------
(* Refinement. *)

Readers == INSTANCE Forum WITH
    Posts <- PostIDs,
    Threads <- ThreadIDs,
    post <- posts,
    thread <- [t \in ThreadIDs |-> [state |-> threads[t].state, locked |-> threads[t].locked]]

\* The handlers, each a sequence of transactions that others interleave with and a crash may cut
\* short, show readers the board of module Forum: whole threads appear and go in one step, and
\* nothing that was deleted comes back.
ImplementsForum == Readers!ForumSpec

-----------------------------------------------------------------------------
(* Liveness. *)

\* Every request that was accepted is answered, or dies with the process.
RequestsFinish == \A r \in Requests : pc[r] # "idle" ~> pc[r] = "idle"

-----------------------------------------------------------------------------
(* What comments of the code promise. *)

\* A thread that is deleted takes its replies with it.
NoLiveReplyInDeletedThread ==
    \A p \in PostIDs : LivePost(p) => LiveThread(posts[p].thread)

\* A post whose upload could not be attached is set as deleted.
FailedPostIsDeleted ==
    [][\A r \in Requests : pc[r] = "attach" /\ pc'[r] = "idle" /\ up' =>
          posts'[req[r].post].state = "deleted"]_vars

\* After the threads over the limit were pruned, none of them has an upload on disk.
PrunedThreadsLeaveNoFiles ==
    up /\ (\A r \in Requests : pc[r] = "idle") =>
       \A p \in PostIDs : posts[p].state = "deleted" => files[p] \notin src

\* A deleted OP has no page, once the request that deleted it is done.
DeletedThreadHasNoPage ==
    up /\ (\A r \in Requests : pc[r] = "idle") =>
       \A p \in pages : posts[p].state # "deleted"

\* Building reports its errors: only a crash from outside ends the process.
BuildingNeverKillsTheServer == [][up /\ ~up' => Crash]_vars
===============================================================================
