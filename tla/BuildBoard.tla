------------------------------ MODULE BuildBoard ------------------------------
(***************************************************************************)
(* pkg/building/boards.go: buildBoard, which every handler ends with: the   *)
(* threads over the limit of the board are pruned, then its pages written.  *)
(* The mutex of BuildBoards is a local variable, so two requests build the  *)
(* same board side by side.                                                 *)
(***************************************************************************)
EXTENDS BoardStore

\* DeleteOldThreads: the SELECT of the threads to trim runs outside the transaction.
SelectOldThreads(r) ==
    /\ At(r, "trim")
    /\ req' = [req EXCEPT ![r].victims = TrimmedThreads]
    /\ Goto(r, IF TrimmedThreads = {} THEN "tops" ELSE "trimMark")
    /\ UNCHANGED <<tables, disk, up, history>>

\* Variant: only the threads are set as deleted.
DeleteOldThreads_ThreadsOnly(r) ==
    /\ At(r, "trimMark")
    /\ threads' = ThreadsMarkedDeleted(req[r].victims)
    /\ req' = [req EXCEPT ![r].todo = PostsIn(req[r].victims)]
    /\ Goto(r, "clean")
    /\ UNCHANGED <<posts, files, nextThread, nextPost, disk, up, history>>

\* ... and the transaction: the threads, and all posts they have by now, are set as deleted.
DeleteOldThreads(r) ==
    LET oldPosts == PostsIn(req[r].victims)
    IN  /\ At(r, "trimMark")
        /\ threads' = ThreadsMarkedDeleted(req[r].victims)
        /\ posts' = PostsMarkedDeleted(oldPosts)
        /\ req' = [req EXCEPT ![r].todo = oldPosts]
        /\ Goto(r, "clean")
        /\ UNCHANGED <<files, nextThread, nextPost, disk, up, history>>

\* The file and the thumbnail of a pruned post are both where its row says
HasItsFiles(p) == files[p] \in src /\ files[p] \in thumb

\* One round of the loop over oldPosts: upload, row, and for an OP the thread page.
CleanPost(r) ==
    /\ At(r, "clean")
    /\ \E p \in req[r].todo :
         /\ files[p] = NoUpload \/ HasItsFiles(p)
         /\ posts[p].top => p \in pages
         /\ src' = src \ {files[p]}
         /\ thumb' = thumb \ {files[p]}
         /\ files' = [files EXCEPT ![p] = NoUpload]
         /\ pages' = pages \ {p}
         /\ req' = [req EXCEPT ![r].todo = @ \ {p}]
    /\ UNCHANGED <<threads, posts, nextThread, nextPost, up, pc, history>>

\* os.Remove of a missing upload (a row set to 'deleted' has none) or thumbnail, or of a
\* missing page after the row was unlinked: buildBoard returns the error, the rest of
\* oldPosts is not cleaned and nothing is built.
CleanPostFails(r) ==
    /\ At(r, "clean")
    /\ \E p \in req[r].todo :
         \/ /\ files[p] # NoUpload /\ ~HasItsFiles(p)
            /\ src' = src \ {files[p]}
            /\ UNCHANGED <<files, thumb>>
         \/ /\ files[p] = NoUpload \/ HasItsFiles(p)
            /\ posts[p].top /\ p \notin pages
            /\ src' = src \ {files[p]}
            /\ thumb' = thumb \ {files[p]}
            /\ files' = [files EXCEPT ![p] = NoUpload]
    /\ Finish(r)
    /\ UNCHANGED <<threads, posts, nextThread, nextPost, pages, up, history>>

PostsCleaned(r) ==
    /\ At(r, "clean")
    /\ req[r].todo = {}
    /\ Goto(r, "tops")
    /\ UNCHANGED <<tables, disk, up, req, history>>

\* BuildThreads asks for the OPs of the board once ...
SelectTopPosts(r) ==
    /\ At(r, "tops")
    /\ req' = [req EXCEPT ![r].todo = BoardTopPosts]
    /\ Goto(r, "pages")
    /\ UNCHANGED <<tables, disk, up, history>>

\* ... and BuildThreadPages reads the posts of each thread and writes its page.
BuildThreadPages(r) ==
    /\ At(r, "pages")
    /\ \E op \in req[r].todo :
         /\ BuildablePosts(posts[op].thread) # {}
         /\ pages' = pages \cup {op}
         /\ req' = [req EXCEPT ![r].todo = @ \ {op}]
    /\ UNCHANGED <<tables, src, thumb, up, pc, history>>

\* The thread was deleted since: posts[0] panics, after the page was created, in a goroutine
\* of BuildBoards where nothing recovers, and the process ends.
BuildThreadPagesPanics(r) ==
    /\ At(r, "pages")
    /\ \E op \in req[r].todo :
         /\ BuildablePosts(posts[op].thread) = {}
         /\ pages' = pages \cup {op}
    /\ Die
    /\ UNCHANGED <<tables, src, thumb, used, asked, abandoned>>

BoardBuilt(r) ==
    /\ At(r, "pages")
    /\ req[r].todo = {}
    /\ Finish(r)
    /\ UNCHANGED <<tables, disk, up, history>>

BuildBoardNext(r) ==
    \/ SelectOldThreads(r) \/ DeleteOldThreads(r)
    \/ CleanPost(r) \/ CleanPostFails(r) \/ PostsCleaned(r)
    \/ SelectTopPosts(r)
    \/ BuildThreadPages(r) \/ BuildThreadPagesPanics(r) \/ BoardBuilt(r)
===============================================================================
