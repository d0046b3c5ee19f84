------------------------------- MODULE MakePost -------------------------------
(***************************************************************************)
(* pkg/posting/post.go: MakePost, one action per call of the handler that   *)
(* changes the tables or the disk.  The upload is on disk before the post   *)
(* has a row; the post and its file row are two transactions.               *)
(***************************************************************************)
EXTENDS BoardStore

\* Requests that hold a place for a post (and a thread) they have yet to insert
Inserting == {r \in Requests : pc[r] \in {"save", "filter", "insert"}}
RoomForPost == nextPost + Cardinality(Inserting) <= MaxPostID
RoomForThread == nextThread + Cardinality({r \in Inserting : req[r].thread = 0}) <= MaxThreadID

\* Parsing, the lockdown, cooldown, ban and captcha checks and DoNonUploadFiltering
\* passed (a request they reject changes nothing).  The thread is found through its OP
\* and may be deleted: GetTopPostThreadID does not look at is_deleted.
StartPost(r) ==
    /\ At(r, "idle")
    /\ RoomForPost
    /\ \E t \in {0} \cup {posts[p].thread : p \in {q \in PostIDs : posts[q].top}} :
         /\ t = 0 => RoomForThread
         /\ req' = [req EXCEPT ![r].thread = t]
    /\ \E first \in {"save", "insert"} : Goto(r, first)
    /\ UNCHANGED <<tables, disk, up, history>>

\* Variant: the upload is saved without a name.
NewFilenames_Unset == {NoUpload}

NewFilenames == IF MayCollide THEN Filenames ELSE Filenames \ used

\* AttachUploadFromRequest: os.WriteFile, then the upload handler makes the thumbnails.
SaveUpload(r) ==
    /\ At(r, "save")
    /\ \E f \in NewFilenames :
         /\ src' = src \cup {f}
         /\ thumb' = thumb \cup {f}
         /\ used' = used \cup {f}
         /\ req' = [req EXCEPT ![r].upload = f]
    /\ Goto(r, "filter")
    /\ UNCHANGED <<tables, pages, up, asked, abandoned, owed>>

\* ... and its errors: before the write, or after it (event handler, spoiler not allowed,
\* upload handler), when the written file stays.
SaveUploadFails(r) ==
    /\ At(r, "save")
    /\ \/ UNCHANGED <<src, used, abandoned>>
       \/ \E f \in NewFilenames : /\ src' = src \cup {f}
                                  /\ used' = used \cup {f}
                                  /\ abandoned' = abandoned \cup {f}
    /\ Finish(r)
    /\ UNCHANGED <<tables, thumb, pages, up, asked, owed>>

\* DoPostFiltering found nothing, or the action of the filter is "log"
PassFilter(r) ==
    /\ At(r, "filter")
    /\ Goto(r, "insert")
    /\ UNCHANGED <<tables, disk, up, req, history>>

\* HandleFilterAction removes the thumbnails; the path it builds for the upload itself
\* is below thumb/, where no such file is, so src keeps the upload.
RejectByFilter(r) ==
    /\ At(r, "filter")
    /\ thumb' = thumb \ {req[r].upload}
    /\ abandoned' = abandoned \cup {req[r].upload}
    /\ Finish(r)
    /\ UNCHANGED <<tables, src, pages, up, used, asked, owed>>

\* A query of DoPostFiltering fails: the handler returns, the upload and its thumbnail stay.
FilteringFails(r) ==
    /\ At(r, "filter")
    /\ "query" \in Faults
    /\ abandoned' = abandoned \cup {req[r].upload}
    /\ Finish(r)
    /\ UNCHANGED <<tables, disk, up, used, asked, owed>>

\* Variant: the lock is not looked at again.
InsertReply_Locked(r) ==
    LET t == req[r].thread
    IN  /\ At(r, "insert")
        /\ t # 0 /\ nextPost <= MaxPostID
        /\ posts' = [posts EXCEPT ![nextPost] = [state |-> "live", thread |-> t, top |-> FALSE]]
        /\ nextPost' = nextPost + 1
        /\ req' = [req EXCEPT ![r].post = nextPost]
        /\ Goto(r, IF req[r].upload = NoUpload THEN "cyclic" ELSE "attach")
        /\ UNCHANGED <<threads, files, nextThread, disk, up, history>>

\* Post.Insert: one transaction.  The lock of the thread is checked, is_deleted is not.
\* The form says whether the post bumps its thread (not with "sage"), and for a new thread
\* which flags it has.
InsertReply(r) ==
    LET t == req[r].thread
    IN  /\ At(r, "insert")
        /\ t # 0 /\ nextPost <= MaxPostID
        /\ ~threads[t].locked
        /\ posts' = [posts EXCEPT ![nextPost] = [state |-> "live", thread |-> t, top |-> FALSE]]
        /\ \E bump \in {nextPost, threads[t].bump} : threads' = [threads EXCEPT ![t].bump = bump]
        /\ nextPost' = nextPost + 1
        /\ req' = [req EXCEPT ![r].post = nextPost]
        /\ Goto(r, IF req[r].upload = NoUpload THEN "cyclic" ELSE "attach")
        /\ UNCHANGED <<files, nextThread, disk, up, history>>

InsertThread(r) ==
    /\ At(r, "insert")
    /\ req[r].thread = 0 /\ nextPost <= MaxPostID /\ nextThread <= MaxThreadID
    /\ posts' = [posts EXCEPT ![nextPost] = [state |-> "live", thread |-> nextThread, top |-> TRUE]]
    /\ \E kind \in ThreadKinds :
         threads' = [threads EXCEPT ![nextThread] =
                       [state |-> "live", cyclic |-> kind.cyclic, stickied |-> kind.stickied,
                        locked |-> kind.locked, bump |-> nextPost]]
    /\ nextThread' = nextThread + 1
    /\ nextPost' = nextPost + 1
    /\ req' = [req EXCEPT ![r].post = nextPost]
    /\ Goto(r, IF req[r].upload = NoUpload THEN "cyclic" ELSE "attach")
    /\ UNCHANGED <<files, disk, up, history>>

\* Variant: the upload of a post that could not be inserted stays.
InsertPostFails_KeepsUpload(r) ==
    /\ At(r, "insert")
    /\ \/ req[r].thread # 0 /\ threads[req[r].thread].locked
       \/ "insert" \in Faults
    /\ Finish(r)
    /\ UNCHANGED <<tables, disk, up, history>>

\* Insert returned an error and was rolled back: the saved upload is removed.
InsertPostFails(r) ==
    /\ At(r, "insert")
    /\ \/ req[r].thread # 0 /\ threads[req[r].thread].locked
       \/ "insert" \in Faults
    /\ src' = src \ {req[r].upload}
    /\ thumb' = thumb \ {req[r].upload}
    /\ Finish(r)
    /\ UNCHANGED <<tables, pages, up, history>>

\* Post.AttachFile, a second transaction.  When TakeOwnership fails afterwards the
\* request goes through "chown" first.
AttachFile(r) ==
    /\ At(r, "attach")
    /\ files' = [files EXCEPT ![req[r].post] = req[r].upload]
    /\ \E next \in {"cyclic"} \cup (IF "chown" \in Faults THEN {"chown"} ELSE {}) : Goto(r, next)
    /\ UNCHANGED <<threads, posts, nextThread, nextPost, disk, up, req, history>>

\* Variant: the row in files was committed all the same.
AttachFileFails_RowCommitted(r) ==
    /\ At(r, "attach")
    /\ "attach" \in Faults
    /\ src' = src \ {req[r].upload}
    /\ thumb' = thumb \ {req[r].upload}
    /\ files' = [files EXCEPT ![req[r].post] = req[r].upload]
    /\ posts' = PostsAfterDelete(req[r].post)
    /\ owed' = owed \cup Owing({r})
    /\ Finish(r)
    /\ UNCHANGED <<threads, nextThread, nextPost, pages, up, used, asked, abandoned>>

\* AttachFile returned an error: the upload is removed, the post is deleted, the handler returns.
AttachFileFails(r) ==
    /\ At(r, "attach")
    /\ "attach" \in Faults
    /\ src' = src \ {req[r].upload}
    /\ thumb' = thumb \ {req[r].upload}
    /\ posts' = PostsAfterDelete(req[r].post)
    /\ owed' = owed \cup Owing({r})
    /\ Finish(r)
    /\ UNCHANGED <<threads, files, nextThread, nextPost, pages, up, used, asked, abandoned>>

\* TakeOwnership failed: the same clean-up, but the handler does not return.
TakeOwnershipFails(r) ==
    /\ At(r, "chown")
    /\ src' = src \ {req[r].upload}
    /\ thumb' = thumb \ {req[r].upload}
    /\ posts' = PostsAfterDelete(req[r].post)
    /\ Goto(r, "cyclic")
    /\ UNCHANGED <<threads, files, nextThread, nextPost, pages, up, req, history>>

\* CyclicPostsToBePruned: the posts over the limit of a cyclic thread and their filenames.
CyclicCheck(r) ==
    LET t == req[r].thread
        overflow == IF t # 0 /\ threads[t].cyclic THEN CyclicOverflow(t) ELSE {}
    IN  /\ At(r, "cyclic")
        /\ t # 0 /\ threads[t].cyclic => LiveReplies(t) # {}
        /\ IF overflow = {} THEN GotoBuild(r)
           ELSE /\ req' = [req EXCEPT ![r].todo = overflow,
                     ![r].names = [p \in PostIDs |-> IF p \in overflow THEN files[p] ELSE NoUpload]]
                /\ Goto(r, "prune")
        /\ UNCHANGED <<tables, disk, up, history>>

\* No live reply left: posts[0] panics, handleRecover ends the request without a build.
CyclicCheckPanics(r) ==
    /\ At(r, "cyclic")
    /\ req[r].thread # 0
    /\ threads[req[r].thread].cyclic
    /\ LiveReplies(req[r].thread) = {}
    /\ Finish(r)
    /\ UNCHANGED <<tables, disk, up, history>>

NextToPrune(r) == CHOOSE p \in req[r].todo : \A q \in req[r].todo : p <= q

\* Variant: the deletion of the pruned post is rolled back.
PrunePost_RolledBack(r) ==
    /\ At(r, "prune")
    /\ Goto(r, "pruneFile")
    /\ UNCHANGED <<tables, disk, up, req, history>>

\* The loop over toBePruned: p.Delete(), a transaction of its own ...
PrunePost(r) ==
    LET p == NextToPrune(r)
    IN  /\ At(r, "prune")
        /\ posts' = PostsMarkedDeleted({p})
        /\ Goto(r, "pruneFile")
        /\ UNCHANGED <<threads, files, nextThread, nextPost, disk, up, req, history>>

\* ... then its file and thumbnail, under the name the query returned.  The row in
\* files stays; errors of os.Remove are logged only.
PruneFile(r) ==
    LET p == NextToPrune(r)
        rest == req[r].todo \ {p}
    IN  /\ At(r, "pruneFile")
        /\ src' = src \ {req[r].names[p]}
        /\ thumb' = thumb \ {req[r].names[p]}
        /\ IF rest = {} THEN GotoBuild(r)
           ELSE Goto(r, "prune") /\ req' = [req EXCEPT ![r].todo = rest]
        /\ UNCHANGED <<tables, pages, up, history>>

MakePostNext(r) ==
    \/ StartPost(r)
    \/ SaveUpload(r) \/ SaveUploadFails(r)
    \/ PassFilter(r) \/ RejectByFilter(r) \/ FilteringFails(r)
    \/ InsertReply(r) \/ InsertThread(r) \/ InsertPostFails(r)
    \/ AttachFile(r) \/ AttachFileFails(r) \/ TakeOwnershipFails(r)
    \/ CyclicCheck(r) \/ CyclicCheckPanics(r)
    \/ PrunePost(r) \/ PruneFile(r)
===============================================================================
