------------------------------ MODULE DeletePosts ------------------------------
(***************************************************************************)
(* cmd/gochan/deleteposts.go: deletePosts.  The posts are looked up once;   *)
(* their files, the rows of the files and the rows of the posts then go in  *)
(* separate steps, none of which looks at the tables again.                 *)
(***************************************************************************)
EXTENDS BoardStore

\* The password or the rank of the sender was accepted.  getAllPostsToDelete returns the
\* selected post, or with an OP all posts of its thread, already deleted ones included.
StartDelete(r) ==
    /\ At(r, "idle")
    /\ \E p \in PostIDs, fileOnly \in BOOLEAN :
         LET list == IF fileOnly THEN {p} ELSE PostsToDelete(p)
         IN  /\ posts[p].state # "none"
             /\ req' = [req EXCEPT ![r].fileOnly = fileOnly, ![r].list = list, ![r].todo = list,
                                   ![r].names = [q \in PostIDs |-> IF q \in list THEN files[q] ELSE NoUpload]]
             /\ asked' = asked \cup list
    /\ Goto(r, "removeFiles")
    /\ UNCHANGED <<tables, disk, up, used, abandoned, owed>>

\* Variant: a post whose upload is not there is tried again.
RemoveFiles_Retries(r) ==
    /\ At(r, "removeFiles")
    /\ \E p \in req[r].todo :
         LET name == req[r].names[p]
         IN  /\ src' = src \ {name}
             /\ thumb' = thumb \ {name}
             /\ pages' = IF name \in Filenames /\ posts[p].top /\ ~req[r].fileOnly
                         THEN pages \ {p} ELSE pages
             /\ req' = IF name \in src THEN [req EXCEPT ![r].todo = @ \ {p}] ELSE req
    /\ UNCHANGED <<tables, up, pc, history>>

\* Variant: the path of the upload is wrong, as in HandleFilterAction.
RemoveFiles_WrongPath(r) ==
    /\ At(r, "removeFiles")
    /\ \E p \in req[r].todo :
         LET name == req[r].names[p]
         IN  /\ thumb' = thumb \ {name}
             /\ pages' = IF name \in Filenames /\ posts[p].top /\ ~req[r].fileOnly
                         THEN pages \ {p} ELSE pages
             /\ req' = [req EXCEPT ![r].todo = @ \ {p}]
    /\ UNCHANGED <<tables, src, up, pc, history>>

\* One round of the loop of deletePostFiles: deleteFile returns at once when the post has
\* no file, also for an OP, whose page then stays.  A file that is already gone is no error.
RemoveFiles(r) ==
    /\ At(r, "removeFiles")
    /\ \E p \in req[r].todo :
         LET name == req[r].names[p]
         IN  /\ src' = src \ {name}
             /\ thumb' = thumb \ {name}
             /\ pages' = IF name \in Filenames /\ posts[p].top /\ ~req[r].fileOnly
                         THEN pages \ {p} ELSE pages
             /\ req' = [req EXCEPT ![r].todo = @ \ {p}]
    /\ UNCHANGED <<tables, up, pc, history>>

\* Removing the upload or the thumbnail fails with another error.  coalesceErrors returns the
\* first error of page, thumbnail and upload, so a missing page or thumbnail hides it from
\* deletePostFiles, which ignores files that do not exist; otherwise the loop goes on, failed.
RemoveFilesFails(r) ==
    /\ At(r, "removeFiles")
    /\ "remove" \in Faults
    /\ \E p \in req[r].todo, stays \in {"upload", "thumbnail"} :
         LET name == req[r].names[p]
             delThread == posts[p].top /\ ~req[r].fileOnly
             hidden == \/ delThread /\ p \notin pages
                       \/ stays = "upload" /\ name \notin thumb
         IN  /\ name \in (IF stays = "upload" THEN src ELSE thumb)
             /\ src' = IF stays = "upload" THEN src ELSE src \ {name}
             /\ thumb' = IF stays = "thumbnail" THEN thumb ELSE thumb \ {name}
             /\ pages' = IF delThread THEN pages \ {p} ELSE pages
             /\ req' = [req EXCEPT ![r].todo = @ \ {p}, ![r].failed = @ \/ ~hidden]
    /\ UNCHANGED <<tables, up, pc, history>>

\* An error in the loop ends the request before any row is touched.
FilesRemoved(r) ==
    /\ At(r, "removeFiles")
    /\ req[r].todo = {}
    /\ IF req[r].failed THEN Finish(r)
       ELSE Goto(r, "deleteRows") /\ UNCHANGED req
    /\ UNCHANGED <<tables, disk, up, history>>

\* The rows in files are deleted, or, when only the file was to go, set to 'deleted'.
DeleteRows(r) ==
    LET fileOnly == req[r].fileOnly
        Row(p) == IF p \notin req[r].list \/ files[p] = NoUpload THEN files[p]
                  ELSE IF fileOnly THEN DeletedUpload ELSE NoUpload
    IN  /\ At(r, "deleteRows")
        /\ files' = [p \in PostIDs |-> Row(p)]
        /\ IF fileOnly THEN GotoBuild(r) ELSE Goto(r, "mark") /\ UNCHANGED req
        /\ UNCHANGED <<threads, posts, nextThread, nextPost, disk, up, history>>

\* markPostsAsDeleted: the posts of the list and the threads whose OP is in it, in one transaction.
MarkPostsAsDeleted(r) ==
    LET list == req[r].list
    IN  /\ At(r, "mark")
        /\ posts' = PostsMarkedDeleted(list)
        /\ threads' = ThreadsMarkedDeleted({posts[p].thread : p \in {q \in list : posts[q].top}})
        /\ GotoBuild(r)
        /\ UNCHANGED <<files, nextThread, nextPost, disk, up, history>>

DeletePostsNext(r) ==
    \/ StartDelete(r)
    \/ RemoveFiles(r) \/ RemoveFilesFails(r) \/ FilesRemoved(r)
    \/ DeleteRows(r)
    \/ MarkPostsAsDeleted(r)
===============================================================================
