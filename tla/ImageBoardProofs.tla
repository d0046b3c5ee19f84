--------------------------- MODULE ImageBoardProofs ---------------------------
(***************************************************************************)
(* Theorems about ImageBoard, for any number of requests, posts, threads    *)
(* and filenames, any configuration of the board and any set of faults.     *)
(***************************************************************************)
EXTENDS ImageBoard, WellFoundedInduction, TLAPS

\* A request that is past saving an upload and has not attached it has a filename.
UploadNamed ==
    \A r \in Requests : pc[r] \in {"filter", "attach", "chown"} => req[r].upload \in Filenames

TypeInv == TypeOK /\ UploadNamed

-----------------------------------------------------------------------------
(* The updates that several actions share keep the types. *)

\* What an SQL UPDATE of is_deleted leaves in the table of posts.
LEMMA MarkedPostsType ==
    ASSUME posts \in [PostIDs -> PostRow], NEW P
    PROVE  PostsMarkedDeleted(P) \in [PostIDs -> PostRow]
<1> SUFFICES ASSUME NEW p \in PostIDs
             PROVE  (IF p \in P THEN [posts[p] EXCEPT !.state = "deleted"] ELSE posts[p]) \in PostRow
    BY DEF PostsMarkedDeleted
<1>1. posts[p] \in PostRow
    OBVIOUS
<1>2. [posts[p] EXCEPT !.state = "deleted"] \in PostRow
    BY <1>1 DEF PostRow, RowStates
<1> QED BY <1>1, <1>2

\* What an SQL UPDATE of is_deleted leaves in the table of threads.
LEMMA MarkedThreadsType ==
    ASSUME threads \in [ThreadIDs -> ThreadRow], NEW T
    PROVE  ThreadsMarkedDeleted(T) \in [ThreadIDs -> ThreadRow]
<1> SUFFICES ASSUME NEW t \in ThreadIDs
             PROVE  (IF t \in T THEN [threads[t] EXCEPT !.state = "deleted"] ELSE threads[t]) \in ThreadRow
    BY DEF ThreadsMarkedDeleted
<1>1. threads[t] \in ThreadRow
    OBVIOUS
<1>2. [threads[t] EXCEPT !.state = "deleted"] \in ThreadRow
    BY <1>1 DEF ThreadRow, RowStates
<1> QED BY <1>1, <1>2

\* The local variables of a request that has none.
LEMMA NoLocalsType == NoLocals \in Locals
<1>1. 0 \in 0..MaxThreadID /\ 0 \in 0..MaxPostID
    BY BoundsAssumption
<1>2. [p \in PostIDs |-> NoUpload] \in [PostIDs -> FilenameColumn]
    BY DEF FilenameColumn
<1> QED BY <1>1, <1>2 DEF NoLocals, Locals

\* A handler that returns leaves well-typed control behind.
LEMMA FinishType ==
    ASSUME TypeInv, NEW r \in Requests, Finish(r)
    PROVE  /\ pc' \in [Requests -> Steps]
           /\ req' \in [Requests -> Locals]
           /\ UploadNamed'
<1>1. pc' \in [Requests -> Steps]
    BY DEF TypeInv, TypeOK, Finish, Steps
<1>2. req' \in [Requests -> Locals]
    BY NoLocalsType DEF TypeInv, TypeOK, Finish
<1>3. UploadNamed'
    BY DEF TypeInv, TypeOK, Finish, UploadNamed
<1> QED BY <1>1, <1>2, <1>3

\* So does one that starts building.
LEMMA GotoBuildType ==
    ASSUME TypeInv, NEW r \in Requests, GotoBuild(r)
    PROVE  /\ pc' \in [Requests -> Steps]
           /\ req' \in [Requests -> Locals]
           /\ UploadNamed'
<1>1. pc' \in [Requests -> Steps]
    BY DEF TypeInv, TypeOK, GotoBuild, Goto, Steps
<1>2. [NoLocals EXCEPT !.thread = req[r].thread, !.post = req[r].post] \in Locals
    BY NoLocalsType DEF TypeInv, TypeOK, Locals
<1>3. req' \in [Requests -> Locals]
    BY <1>2 DEF TypeInv, TypeOK, GotoBuild
<1>4. UploadNamed'
    BY DEF TypeInv, TypeOK, GotoBuild, Goto, UploadNamed
<1> QED BY <1>1, <1>3, <1>4

\* The posts a set of requests owes a clean-up for.
LEMMA OwingType ==
    ASSUME TypeInv, NEW R \in SUBSET Requests
    PROVE  Owing(R) \subseteq PostIDs
<1> SUFFICES ASSUME NEW r \in R, Owes(r)
             PROVE  req[r].post \in PostIDs
    BY DEF Owing
<1>1. req[r] \in Locals
    BY DEF TypeInv, TypeOK
<1> QED BY <1>1, BoundsAssumption DEF Locals, Owes, PostIDs

\* A process that dies forgets its requests.
LEMMA DieType ==
    ASSUME TypeInv, Die
    PROVE  /\ pc' \in [Requests -> Steps]
           /\ req' \in [Requests -> Locals]
           /\ up' \in BOOLEAN
           /\ owed' \subseteq PostIDs
           /\ UploadNamed'
<1>1. pc' \in [Requests -> Steps] /\ up' \in BOOLEAN
    BY DEF Die, Steps
<1>2. req' \in [Requests -> Locals]
    BY NoLocalsType DEF Die
<1>3. owed' \subseteq PostIDs
    BY OwingType DEF TypeInv, TypeOK, Die
<1>4. UploadNamed'
    BY DEF Die, UploadNamed
<1> QED BY <1>1, <1>2, <1>3, <1>4

-----------------------------------------------------------------------------
(* Type correctness: every action keeps TypeInv. *)

\* pkg/posting/post.go keeps the types.
LEMMA MakePostType ==
    ASSUME TypeInv, NEW r \in Requests, MakePostNext(r)
    PROVE  TypeInv'
<1> USE DEF TypeInv, TypeOK, tables, disk, history
<1>r. req[r] \in Locals
    OBVIOUS
<1>1. CASE StartPost(r)
  <2>1. PICK t \in {0} \cup {posts[p].thread : p \in {q \in PostIDs : posts[q].top}} :
            req' = [req EXCEPT ![r].thread = t]
      BY <1>1 DEF StartPost
  <2>2. t \in 0..MaxThreadID
      BY <2>1, BoundsAssumption DEF PostRow
  <2>3. [req[r] EXCEPT !.thread = t] \in Locals
      BY <1>r, <2>2 DEF Locals
  <2>4. req' \in [Requests -> Locals]
      BY <2>1, <2>3
  <2>5. pc' \in [Requests -> Steps]
      BY <1>1 DEF StartPost, Goto, Steps
  <2>6. UploadNamed'
      BY <1>1, <2>1 DEF StartPost, Goto, UploadNamed
  <2> QED BY <1>1, <2>4, <2>5, <2>6 DEF StartPost
<1>2. CASE SaveUpload(r)
  <2>1. PICK f \in NewFilenames : /\ src' = src \cup {f}
                                  /\ thumb' = thumb \cup {f}
                                  /\ used' = used \cup {f}
                                  /\ req' = [req EXCEPT ![r].upload = f]
      BY <1>2 DEF SaveUpload
  <2>2. f \in Filenames
      BY DEF NewFilenames
  <2>3. [req[r] EXCEPT !.upload = f] \in Locals
      BY <1>r, <2>2 DEF Locals
  <2>4. req' \in [Requests -> Locals]
      BY <2>1, <2>3
  <2>5. pc' \in [Requests -> Steps]
      BY <1>2 DEF SaveUpload, Goto, Steps
  <2>6. UploadNamed'
      BY <1>2, <2>1, <2>2 DEF SaveUpload, Goto, UploadNamed
  <2> QED BY <1>2, <2>1, <2>2, <2>4, <2>5, <2>6 DEF SaveUpload
<1>3. CASE SaveUploadFails(r)
  <2>1. src' \subseteq Filenames /\ used' \subseteq Filenames /\ abandoned' \subseteq Filenames
      BY <1>3 DEF SaveUploadFails, NewFilenames
  <2>2. Finish(r)
      BY <1>3 DEF SaveUploadFails
  <2> QED BY <1>3, <2>1, <2>2, FinishType DEF SaveUploadFails
<1>4. CASE PassFilter(r)
  <2>1. pc' \in [Requests -> Steps]
      BY <1>4 DEF PassFilter, Goto, Steps
  <2>2. UploadNamed'
      BY <1>4 DEF PassFilter, Goto, UploadNamed
  <2> QED BY <1>4, <2>1, <2>2 DEF PassFilter
<1>5. CASE RejectByFilter(r) \/ FilteringFails(r)
  <2>1. req[r].upload \in Filenames
      BY <1>5 DEF RejectByFilter, FilteringFails, At, UploadNamed
  <2>2. Finish(r)
      BY <1>5 DEF RejectByFilter, FilteringFails
  <2> QED BY <1>5, <2>1, <2>2, FinishType DEF RejectByFilter, FilteringFails
<1>6. CASE InsertReply(r)
  <2>1. nextPost \in PostIDs /\ nextPost' \in 1..(MaxPostID + 1) /\ nextPost \in 0..MaxPostID
      BY <1>6, BoundsAssumption DEF InsertReply, PostIDs
  <2>2. req[r].thread \in ThreadIDs
      BY <1>6, <1>r, BoundsAssumption DEF InsertReply, Locals, ThreadIDs
  <2>3. posts' \in [PostIDs -> PostRow]
    <3>1. [state |-> "live", thread |-> req[r].thread, top |-> FALSE] \in PostRow
        BY <1>r DEF PostRow, RowStates, Locals
    <3> QED BY <1>6, <3>1 DEF InsertReply
  <2>4. threads' \in [ThreadIDs -> ThreadRow]
    <3>1. PICK bump \in {nextPost, threads[req[r].thread].bump} :
              threads' = [threads EXCEPT ![req[r].thread].bump = bump]
        BY <1>6 DEF InsertReply
    <3>2. threads[req[r].thread] \in ThreadRow
        BY <2>2
    <3>3. bump \in 0..MaxPostID
        BY <2>1, <3>1, <3>2 DEF ThreadRow
    <3>4. [threads[req[r].thread] EXCEPT !.bump = bump] \in ThreadRow
        BY <3>2, <3>3 DEF ThreadRow
    <3> QED BY <3>1, <3>4
  <2>5. req' \in [Requests -> Locals]
    <3>1. [req[r] EXCEPT !.post = nextPost] \in Locals
        BY <1>r, <2>1 DEF Locals
    <3> QED BY <1>6, <3>1 DEF InsertReply
  <2>6. pc' \in [Requests -> Steps]
      BY <1>6 DEF InsertReply, Goto, Steps
  <2>7. UploadNamed'
      BY <1>6, <1>r DEF InsertReply, Goto, UploadNamed, Locals
  <2> QED BY <1>6, <2>1, <2>3, <2>4, <2>5, <2>6, <2>7 DEF InsertReply
<1>7. CASE InsertThread(r)
  <2>1. /\ nextPost \in PostIDs /\ nextPost \in 0..MaxPostID
        /\ nextThread \in ThreadIDs /\ nextThread \in 0..MaxThreadID
        /\ nextPost' \in 1..(MaxPostID + 1)
        /\ nextThread' \in 1..(MaxThreadID + 1)
      BY <1>7, BoundsAssumption DEF InsertThread, PostIDs, ThreadIDs
  <2>2. posts' \in [PostIDs -> PostRow]
    <3>1. [state |-> "live", thread |-> nextThread, top |-> TRUE] \in PostRow
        BY <2>1 DEF PostRow, RowStates
    <3> QED BY <1>7, <3>1 DEF InsertThread
  <2>3. threads' \in [ThreadIDs -> ThreadRow]
    <3>1. PICK kind \in ThreadKinds :
              threads' = [threads EXCEPT ![nextThread] =
                            [state |-> "live", cyclic |-> kind.cyclic, stickied |-> kind.stickied,
                             locked |-> kind.locked, bump |-> nextPost]]
        BY <1>7 DEF InsertThread
    <3>2. [state |-> "live", cyclic |-> kind.cyclic, stickied |-> kind.stickied,
           locked |-> kind.locked, bump |-> nextPost] \in ThreadRow
        BY <2>1, KindsAssumption DEF ThreadRow, RowStates
    <3> QED BY <3>1, <3>2
  <2>4. req' \in [Requests -> Locals]
    <3>1. [req[r] EXCEPT !.post = nextPost] \in Locals
        BY <1>r, <2>1 DEF Locals
    <3> QED BY <1>7, <3>1 DEF InsertThread
  <2>5. pc' \in [Requests -> Steps]
      BY <1>7 DEF InsertThread, Goto, Steps
  <2>6. UploadNamed'
      BY <1>7, <1>r DEF InsertThread, Goto, UploadNamed, Locals
  <2> QED BY <1>7, <2>1, <2>2, <2>3, <2>4, <2>5, <2>6 DEF InsertThread
<1>8. CASE InsertPostFails(r)
  <2>1. Finish(r)
      BY <1>8 DEF InsertPostFails
  <2> QED BY <1>8, <2>1, FinishType DEF InsertPostFails
<1>9. CASE AttachFile(r)
  <2>1. req[r].upload \in FilenameColumn
      BY <1>r DEF Locals, FilenameColumn
  <2>2. files' \in [PostIDs -> FilenameColumn]
      BY <1>9, <2>1 DEF AttachFile
  <2>3. PICK next \in {"cyclic", "chown"} : Goto(r, next)
      BY <1>9 DEF AttachFile
  <2>4. pc' \in [Requests -> Steps]
      BY <2>3 DEF Goto, Steps
  <2>5. UploadNamed'
      BY <1>9, <2>3 DEF AttachFile, At, Goto, UploadNamed
  <2> QED BY <1>9, <2>2, <2>4, <2>5 DEF AttachFile
<1>10. CASE AttachFileFails(r)
  <2>1. posts' \in [PostIDs -> PostRow]
      BY <1>10, MarkedPostsType DEF AttachFileFails, PostsAfterDelete
  <2>2. owed' \subseteq PostIDs
      BY <1>10, OwingType DEF AttachFileFails
  <2>3. Finish(r)
      BY <1>10 DEF AttachFileFails
  <2> QED BY <1>10, <2>1, <2>2, <2>3, FinishType DEF AttachFileFails
<1>11. CASE TakeOwnershipFails(r)
  <2>1. posts' \in [PostIDs -> PostRow]
      BY <1>11, MarkedPostsType DEF TakeOwnershipFails, PostsAfterDelete
  <2>2. pc' \in [Requests -> Steps]
      BY <1>11 DEF TakeOwnershipFails, Goto, Steps
  <2>3. UploadNamed'
      BY <1>11 DEF TakeOwnershipFails, Goto, UploadNamed
  <2> QED BY <1>11, <2>1, <2>2, <2>3 DEF TakeOwnershipFails
<1>12. CASE CyclicCheck(r)
  <2> DEFINE overflow == IF req[r].thread # 0 /\ threads[req[r].thread].cyclic
                         THEN CyclicOverflow(req[r].thread) ELSE {}
             names == [p \in PostIDs |-> IF p \in overflow THEN files[p] ELSE NoUpload]
  <2>1. overflow \subseteq PostIDs
      BY DEF CyclicOverflow, LiveReplies, PostsIn
  <2>2. names \in [PostIDs -> FilenameColumn]
      BY DEF FilenameColumn
  <2>3. CASE overflow = {}
    <3>1. GotoBuild(r)
        BY <1>12, <2>3 DEF CyclicCheck
    <3> QED BY <1>12, <3>1, GotoBuildType DEF CyclicCheck
  <2>4. CASE overflow # {}
    <3>1. req' = [req EXCEPT ![r].todo = overflow, ![r].names = names] /\ Goto(r, "prune")
        BY <1>12, <2>4 DEF CyclicCheck
    <3> HIDE DEF overflow, names
    <3>2. [req[r] EXCEPT !.todo = overflow, !.names = names] \in Locals
        BY <1>r, <2>1, <2>2 DEF Locals
    <3>3. req' \in [Requests -> Locals]
        BY <3>1, <3>2
    <3>4. pc' \in [Requests -> Steps]
        BY <3>1 DEF Goto, Steps
    <3>5. UploadNamed'
        BY <3>1 DEF Goto, UploadNamed
    <3> QED BY <1>12, <3>3, <3>4, <3>5 DEF CyclicCheck
  <2> QED BY <2>3, <2>4
<1>13. CASE CyclicCheckPanics(r)
  <2>1. Finish(r)
      BY <1>13 DEF CyclicCheckPanics
  <2> QED BY <1>13, <2>1, FinishType DEF CyclicCheckPanics
<1>14. CASE PrunePost(r)
  <2>1. posts' \in [PostIDs -> PostRow]
      BY <1>14, MarkedPostsType DEF PrunePost
  <2>2. pc' \in [Requests -> Steps]
      BY <1>14 DEF PrunePost, Goto, Steps
  <2>3. UploadNamed'
      BY <1>14 DEF PrunePost, Goto, UploadNamed
  <2> QED BY <1>14, <2>1, <2>2, <2>3 DEF PrunePost
<1>15. CASE PruneFile(r)
  <2> DEFINE rest == req[r].todo \ {NextToPrune(r)}
  <2>1. src' \subseteq Filenames /\ thumb' \subseteq Filenames
      BY <1>15 DEF PruneFile
  <2>2. CASE rest = {}
    <3>1. GotoBuild(r)
        BY <1>15, <2>2 DEF PruneFile
    <3> QED BY <1>15, <2>1, <3>1, GotoBuildType DEF PruneFile
  <2>3. CASE rest # {}
    <3>1. Goto(r, "prune") /\ req' = [req EXCEPT ![r].todo = rest]
        BY <1>15, <2>3 DEF PruneFile
    <3>2. rest \in SUBSET PostIDs
        BY <1>r DEF Locals
    <3> HIDE DEF rest
    <3>3. [req[r] EXCEPT !.todo = rest] \in Locals
        BY <1>r, <3>2 DEF Locals
    <3>4. req' \in [Requests -> Locals]
        BY <3>1, <3>3
    <3>5. pc' \in [Requests -> Steps]
        BY <3>1 DEF Goto, Steps
    <3>6. UploadNamed'
        BY <3>1 DEF Goto, UploadNamed
    <3> QED BY <1>15, <2>1, <3>4, <3>5, <3>6 DEF PruneFile
  <2> QED BY <2>2, <2>3
<1> QED BY <1>1, <1>2, <1>3, <1>4, <1>5, <1>6, <1>7, <1>8, <1>9, <1>10, <1>11, <1>12, <1>13,
           <1>14, <1>15 DEF MakePostNext

\* A request takes one post off the rest of its list and stays where it is.
LEMMA ShrinkTodoType ==
    ASSUME TypeInv, NEW r \in Requests, NEW p, NEW failed \in BOOLEAN, UNCHANGED pc,
           req' \in {[req EXCEPT ![r].todo = @ \ {p}],
                     [req EXCEPT ![r].todo = @ \ {p}, ![r].failed = failed]}
    PROVE  /\ req' \in [Requests -> Locals]
           /\ UploadNamed'
<1>1. req[r] \in Locals
    BY DEF TypeInv, TypeOK
<1>2. /\ [req[r] EXCEPT !.todo = @ \ {p}] \in Locals
      /\ [req[r] EXCEPT !.todo = @ \ {p}, !.failed = failed] \in Locals
    BY <1>1 DEF Locals
<1>3. req' \in [Requests -> Locals]
    BY <1>2 DEF TypeInv, TypeOK
<1>4. ASSUME NEW q \in Requests
      PROVE  req'[q].upload = req[q].upload
  <2>1. CASE req' = [req EXCEPT ![r].todo = @ \ {p}]
      BY <2>1, <1>1 DEF TypeInv, TypeOK, Locals
  <2>2. CASE req' = [req EXCEPT ![r].todo = @ \ {p}, ![r].failed = failed]
      BY <2>2, <1>1 DEF TypeInv, TypeOK, Locals
  <2> QED BY <2>1, <2>2
<1>5. UploadNamed'
    BY <1>4 DEF TypeInv, UploadNamed
<1> QED BY <1>3, <1>5

\* cmd/gochan/deleteposts.go keeps the types.
LEMMA DeletePostsType ==
    ASSUME TypeInv, NEW r \in Requests, DeletePostsNext(r)
    PROVE  TypeInv'
<1> USE DEF TypeInv, TypeOK, tables, disk, history
<1>r. req[r] \in Locals
    OBVIOUS
<1>1. CASE StartDelete(r)
  <2>1. PICK p \in PostIDs, fileOnly \in BOOLEAN :
            LET list == IF fileOnly THEN {p} ELSE PostsToDelete(p)
            IN  /\ req' = [req EXCEPT ![r].fileOnly = fileOnly, ![r].list = list, ![r].todo = list,
                                      ![r].names = [q \in PostIDs |-> IF q \in list THEN files[q] ELSE NoUpload]]
                /\ asked' = asked \cup list
      BY <1>1 DEF StartDelete
  <2> DEFINE list == IF fileOnly THEN {p} ELSE PostsToDelete(p)
             names == [q \in PostIDs |-> IF q \in list THEN files[q] ELSE NoUpload]
  <2>2. list \in SUBSET PostIDs
      BY DEF PostsToDelete, PostsIn
  <2>3. names \in [PostIDs -> FilenameColumn]
      BY DEF FilenameColumn
  <2>4. req' = [req EXCEPT ![r].fileOnly = fileOnly, ![r].list = list, ![r].todo = list, ![r].names = names]
      BY <2>1
  <2>5. asked' \subseteq PostIDs
      BY <2>1, <2>2
  <2> HIDE DEF list, names
  <2>6. [req[r] EXCEPT !.fileOnly = fileOnly, !.list = list, !.todo = list, !.names = names] \in Locals
      BY <1>r, <2>2, <2>3 DEF Locals
  <2>7. req' \in [Requests -> Locals]
      BY <2>4, <2>6
  <2>8. pc' \in [Requests -> Steps]
      BY <1>1 DEF StartDelete, Goto, Steps
  <2>9. UploadNamed'
      BY <1>1, <2>4 DEF StartDelete, Goto, UploadNamed
  <2> QED BY <1>1, <2>5, <2>7, <2>8, <2>9 DEF StartDelete
<1>2. CASE RemoveFiles(r)
  <2>1. PICK p \in req[r].todo : req' = [req EXCEPT ![r].todo = @ \ {p}]
      BY <1>2 DEF RemoveFiles
  <2>2. src' \subseteq Filenames /\ thumb' \subseteq Filenames /\ pages' \subseteq PostIDs
      BY <1>2 DEF RemoveFiles
  <2>3. UNCHANGED pc
      BY <1>2 DEF RemoveFiles
  <2>4. req' \in [Requests -> Locals] /\ UploadNamed'
      BY <2>1, <2>3, ShrinkTodoType
  <2> QED BY <1>2, <2>2, <2>4 DEF RemoveFiles
<1>3. CASE RemoveFilesFails(r)
  <2>1. PICK p \in req[r].todo, failed \in BOOLEAN :
            req' = [req EXCEPT ![r].todo = @ \ {p}, ![r].failed = failed]
    <3>1. PICK p \in req[r].todo, stays \in {"upload", "thumbnail"} :
              LET name == req[r].names[p]
                  delThread == posts[p].top /\ ~req[r].fileOnly
                  hidden == \/ delThread /\ p \notin pages
                            \/ stays = "upload" /\ name \notin thumb
              IN  req' = [req EXCEPT ![r].todo = @ \ {p}, ![r].failed = @ \/ ~hidden]
        BY <1>3 DEF RemoveFilesFails
    <3> DEFINE hidden == \/ posts[p].top /\ ~req[r].fileOnly /\ p \notin pages
                         \/ stays = "upload" /\ req[r].names[p] \notin thumb
               failed == req[r].failed \/ ~hidden
    <3>2. failed \in BOOLEAN
        OBVIOUS
    <3>3. req' = [req EXCEPT ![r].todo = @ \ {p}, ![r].failed = failed]
        BY <3>1, Zenon
    <3> QED BY <3>2, <3>3
  <2>2. src' \subseteq Filenames /\ thumb' \subseteq Filenames /\ pages' \subseteq PostIDs
      BY <1>3 DEF RemoveFilesFails
  <2>3. UNCHANGED pc
      BY <1>3 DEF RemoveFilesFails
  <2>4. req' \in [Requests -> Locals] /\ UploadNamed'
      BY <2>1, <2>3, ShrinkTodoType
  <2> QED BY <1>3, <2>2, <2>4 DEF RemoveFilesFails
<1>4. CASE FilesRemoved(r)
  <2>1. CASE Finish(r)
      BY <1>4, <2>1, FinishType DEF FilesRemoved
  <2>2. CASE Goto(r, "deleteRows") /\ UNCHANGED req
    <3>1. pc' \in [Requests -> Steps]
        BY <2>2 DEF Goto, Steps
    <3>2. UploadNamed'
        BY <2>2 DEF Goto, UploadNamed
    <3> QED BY <1>4, <2>2, <3>1, <3>2 DEF FilesRemoved
  <2> QED BY <1>4, <2>1, <2>2 DEF FilesRemoved
<1>5. CASE DeleteRows(r)
  <2>1. files' \in [PostIDs -> FilenameColumn]
      BY <1>5 DEF DeleteRows, FilenameColumn
  <2>2. CASE GotoBuild(r)
      BY <1>5, <2>1, <2>2, GotoBuildType DEF DeleteRows
  <2>3. CASE Goto(r, "mark") /\ UNCHANGED req
    <3>1. pc' \in [Requests -> Steps]
        BY <2>3 DEF Goto, Steps
    <3>2. UploadNamed'
        BY <2>3 DEF Goto, UploadNamed
    <3> QED BY <1>5, <2>1, <2>3, <3>1, <3>2 DEF DeleteRows
  <2> QED BY <1>5, <2>2, <2>3 DEF DeleteRows
<1>6. CASE MarkPostsAsDeleted(r)
  <2>1. posts' \in [PostIDs -> PostRow] /\ threads' \in [ThreadIDs -> ThreadRow]
      BY <1>6, MarkedPostsType, MarkedThreadsType DEF MarkPostsAsDeleted
  <2>2. GotoBuild(r)
      BY <1>6 DEF MarkPostsAsDeleted
  <2> QED BY <1>6, <2>1, <2>2, GotoBuildType DEF MarkPostsAsDeleted
<1> QED BY <1>1, <1>2, <1>3, <1>4, <1>5, <1>6 DEF DeletePostsNext

\* pkg/building/boards.go keeps the types.
LEMMA BuildBoardType ==
    ASSUME TypeInv, NEW r \in Requests, BuildBoardNext(r)
    PROVE  TypeInv'
<1> USE DEF TypeInv, TypeOK, tables, disk, history
<1>r. req[r] \in Locals
    OBVIOUS
<1>1. CASE SelectOldThreads(r)
  <2>1. TrimmedThreads \in SUBSET ThreadIDs
      BY DEF TrimmedThreads
  <2>2. [req[r] EXCEPT !.victims = TrimmedThreads] \in Locals
      BY <1>r, <2>1 DEF Locals
  <2>3. req' \in [Requests -> Locals]
      BY <1>1, <2>2 DEF SelectOldThreads
  <2>4. pc' \in [Requests -> Steps]
      BY <1>1 DEF SelectOldThreads, Goto, Steps
  <2>5. UploadNamed'
      BY <1>1 DEF SelectOldThreads, Goto, UploadNamed
  <2> QED BY <1>1, <2>3, <2>4, <2>5 DEF SelectOldThreads
<1>2. CASE DeleteOldThreads(r)
  <2>1. posts' \in [PostIDs -> PostRow] /\ threads' \in [ThreadIDs -> ThreadRow]
      BY <1>2, MarkedPostsType, MarkedThreadsType DEF DeleteOldThreads
  <2>2. PostsIn(req[r].victims) \in SUBSET PostIDs
      BY DEF PostsIn
  <2>3. [req[r] EXCEPT !.todo = PostsIn(req[r].victims)] \in Locals
      BY <1>r, <2>2 DEF Locals
  <2>4. req' \in [Requests -> Locals]
      BY <1>2, <2>3 DEF DeleteOldThreads
  <2>5. pc' \in [Requests -> Steps]
      BY <1>2 DEF DeleteOldThreads, Goto, Steps
  <2>6. UploadNamed'
      BY <1>2 DEF DeleteOldThreads, Goto, UploadNamed
  <2> QED BY <1>2, <2>1, <2>4, <2>5, <2>6 DEF DeleteOldThreads
<1>3. CASE CleanPost(r)
  <2>1. PICK p \in req[r].todo : req' = [req EXCEPT ![r].todo = @ \ {p}]
      BY <1>3 DEF CleanPost
  <2>2. /\ src' \subseteq Filenames /\ thumb' \subseteq Filenames /\ pages' \subseteq PostIDs
        /\ files' \in [PostIDs -> FilenameColumn]
      BY <1>3 DEF CleanPost, FilenameColumn
  <2>3. UNCHANGED pc
      BY <1>3 DEF CleanPost
  <2>4. req' \in [Requests -> Locals] /\ UploadNamed'
      BY <2>1, <2>3, ShrinkTodoType
  <2> QED BY <1>3, <2>2, <2>4 DEF CleanPost
<1>4. CASE CleanPostFails(r)
  <2>1. /\ src' \subseteq Filenames /\ thumb' \subseteq Filenames
        /\ files' \in [PostIDs -> FilenameColumn]
      BY <1>4 DEF CleanPostFails, FilenameColumn
  <2>2. Finish(r)
      BY <1>4 DEF CleanPostFails
  <2> QED BY <1>4, <2>1, <2>2, FinishType DEF CleanPostFails
<1>5. CASE PostsCleaned(r)
  <2>1. pc' \in [Requests -> Steps]
      BY <1>5 DEF PostsCleaned, Goto, Steps
  <2>2. UploadNamed'
      BY <1>5 DEF PostsCleaned, Goto, UploadNamed
  <2> QED BY <1>5, <2>1, <2>2 DEF PostsCleaned
<1>6. CASE SelectTopPosts(r)
  <2>1. BoardTopPosts \in SUBSET PostIDs
      BY DEF BoardTopPosts
  <2>2. [req[r] EXCEPT !.todo = BoardTopPosts] \in Locals
      BY <1>r, <2>1 DEF Locals
  <2>3. req' \in [Requests -> Locals]
      BY <1>6, <2>2 DEF SelectTopPosts
  <2>4. pc' \in [Requests -> Steps]
      BY <1>6 DEF SelectTopPosts, Goto, Steps
  <2>5. UploadNamed'
      BY <1>6 DEF SelectTopPosts, Goto, UploadNamed
  <2> QED BY <1>6, <2>3, <2>4, <2>5 DEF SelectTopPosts
<1>7. CASE BuildThreadPages(r)
  <2>1. PICK op \in req[r].todo : pages' = pages \cup {op} /\ req' = [req EXCEPT ![r].todo = @ \ {op}]
      BY <1>7 DEF BuildThreadPages
  <2>2. pages' \subseteq PostIDs
      BY <1>r, <2>1 DEF Locals
  <2>3. UNCHANGED pc
      BY <1>7 DEF BuildThreadPages
  <2>4. req' \in [Requests -> Locals] /\ UploadNamed'
      BY <2>1, <2>3, ShrinkTodoType
  <2> QED BY <1>7, <2>2, <2>4 DEF BuildThreadPages
<1>8. CASE BuildThreadPagesPanics(r)
  <2>1. pages' \subseteq PostIDs
      BY <1>8, <1>r DEF BuildThreadPagesPanics, Locals
  <2>2. Die
      BY <1>8 DEF BuildThreadPagesPanics
  <2> QED BY <1>8, <2>1, <2>2, DieType DEF BuildThreadPagesPanics
<1>9. CASE BoardBuilt(r)
  <2>1. Finish(r)
      BY <1>9 DEF BoardBuilt
  <2> QED BY <1>9, <2>1, FinishType DEF BoardBuilt
<1> QED BY <1>1, <1>2, <1>3, <1>4, <1>5, <1>6, <1>7, <1>8, <1>9 DEF BuildBoardNext

\* The step of a whole board keeps the types.
LEMMA TypeInvInductive ==
    TypeInv /\ [Next]_vars => TypeInv'
<1> SUFFICES ASSUME TypeInv, [Next]_vars
             PROVE  TypeInv'
    OBVIOUS
<1>1. CASE \E r \in Requests : RequestNext(r)
  <2>1. PICK r \in Requests : RequestNext(r)
      BY <1>1
  <2>2. CASE QueryFails(r)
    <3>1. owed' \subseteq PostIDs
        BY <2>2, OwingType DEF QueryFails, TypeInv, TypeOK
    <3>2. Finish(r)
        BY <2>2 DEF QueryFails
    <3> QED BY <2>2, <3>1, <3>2, FinishType DEF QueryFails, TypeInv, TypeOK, tables, disk
  <2> QED BY <2>1, <2>2, MakePostType, DeletePostsType, BuildBoardType DEF RequestNext
<1>2. CASE Crash
    BY <1>2, DieType DEF Crash, TypeInv, TypeOK, tables, disk
<1>3. CASE Startup
  <2>1. posts' \in [PostIDs -> PostRow] /\ threads' \in [ThreadIDs -> ThreadRow]
      BY <1>3, MarkedPostsType, MarkedThreadsType DEF Startup, TypeInv, TypeOK
  <2> QED BY <1>3, <2>1 DEF Startup, TypeInv, TypeOK, UploadNamed, disk, history
<1>4. CASE UNCHANGED vars
    BY <1>4 DEF vars, tables, disk, history, TypeInv, TypeOK, UploadNamed
<1> QED BY <1>1, <1>2, <1>3, <1>4 DEF Next

\* The initial tables are empty and well-typed.
LEMMA TypeInvInit == Init => TypeInv
<1> SUFFICES ASSUME Init PROVE TypeInv
    OBVIOUS
<1>1. NoThread \in ThreadRow /\ NoPost \in PostRow
    BY BoundsAssumption DEF NoThread, NoPost, ThreadRow, PostRow, RowStates
<1>2. 1 \in 1..(MaxThreadID + 1) /\ 1 \in 1..(MaxPostID + 1)
    BY BoundsAssumption
<1>3. UploadNamed
    BY DEF Init, UploadNamed
<1> QED BY <1>1, <1>2, <1>3, NoLocalsType DEF Init, TypeInv, TypeOK, FilenameColumn, Steps

\* Type correctness, with the strengthening it needs.
LEMMA TypeInvCorrect == Spec => []TypeInv
BY TypeInvInit, TypeInvInductive, PTL DEF Spec

\* The tables, the disk and the requests keep their types whatever requests arrive and
\* whatever fails: in particular nothing a request rejects, loses or leaves behind has no name.
THEOREM TypeCorrect == Spec => []TypeOK
<1>1. TypeInv => TypeOK
    BY DEF TypeInv
<1> QED BY <1>1, TypeInvCorrect, PTL

-----------------------------------------------------------------------------
(* OPs and threads.  OPAndThreadAgree is not inductive: that it survives an   *)
(* UPDATE depends on which rows the request that runs it may still name.      *)

\* Only ids below the AUTO_INCREMENT of posts have rows.
RowsBelowNext == \A p \in PostIDs : posts[p].state # "none" => p < nextPost

\* An OP has a row, and so has its thread.
OPsHaveThreads ==
    \A p \in PostIDs : posts[p].top => /\ posts[p].state # "none"
                                       /\ posts[p].thread \in 1..(nextThread - 1)

\* No two OPs share a thread.
OneOPPerThread ==
    \A p, q \in PostIDs :
       posts[p].top /\ posts[q].top /\ posts[p].thread = posts[q].thread => p = q

\* A request names posts that have been inserted, also when their rows changed since.
LocalsHaveRows ==
    \A r \in Requests : req[r].post < nextPost /\ \A p \in req[r].list : p < nextPost

\* The loop over the replies of a cyclic thread has one left, and never meets an OP.
PrunesReplies ==
    \A r \in Requests : pc[r] \in {"prune", "pruneFile"} =>
       req[r].todo # {} /\ \A p \in req[r].todo : p < nextPost /\ ~posts[p].top


\* The inductive invariant: the part about the tables, and the part about the requests.
RowsInv == RowsBelowNext /\ OPsHaveThreads /\ OneOPPerThread /\ OPAndThreadAgree
ControlInv == LocalsHaveRows /\ PrunesReplies

IInv == TypeInv /\ RowsInv /\ ControlInv

\* What a step of request r does to the rows and requests it is not about.
TopsKept == /\ nextPost' >= nextPost
            /\ \A p \in PostIDs : p < nextPost => posts'[p].top = posts[p].top
OthersKept(r) == \A q \in Requests \ {r} : pc'[q] = pc[q] /\ req'[q] = req[q]

\* The tables of posts and threads are left alone.
LEMMA RowsUnchanged ==
    ASSUME IInv, UNCHANGED <<threads, posts, nextThread, nextPost>>
    PROVE  RowsInv' /\ TopsKept
<1>1. RowsBelowNext' /\ OPsHaveThreads' /\ OneOPPerThread' /\ OPAndThreadAgree'
    BY DEF IInv, RowsInv, RowsBelowNext, OPsHaveThreads, OneOPPerThread, OPAndThreadAgree
<1>2. TopsKept
    BY DEF IInv, TypeInv, TypeOK, TopsKept
<1> QED BY <1>1, <1>2 DEF RowsInv

\* Posts and threads are set as deleted, an OP exactly when its thread is.
LEMMA RowsMarked ==
    ASSUME IInv, NEW P, NEW T,
           posts' = PostsMarkedDeleted(P),
           threads' = ThreadsMarkedDeleted(T),
           UNCHANGED <<nextThread, nextPost>>,
           \A p \in PostIDs : p \in P => p < nextPost,
           \A p \in PostIDs : posts[p].top => (p \in P <=> posts[p].thread \in T)
    PROVE  RowsInv' /\ TopsKept
<1> USE DEF IInv, TypeInv, TypeOK, RowsInv
<1>1. ASSUME NEW p \in PostIDs
      PROVE  /\ posts'[p].top = posts[p].top
             /\ posts'[p].thread = posts[p].thread
             /\ posts'[p].state = IF p \in P THEN "deleted" ELSE posts[p].state
    BY <1>1 DEF PostsMarkedDeleted, PostRow
<1>2. ASSUME NEW t \in ThreadIDs
      PROVE  threads'[t].state = IF t \in T THEN "deleted" ELSE threads[t].state
    BY <1>2 DEF ThreadsMarkedDeleted, ThreadRow
<1>3. RowsBelowNext'
    BY <1>1 DEF RowsBelowNext
<1>4. OPsHaveThreads'
    BY <1>1 DEF OPsHaveThreads
<1>5. OneOPPerThread'
    BY <1>1 DEF OneOPPerThread
<1>6. ASSUME NEW p \in PostIDs, posts'[p].top
      PROVE  posts'[p].state = threads'[posts'[p].thread].state
  <2>1. posts[p].top /\ posts'[p].thread = posts[p].thread
      BY <1>1, <1>6
  <2>2. posts[p].thread \in ThreadIDs
      BY <2>1, BoundsAssumption DEF OPsHaveThreads, ThreadIDs
  <2>3. posts[p].state = threads[posts[p].thread].state
      BY <2>1 DEF OPAndThreadAgree
  <2>4. p \in P <=> posts[p].thread \in T
      BY <2>1
  <2> QED BY <2>1, <2>2, <2>3, <2>4, <1>1, <1>2
<1>7. OPAndThreadAgree'
    BY <1>6 DEF OPAndThreadAgree
<1>8. TopsKept
    BY <1>1 DEF TopsKept
<1> QED BY <1>3, <1>4, <1>5, <1>7, <1>8

\* A reply is set as deleted.
LEMMA RowsReplyMarked ==
    ASSUME IInv, NEW p, p < nextPost, p \in PostIDs => ~posts[p].top,
           posts' = PostsMarkedDeleted({p}),
           UNCHANGED <<threads, nextThread, nextPost>>
    PROVE  RowsInv' /\ TopsKept
<1>1. threads' = ThreadsMarkedDeleted({})
    BY DEF IInv, TypeInv, TypeOK, ThreadsMarkedDeleted
<1> QED BY <1>1, RowsMarked

\* Post.Delete, as the clean-up of a failed upload calls it: a reply is deleted, an OP stays.
LEMMA RowsAfterDelete ==
    ASSUME IInv, NEW r \in Requests,
           posts' = PostsAfterDelete(req[r].post),
           UNCHANGED <<threads, nextThread, nextPost>>
    PROVE  RowsInv' /\ TopsKept
<1>1. req[r].post < nextPost
    BY DEF IInv, ControlInv, LocalsHaveRows
<1>2. CASE posts[req[r].post].top
    BY <1>2, RowsUnchanged DEF PostsAfterDelete
<1>3. CASE ~posts[req[r].post].top
    BY <1>1, <1>3, RowsReplyMarked DEF PostsAfterDelete
<1> QED BY <1>2, <1>3

\* The posts of a set of threads are set as deleted together with the threads.
LEMMA RowsThreadsMarked ==
    ASSUME IInv, NEW T,
           posts' = PostsMarkedDeleted(PostsIn(T)),
           threads' = ThreadsMarkedDeleted(T),
           UNCHANGED <<nextThread, nextPost>>
    PROVE  RowsInv' /\ TopsKept
<1>1. \A p \in PostIDs : p \in PostsIn(T) => p < nextPost
    BY DEF IInv, RowsInv, RowsBelowNext, PostsIn
<1>2. \A p \in PostIDs : posts[p].top => (p \in PostsIn(T) <=> posts[p].thread \in T)
    BY DEF IInv, RowsInv, OPsHaveThreads, PostsIn
<1> QED BY <1>1, <1>2, RowsMarked

\* The part of the invariant about requests holds after a step of r when it holds for r.
LEMMA ControlKept ==
    ASSUME IInv, NEW r \in Requests, TopsKept, OthersKept(r), nextPost' \in Int,
           req'[r].post < nextPost',
           \A p \in req'[r].list : p < nextPost',
           pc'[r] \in {"prune", "pruneFile"} =>
              req'[r].todo # {} /\ \A p \in req'[r].todo : p < nextPost' /\ ~posts'[p].top
    PROVE  ControlInv'
<1> USE DEF IInv, TypeInv, TypeOK, ControlInv
<1>n. nextPost \in Int
    BY BoundsAssumption
<1>1. ASSUME NEW q \in Requests
      PROVE  req'[q].post < nextPost' /\ \A p \in req'[q].list : p < nextPost'
  <2>1. CASE q = r
      BY <2>1
  <2>2. CASE q # r
    <3>1. req'[q] = req[q]
        BY <2>2 DEF OthersKept
    <3>2. req[q] \in Locals
        OBVIOUS
    <3>3. req[q].post \in Int /\ req[q].list \subseteq Int
        BY <3>2, BoundsAssumption DEF Locals, PostIDs
    <3> QED BY <1>n, <3>1, <3>3 DEF LocalsHaveRows, TopsKept
  <2> QED BY <2>1, <2>2
<1>2. ASSUME NEW q \in Requests, pc'[q] \in {"prune", "pruneFile"}
      PROVE  req'[q].todo # {} /\ \A p \in req'[q].todo : p < nextPost' /\ ~posts'[p].top
  <2>1. CASE q = r
      BY <1>2, <2>1
  <2>2. CASE q # r
    <3>1. req'[q] = req[q] /\ pc'[q] = pc[q]
        BY <2>2 DEF OthersKept
    <3>2. req[q] \in Locals
        OBVIOUS
    <3>3. req[q].todo \subseteq PostIDs /\ PostIDs \subseteq Int
        BY <3>2, BoundsAssumption DEF Locals, PostIDs
    <3>4. req[q].todo # {} /\ \A p \in req[q].todo : p < nextPost /\ ~posts[p].top
        BY <1>2, <3>1 DEF PrunesReplies
    <3>5. ASSUME NEW p \in req[q].todo
          PROVE  p < nextPost' /\ ~posts'[p].top
      <4>1. p \in PostIDs /\ p \in Int /\ p < nextPost /\ ~posts[p].top
          BY <3>3, <3>4
      <4> QED BY <1>n, <4>1 DEF TopsKept
    <3> QED BY <3>1, <3>4, <3>5
  <2> QED BY <2>1, <2>2
<1> QED BY <1>1, <1>2 DEF LocalsHaveRows, PrunesReplies

\* ... when r returns ...
LEMMA ControlFinish ==
    ASSUME IInv, NEW r \in Requests, TopsKept, Finish(r), nextPost' \in 1..(MaxPostID + 1)
    PROVE  ControlInv'
<1>1. OthersKept(r) /\ pc'[r] = "idle" /\ req'[r] = NoLocals
    BY DEF IInv, TypeInv, TypeOK, Finish, OthersKept
<1>2. nextPost' \in Int /\ nextPost' > 0
    BY BoundsAssumption
<1> QED BY <1>1, <1>2, ControlKept DEF NoLocals

\* ... when r starts building ...
LEMMA ControlGotoBuild ==
    ASSUME IInv, NEW r \in Requests, TopsKept, GotoBuild(r), nextPost' = nextPost
    PROVE  ControlInv'
<1>1. OthersKept(r) /\ pc'[r] = "trim"
    BY DEF IInv, TypeInv, TypeOK, GotoBuild, Goto, OthersKept
<1>2. req'[r].post = req[r].post /\ req'[r].list = {}
    BY DEF IInv, TypeInv, TypeOK, GotoBuild, NoLocals
<1>3. nextPost' \in Int
    BY BoundsAssumption DEF IInv, TypeInv, TypeOK
<1>4. req[r].post < nextPost
    BY DEF IInv, ControlInv, LocalsHaveRows
<1> QED BY <1>1, <1>2, <1>3, <1>4, ControlKept

\* ... and when it goes to a step outside the loop over the replies.
LEMMA ControlGoto ==
    ASSUME IInv, NEW r \in Requests, TopsKept, OthersKept(r), nextPost' = nextPost,
           pc'[r] \notin {"prune", "pruneFile"},
           req'[r].post = req[r].post,
           req'[r].list = req[r].list
    PROVE  ControlInv'
<1>1. nextPost' \in Int
    BY BoundsAssumption DEF IInv, TypeInv, TypeOK
<1>2. req[r].post < nextPost /\ \A p \in req[r].list : p < nextPost
    BY DEF IInv, ControlInv, LocalsHaveRows
<1> QED BY <1>1, <1>2, ControlKept

\* Nothing is left of the requests of a process that died.
LEMMA ControlDie ==
    ASSUME IInv, TopsKept, Die, nextPost' = nextPost
    PROVE  ControlInv'
<1>1. nextPost' \in Int /\ nextPost' > 0
    BY BoundsAssumption DEF IInv, TypeInv, TypeOK
<1> QED BY <1>1 DEF Die, NoLocals, ControlInv, LocalsHaveRows, PrunesReplies

\* Of some numbers one is the least.
LEMMA LeastExists ==
    ASSUME NEW S \in SUBSET Nat, S # {}
    PROVE  \E m \in S : \A k \in S : m <= k
<1> DEFINE less == {ss \in Nat \X Nat : ss[1] < ss[2]}
<1>1. IsWellFoundedOn(less, Nat)
    BY NatLessThanWellFounded, Zenon DEF OpToRel
<1> HIDE DEF less
<1>2. PICK m \in S : \A k \in S : ~(<<k, m>> \in less)
    BY <1>1, WFMin
<1>3. ASSUME NEW k \in S
      PROVE  m <= k
  <2>1. m \in Nat /\ k \in Nat
      OBVIOUS
  <2>2. k < m => <<k, m>> \in less
      BY <2>1 DEF less
  <2>3. ~(k < m)
      BY <2>2, <1>2
  <2> QED BY <2>1, <2>3
<1> QED BY <1>3

\* The loop over the replies of a cyclic thread takes the first one that is left.
LEMMA NextToPruneInTodo ==
    ASSUME IInv, NEW r \in Requests, pc[r] \in {"prune", "pruneFile"}
    PROVE  /\ NextToPrune(r) \in req[r].todo
           /\ \A q \in req[r].todo : NextToPrune(r) <= q
<1>1. req[r].todo # {}
    BY DEF IInv, ControlInv, PrunesReplies
<1>2. req[r].todo \subseteq Nat
    BY BoundsAssumption DEF IInv, TypeInv, TypeOK, Locals, PostIDs
<1>3. \E p \in req[r].todo : \A q \in req[r].todo : p <= q
    BY <1>1, <1>2, LeastExists
<1> QED BY <1>3 DEF NextToPrune

-----------------------------------------------------------------------------
(* Every action keeps IInv. *)

\* pkg/posting/post.go keeps IInv.
LEMMA MakePostInv ==
    ASSUME IInv, NEW r \in Requests, MakePostNext(r)
    PROVE  IInv'
<1> USE DEF tables, disk, history
<1>t. TypeInv'
    BY MakePostType DEF IInv
<1>r. /\ req \in [Requests -> Locals] /\ pc \in [Requests -> Steps]
      /\ posts \in [PostIDs -> PostRow] /\ threads \in [ThreadIDs -> ThreadRow]
      /\ nextPost \in 1..(MaxPostID + 1) /\ nextThread \in 1..(MaxThreadID + 1)
      /\ nextPost' \in 1..(MaxPostID + 1)
    BY <1>t DEF IInv, TypeInv, TypeOK
<1>i. nextPost \in Int /\ nextThread \in Int /\ nextPost' \in Int
    BY <1>r, BoundsAssumption
<1> SUFFICES RowsInv' /\ ControlInv'
    BY <1>t DEF IInv
<1>1. CASE StartPost(r) \/ SaveUpload(r) \/ PassFilter(r) \/ AttachFile(r)
  <2>1. UNCHANGED <<threads, posts, nextThread, nextPost>>
      BY <1>1 DEF StartPost, SaveUpload, PassFilter, AttachFile
  <2>2. /\ OthersKept(r)
        /\ pc'[r] \notin {"prune", "pruneFile"}
        /\ req'[r].post = req[r].post
        /\ req'[r].list = req[r].list
    <3>1. CASE StartPost(r)
        BY <3>1, <1>r DEF StartPost, Goto, OthersKept, Locals
    <3>2. CASE SaveUpload(r)
        BY <3>2, <1>r DEF SaveUpload, Goto, OthersKept, Locals
    <3>3. CASE PassFilter(r)
        BY <3>3, <1>r DEF PassFilter, Goto, OthersKept
    <3>4. CASE AttachFile(r)
        BY <3>4, <1>r DEF AttachFile, Goto, OthersKept
    <3> QED BY <1>1, <3>1, <3>2, <3>3, <3>4
  <2> QED BY <2>1, <2>2, RowsUnchanged, ControlGoto
<1>2. CASE \/ SaveUploadFails(r) \/ RejectByFilter(r) \/ FilteringFails(r)
           \/ InsertPostFails(r) \/ CyclicCheckPanics(r)
  <2>1. UNCHANGED <<threads, posts, nextThread, nextPost>> /\ Finish(r)
      BY <1>2 DEF SaveUploadFails, RejectByFilter, FilteringFails, InsertPostFails, CyclicCheckPanics
  <2> QED BY <2>1, <1>r, RowsUnchanged, ControlFinish
<1>3. CASE InsertReply(r)
  <2> USE DEF IInv, RowsInv
  <2>1. ASSUME NEW p \in PostIDs
        PROVE  posts'[p] = IF p = nextPost
                           THEN [state |-> "live", thread |-> req[r].thread, top |-> FALSE]
                           ELSE posts[p]
      BY <1>3, <1>r DEF InsertReply
  <2>2. nextPost' = nextPost + 1 /\ UNCHANGED nextThread
      BY <1>3 DEF InsertReply
  <2>3. ASSUME NEW t \in ThreadIDs
        PROVE  threads'[t].state = threads[t].state
    <3>1. PICK bump : threads' = [threads EXCEPT ![req[r].thread].bump = bump]
        BY <1>3 DEF InsertReply
    <3> QED BY <3>1, <1>r DEF ThreadRow
  <2>4. RowsBelowNext'
      BY <2>1, <2>2, <1>i, BoundsAssumption DEF RowsBelowNext, PostIDs
  <2>5. OPsHaveThreads'
      BY <2>1, <2>2 DEF OPsHaveThreads
  <2>6. OneOPPerThread'
      BY <2>1 DEF OneOPPerThread
  <2>7. OPAndThreadAgree'
    <3> SUFFICES ASSUME NEW p \in PostIDs, posts'[p].top
                 PROVE  posts'[p].state = threads'[posts'[p].thread].state
        BY DEF OPAndThreadAgree
    <3>1. posts'[p] = posts[p]
        BY <2>1
    <3>2. posts[p].thread \in ThreadIDs
        BY <3>1, <1>r, BoundsAssumption DEF OPsHaveThreads, ThreadIDs
    <3> QED BY <3>1, <3>2, <2>3 DEF OPAndThreadAgree
  <2>8. TopsKept
      BY <2>1, <2>2, <1>i, BoundsAssumption DEF TopsKept, PostIDs
  <2>9. /\ OthersKept(r)
        /\ pc'[r] \notin {"prune", "pruneFile"}
        /\ req'[r].post = nextPost
        /\ req'[r].list = req[r].list
      BY <1>3, <1>r DEF InsertReply, Goto, OthersKept, Locals
  <2>10. \A p \in req[r].list : p < nextPost'
    <3>1. req[r].list \subseteq Int
        BY <1>r, BoundsAssumption DEF Locals, PostIDs
    <3> QED BY <3>1, <2>2, <1>i DEF ControlInv, LocalsHaveRows
  <2>11. ControlInv'
      BY <1>i, <2>2, <2>8, <2>9, <2>10, ControlKept
  <2> QED BY <2>4, <2>5, <2>6, <2>7, <2>11
<1>4. CASE InsertThread(r)
  <2> USE DEF IInv, RowsInv
  <2>1. ASSUME NEW p \in PostIDs
        PROVE  posts'[p] = IF p = nextPost
                           THEN [state |-> "live", thread |-> nextThread, top |-> TRUE]
                           ELSE posts[p]
      BY <1>4, <1>r DEF InsertThread
  <2>2. nextPost' = nextPost + 1 /\ nextThread' = nextThread + 1
      BY <1>4 DEF InsertThread
  <2>3. ASSUME NEW t \in ThreadIDs
        PROVE  threads'[t].state = IF t = nextThread THEN "live" ELSE threads[t].state
    <3>1. PICK kind \in ThreadKinds :
              threads' = [threads EXCEPT ![nextThread] =
                            [state |-> "live", cyclic |-> kind.cyclic, stickied |-> kind.stickied,
                             locked |-> kind.locked, bump |-> nextPost]]
        BY <1>4 DEF InsertThread
    <3> QED BY <3>1, <1>r
  <2>4. RowsBelowNext'
      BY <2>1, <2>2, <1>i, BoundsAssumption DEF RowsBelowNext, PostIDs
  <2>5. OPsHaveThreads'
    <3> SUFFICES ASSUME NEW p \in PostIDs, posts'[p].top
                 PROVE  posts'[p].state # "none" /\ posts'[p].thread \in 1..(nextThread' - 1)
        BY DEF OPsHaveThreads
    <3>1. CASE p = nextPost
        BY <3>1, <2>1, <2>2, <1>r, BoundsAssumption
    <3>2. CASE p # nextPost
        BY <3>2, <2>1, <2>2, <1>i DEF OPsHaveThreads
    <3> QED BY <3>1, <3>2
  <2>6. OneOPPerThread'
    <3>1. \A p \in PostIDs : posts[p].top => posts[p].thread # nextThread
        BY <1>i DEF OPsHaveThreads
    <3> QED BY <3>1, <2>1 DEF OneOPPerThread
  <2>7. OPAndThreadAgree'
    <3> SUFFICES ASSUME NEW p \in PostIDs, posts'[p].top
                 PROVE  posts'[p].state = threads'[posts'[p].thread].state
        BY DEF OPAndThreadAgree
    <3>1. CASE p = nextPost
      <4>1. nextThread \in ThreadIDs
          BY <1>4, <1>r, BoundsAssumption DEF InsertThread, ThreadIDs
      <4> QED BY <3>1, <4>1, <2>1, <2>3
    <3>2. CASE p # nextPost
      <4>1. posts'[p] = posts[p]
          BY <2>1, <3>2
      <4>2. posts[p].thread \in ThreadIDs /\ posts[p].thread # nextThread
          BY <4>1, <1>r, BoundsAssumption DEF OPsHaveThreads, ThreadIDs
      <4> QED BY <4>1, <4>2, <2>3 DEF OPAndThreadAgree
    <3> QED BY <3>1, <3>2
  <2>8. TopsKept
      BY <2>1, <2>2, <1>i, BoundsAssumption DEF TopsKept, PostIDs
  <2>9. /\ OthersKept(r)
        /\ pc'[r] \notin {"prune", "pruneFile"}
        /\ req'[r].post = nextPost
        /\ req'[r].list = req[r].list
      BY <1>4, <1>r DEF InsertThread, Goto, OthersKept, Locals
  <2>10. \A p \in req[r].list : p < nextPost'
    <3>1. req[r].list \subseteq Int
        BY <1>r, BoundsAssumption DEF Locals, PostIDs
    <3> QED BY <3>1, <2>2, <1>i DEF ControlInv, LocalsHaveRows
  <2>11. ControlInv'
      BY <1>i, <2>2, <2>8, <2>9, <2>10, ControlKept
  <2> QED BY <2>4, <2>5, <2>6, <2>7, <2>11
<1>5. CASE AttachFileFails(r)
  <2>1. /\ posts' = PostsAfterDelete(req[r].post)
        /\ UNCHANGED <<threads, nextThread, nextPost>>
        /\ Finish(r)
      BY <1>5 DEF AttachFileFails
  <2> QED BY <2>1, <1>r, RowsAfterDelete, ControlFinish
<1>6. CASE TakeOwnershipFails(r)
  <2>1. /\ posts' = PostsAfterDelete(req[r].post)
        /\ UNCHANGED <<threads, nextThread, nextPost>>
      BY <1>6 DEF TakeOwnershipFails
  <2>2. /\ OthersKept(r)
        /\ pc'[r] \notin {"prune", "pruneFile"}
        /\ req'[r].post = req[r].post
        /\ req'[r].list = req[r].list
      BY <1>6, <1>r DEF TakeOwnershipFails, Goto, OthersKept
  <2> QED BY <2>1, <2>2, RowsAfterDelete, ControlGoto
<1>7. CASE CyclicCheck(r)
  <2> DEFINE overflow == IF req[r].thread # 0 /\ threads[req[r].thread].cyclic
                         THEN CyclicOverflow(req[r].thread) ELSE {}
             names == [p \in PostIDs |-> IF p \in overflow THEN files[p] ELSE NoUpload]
  <2>1. UNCHANGED <<threads, posts, nextThread, nextPost>>
      BY <1>7 DEF CyclicCheck
  <2>2. RowsInv' /\ TopsKept
      BY <2>1, RowsUnchanged
  <2>3. CASE overflow = {}
    <3>1. GotoBuild(r)
        BY <1>7, <2>3 DEF CyclicCheck
    <3> QED BY <2>1, <2>2, <3>1, ControlGotoBuild
  <2>4. CASE overflow # {}
    <3>1. req' = [req EXCEPT ![r].todo = overflow, ![r].names = names] /\ Goto(r, "prune")
        BY <1>7, <2>4 DEF CyclicCheck
    <3>2. \A p \in overflow : p < nextPost /\ ~posts[p].top
        BY DEF CyclicOverflow, LiveReplies, PostsIn, IInv, RowsInv, RowsBelowNext
    <3> HIDE DEF overflow, names
    <3>3. /\ OthersKept(r)
          /\ req'[r].todo = overflow
          /\ req'[r].post = req[r].post
          /\ req'[r].list = req[r].list
        BY <3>1, <1>r DEF Goto, OthersKept, Locals
    <3>4. req[r].post < nextPost /\ \A p \in req[r].list : p < nextPost
        BY DEF IInv, ControlInv, LocalsHaveRows
    <3> QED BY <1>i, <2>1, <2>2, <2>4, <3>2, <3>3, <3>4, ControlKept
  <2> QED BY <2>3, <2>4
<1>8. CASE PrunePost(r)
  <2> DEFINE p == NextToPrune(r)
  <2>1. p \in req[r].todo
      BY <1>8, NextToPruneInTodo DEF PrunePost, At
  <2>2. p < nextPost /\ ~posts[p].top
      BY <1>8, <2>1 DEF PrunePost, At, IInv, ControlInv, PrunesReplies
  <2>3. posts' = PostsMarkedDeleted({p}) /\ UNCHANGED <<threads, nextThread, nextPost, req>>
      BY <1>8 DEF PrunePost
  <2>4. RowsInv' /\ TopsKept
      BY <2>2, <2>3, RowsReplyMarked
  <2>5. OthersKept(r)
      BY <1>8, <1>r DEF PrunePost, Goto, OthersKept
  <2>6. /\ req[r].post < nextPost
        /\ \A q \in req[r].list : q < nextPost
        /\ req[r].todo # {}
        /\ \A q \in req[r].todo : q < nextPost /\ ~posts[q].top
      BY <1>8 DEF PrunePost, At, IInv, ControlInv, LocalsHaveRows, PrunesReplies
  <2>7. \A q \in req[r].todo : ~posts'[q].top
      BY <2>4, <2>6, <1>r DEF TopsKept, Locals
  <2> QED BY <1>i, <2>3, <2>4, <2>5, <2>6, <2>7, ControlKept
<1>9. CASE PruneFile(r)
  <2> DEFINE rest == req[r].todo \ {NextToPrune(r)}
  <2>1. UNCHANGED <<threads, posts, nextThread, nextPost>>
      BY <1>9 DEF PruneFile
  <2>2. RowsInv' /\ TopsKept
      BY <2>1, RowsUnchanged
  <2>3. CASE rest = {}
    <3>1. GotoBuild(r)
        BY <1>9, <2>3 DEF PruneFile
    <3> QED BY <2>1, <2>2, <3>1, ControlGotoBuild
  <2>4. CASE rest # {}
    <3>1. Goto(r, "prune") /\ req' = [req EXCEPT ![r].todo = rest]
        BY <1>9, <2>4 DEF PruneFile
    <3>2. \A p \in rest : p < nextPost /\ ~posts[p].top
        BY <1>9 DEF PruneFile, At, IInv, ControlInv, PrunesReplies
    <3> HIDE DEF rest
    <3>3. /\ OthersKept(r)
          /\ req'[r].todo = rest
          /\ req'[r].post = req[r].post
          /\ req'[r].list = req[r].list
        BY <3>1, <1>r DEF Goto, OthersKept, Locals
    <3>4. req[r].post < nextPost /\ \A p \in req[r].list : p < nextPost
        BY DEF IInv, ControlInv, LocalsHaveRows
    <3> QED BY <1>i, <2>1, <2>2, <2>4, <3>2, <3>3, <3>4, ControlKept
  <2> QED BY <2>3, <2>4
<1> QED BY <1>1, <1>2, <1>3, <1>4, <1>5, <1>6, <1>7, <1>8, <1>9 DEF MakePostNext
\* A loop takes one post off the rest of the list, or remembers that it failed.
LEMMA ShrinkTodoControl ==
    ASSUME IInv, NEW r \in Requests, NEW p, NEW failed, TopsKept,
           pc[r] \notin {"prune", "pruneFile"},
           UNCHANGED <<pc, nextPost>>,
           req' \in {[req EXCEPT ![r].todo = @ \ {p}],
                     [req EXCEPT ![r].todo = @ \ {p}, ![r].failed = failed]}
    PROVE  ControlInv'
<1>1. req \in [Requests -> Locals]
    BY DEF IInv, TypeInv, TypeOK
<1>2. OthersKept(r)
    BY <1>1 DEF OthersKept
<1>3. req'[r].post = req[r].post /\ req'[r].list = req[r].list
  <2>1. CASE req' = [req EXCEPT ![r].todo = @ \ {p}]
      BY <2>1, <1>1 DEF Locals
  <2>2. CASE req' = [req EXCEPT ![r].todo = @ \ {p}, ![r].failed = failed]
      BY <2>2, <1>1 DEF Locals
  <2> QED BY <2>1, <2>2
<1> QED BY <1>2, <1>3, ControlGoto

\* cmd/gochan/deleteposts.go keeps IInv.
LEMMA DeletePostsInv ==
    ASSUME IInv, NEW r \in Requests, DeletePostsNext(r)
    PROVE  IInv'
<1> USE DEF tables, disk, history
<1>t. TypeInv'
    BY DeletePostsType DEF IInv
<1>r. /\ req \in [Requests -> Locals] /\ pc \in [Requests -> Steps]
      /\ posts \in [PostIDs -> PostRow] /\ threads \in [ThreadIDs -> ThreadRow]
      /\ nextPost \in 1..(MaxPostID + 1) /\ nextPost' \in 1..(MaxPostID + 1)
    BY <1>t DEF IInv, TypeInv, TypeOK
<1>i. nextPost \in Int /\ nextPost' \in Int
    BY <1>r, BoundsAssumption
<1> SUFFICES RowsInv' /\ ControlInv'
    BY <1>t DEF IInv
<1>1. CASE StartDelete(r)
  <2>1. PICK p \in PostIDs, fileOnly \in BOOLEAN :
            LET list == IF fileOnly THEN {p} ELSE PostsToDelete(p)
            IN  /\ posts[p].state # "none"
                /\ req' = [req EXCEPT ![r].fileOnly = fileOnly, ![r].list = list, ![r].todo = list,
                                      ![r].names = [q \in PostIDs |-> IF q \in list THEN files[q] ELSE NoUpload]]
      BY <1>1 DEF StartDelete
  <2> DEFINE list == IF fileOnly THEN {p} ELSE PostsToDelete(p)
             names == [q \in PostIDs |-> IF q \in list THEN files[q] ELSE NoUpload]
  <2>2. \A q \in list : q < nextPost
      BY <2>1 DEF PostsToDelete, PostsIn, IInv, RowsInv, RowsBelowNext
  <2>3. req' = [req EXCEPT ![r].fileOnly = fileOnly, ![r].list = list, ![r].todo = list, ![r].names = names]
      BY <2>1
  <2>4. UNCHANGED <<threads, posts, nextThread, nextPost>> /\ Goto(r, "removeFiles")
      BY <1>1 DEF StartDelete
  <2>5. RowsInv' /\ TopsKept
      BY <2>4, RowsUnchanged
  <2> HIDE DEF list, names
  <2>6. /\ OthersKept(r)
        /\ pc'[r] \notin {"prune", "pruneFile"}
        /\ req'[r].post = req[r].post
        /\ req'[r].list = list
      BY <2>3, <2>4, <1>r DEF Goto, OthersKept, Locals
  <2>7. req[r].post < nextPost
      BY DEF IInv, ControlInv, LocalsHaveRows
  <2> QED BY <1>i, <2>2, <2>4, <2>5, <2>6, <2>7, ControlKept
<1>2. CASE RemoveFiles(r)
  <2>1. PICK p \in req[r].todo : req' = [req EXCEPT ![r].todo = @ \ {p}]
      BY <1>2 DEF RemoveFiles
  <2>2. UNCHANGED <<threads, posts, nextThread, nextPost, pc>> /\ pc[r] = "removeFiles"
      BY <1>2 DEF RemoveFiles, At
  <2> QED BY <2>1, <2>2, RowsUnchanged, ShrinkTodoControl
<1>3. CASE RemoveFilesFails(r)
  <2>1. PICK p, failed : req' = [req EXCEPT ![r].todo = @ \ {p}, ![r].failed = failed]
      BY <1>3, Zenon DEF RemoveFilesFails
  <2>2. UNCHANGED <<threads, posts, nextThread, nextPost, pc>> /\ pc[r] = "removeFiles"
      BY <1>3 DEF RemoveFilesFails, At
  <2> QED BY <2>1, <2>2, RowsUnchanged, ShrinkTodoControl
<1>4. CASE FilesRemoved(r) \/ DeleteRows(r)
  <2>1. UNCHANGED <<threads, posts, nextThread, nextPost>>
      BY <1>4 DEF FilesRemoved, DeleteRows
  <2>2. RowsInv' /\ TopsKept
      BY <2>1, RowsUnchanged
  <2>3. CASE Finish(r)
      BY <2>2, <2>3, <1>r, ControlFinish
  <2>4. CASE GotoBuild(r)
      BY <2>1, <2>2, <2>4, ControlGotoBuild
  <2>5. CASE \E step \in {"deleteRows", "mark"} : Goto(r, step) /\ UNCHANGED req
    <3>1. OthersKept(r) /\ pc'[r] \notin {"prune", "pruneFile"} /\ UNCHANGED req
        BY <2>5, <1>r DEF Goto, OthersKept
    <3> QED BY <2>1, <2>2, <3>1, ControlGoto
  <2>6. Finish(r) \/ GotoBuild(r) \/ \E step \in {"deleteRows", "mark"} : Goto(r, step) /\ UNCHANGED req
      BY <1>4 DEF FilesRemoved, DeleteRows
  <2> QED BY <2>2, <2>3, <2>4, <2>5, <2>6
<1>5. CASE MarkPostsAsDeleted(r)
  <2> DEFINE list == req[r].list
             opThreads == {posts[p].thread : p \in {q \in list : posts[q].top}}
  <2>1. /\ posts' = PostsMarkedDeleted(list)
        /\ threads' = ThreadsMarkedDeleted(opThreads)
        /\ UNCHANGED <<nextThread, nextPost>>
        /\ GotoBuild(r)
      BY <1>5 DEF MarkPostsAsDeleted
  <2>2. \A p \in PostIDs : p \in list => p < nextPost
      BY DEF IInv, ControlInv, LocalsHaveRows
  <2>3. \A p \in PostIDs : posts[p].top => (p \in list <=> posts[p].thread \in opThreads)
    <3>1. list \subseteq PostIDs
        BY <1>r DEF Locals
    <3> QED BY <3>1 DEF IInv, RowsInv, OneOPPerThread
  <2> HIDE DEF list, opThreads
  <2>4. RowsInv' /\ TopsKept
      BY <2>1, <2>2, <2>3, RowsMarked
  <2> QED BY <2>1, <2>4, ControlGotoBuild
<1> QED BY <1>1, <1>2, <1>3, <1>4, <1>5 DEF DeletePostsNext

\* pkg/building/boards.go keeps IInv.
LEMMA BuildBoardInv ==
    ASSUME IInv, NEW r \in Requests, BuildBoardNext(r)
    PROVE  IInv'
<1> USE DEF tables, disk, history
<1>t. TypeInv'
    BY BuildBoardType DEF IInv
<1>r. /\ req \in [Requests -> Locals] /\ pc \in [Requests -> Steps]
      /\ nextPost' \in 1..(MaxPostID + 1)
    BY <1>t DEF IInv, TypeInv, TypeOK
<1> SUFFICES RowsInv' /\ ControlInv'
    BY <1>t DEF IInv
<1>1. CASE SelectOldThreads(r) \/ PostsCleaned(r) \/ SelectTopPosts(r)
  <2>1. UNCHANGED <<threads, posts, nextThread, nextPost>>
      BY <1>1 DEF SelectOldThreads, PostsCleaned, SelectTopPosts
  <2>2. /\ OthersKept(r)
        /\ pc'[r] \notin {"prune", "pruneFile"}
        /\ req'[r].post = req[r].post
        /\ req'[r].list = req[r].list
    <3>1. CASE SelectOldThreads(r)
        BY <3>1, <1>r DEF SelectOldThreads, Goto, OthersKept, Locals
    <3>2. CASE PostsCleaned(r)
        BY <3>2, <1>r DEF PostsCleaned, Goto, OthersKept
    <3>3. CASE SelectTopPosts(r)
        BY <3>3, <1>r DEF SelectTopPosts, Goto, OthersKept, Locals
    <3> QED BY <1>1, <3>1, <3>2, <3>3
  <2> QED BY <2>1, <2>2, RowsUnchanged, ControlGoto
<1>2. CASE DeleteOldThreads(r)
  <2>1. /\ posts' = PostsMarkedDeleted(PostsIn(req[r].victims))
        /\ threads' = ThreadsMarkedDeleted(req[r].victims)
        /\ UNCHANGED <<nextThread, nextPost>>
      BY <1>2 DEF DeleteOldThreads
  <2>2. RowsInv' /\ TopsKept
      BY <2>1, RowsThreadsMarked
  <2>3. /\ OthersKept(r)
        /\ pc'[r] \notin {"prune", "pruneFile"}
        /\ req'[r].post = req[r].post
        /\ req'[r].list = req[r].list
      BY <1>2, <1>r DEF DeleteOldThreads, Goto, OthersKept, Locals
  <2> QED BY <2>1, <2>2, <2>3, ControlGoto
<1>3. CASE CleanPost(r) \/ BuildThreadPages(r)
  <2>1. PICK p \in req[r].todo : req' = [req EXCEPT ![r].todo = @ \ {p}]
      BY <1>3 DEF CleanPost, BuildThreadPages
  <2>2. UNCHANGED <<threads, posts, nextThread, nextPost, pc>> /\ pc[r] \in {"clean", "pages"}
      BY <1>3 DEF CleanPost, BuildThreadPages, At
  <2> QED BY <2>1, <2>2, RowsUnchanged, ShrinkTodoControl
<1>4. CASE CleanPostFails(r) \/ BoardBuilt(r)
  <2>1. UNCHANGED <<threads, posts, nextThread, nextPost>> /\ Finish(r)
      BY <1>4 DEF CleanPostFails, BoardBuilt
  <2> QED BY <2>1, <1>r, RowsUnchanged, ControlFinish
<1>5. CASE BuildThreadPagesPanics(r)
  <2>1. UNCHANGED <<threads, posts, nextThread, nextPost>> /\ Die
      BY <1>5 DEF BuildThreadPagesPanics
  <2> QED BY <2>1, RowsUnchanged, ControlDie
<1> QED BY <1>1, <1>2, <1>3, <1>4, <1>5 DEF BuildBoardNext

\* The step of a whole board keeps IInv.
LEMMA IInvInductive ==
    IInv /\ [Next]_vars => IInv'
<1> SUFFICES ASSUME IInv, [Next]_vars
             PROVE  IInv'
    OBVIOUS
<1>t. TypeInv'
    BY TypeInvInductive DEF IInv
<1>1. CASE \E r \in Requests : RequestNext(r)
  <2>1. PICK r \in Requests : RequestNext(r)
      BY <1>1
  <2>2. CASE QueryFails(r)
    <3>1. UNCHANGED <<threads, posts, nextThread, nextPost>> /\ Finish(r)
        BY <2>2 DEF QueryFails, tables
    <3>2. nextPost' \in 1..(MaxPostID + 1)
        BY <1>t DEF TypeInv, TypeOK
    <3> QED BY <1>t, <3>1, <3>2, RowsUnchanged, ControlFinish DEF IInv
  <2> QED BY <2>1, <2>2, MakePostInv, DeletePostsInv, BuildBoardInv DEF RequestNext
<1>2. CASE Crash
  <2>1. UNCHANGED <<threads, posts, nextThread, nextPost>> /\ Die
      BY <1>2 DEF Crash, tables
  <2> QED BY <1>t, <2>1, RowsUnchanged, ControlDie DEF IInv
<1>3. CASE Startup
  <2>1. /\ posts' = PostsMarkedDeleted(PostsIn(TrimmedThreads))
        /\ threads' = ThreadsMarkedDeleted(TrimmedThreads)
        /\ UNCHANGED <<nextThread, nextPost, pc, req>>
      BY <1>3 DEF Startup
  <2>2. RowsInv' /\ TopsKept
      BY <2>1, RowsThreadsMarked
  <2>3. ControlInv'
    <3>1. LocalsHaveRows'
        BY <2>1 DEF IInv, ControlInv, LocalsHaveRows
    <3>2. ASSUME NEW r \in Requests, pc[r] \in {"prune", "pruneFile"}
          PROVE  req[r].todo # {} /\ \A p \in req[r].todo : p < nextPost /\ ~posts'[p].top
      <4>1. req[r].todo # {} /\ \A p \in req[r].todo : p < nextPost /\ ~posts[p].top
          BY <3>2 DEF IInv, ControlInv, PrunesReplies
      <4>2. req[r].todo \subseteq PostIDs
          BY DEF IInv, TypeInv, TypeOK, Locals
      <4> QED BY <4>1, <4>2, <2>2 DEF TopsKept
    <3> QED BY <2>1, <3>1, <3>2 DEF ControlInv, PrunesReplies
  <2> QED BY <1>t, <2>2, <2>3 DEF IInv
<1>4. CASE UNCHANGED vars
  <2>1. UNCHANGED <<threads, posts, nextThread, nextPost, pc, req>>
      BY <1>4 DEF vars, tables
  <2>2. ControlInv'
      BY <2>1 DEF IInv, ControlInv, LocalsHaveRows, PrunesReplies
  <2> QED BY <1>t, <2>1, <2>2, RowsUnchanged DEF IInv
<1> QED BY <1>1, <1>2, <1>3, <1>4 DEF Next

\* An empty board satisfies IInv.
LEMMA IInvInit == Init => IInv
<1> SUFFICES ASSUME Init PROVE IInv
    OBVIOUS
<1>1. RowsInv
    BY DEF Init, NoPost, RowsInv, RowsBelowNext, OPsHaveThreads, OneOPPerThread, OPAndThreadAgree
<1>2. ControlInv
    BY DEF Init, NoLocals, ControlInv, LocalsHaveRows, PrunesReplies
<1> QED BY <1>1, <1>2, TypeInvInit DEF IInv

\* A thread is deleted exactly when its OP is, at every step of every request and across
\* crashes: GetBoardTopPosts may list the threads of a board by their OPs.
THEOREM OPAndThreadAgreeCorrect == Spec => []OPAndThreadAgree
<1>1. IInv => OPAndThreadAgree
    BY DEF IInv, RowsInv
<1> QED BY <1>1, IInvInit, IInvInductive, PTL DEF Spec
===============================================================================
