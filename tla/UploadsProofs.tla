----------------------------- MODULE UploadsProofs -----------------------------
(***************************************************************************)
(* No live post loses its upload.  The argument is about names: a name      *)
(* getNewFilename returned belongs to one upload for good, so whatever      *)
(* handler removes a file under a name it read some time ago removes the    *)
(* upload of the post it read it for, and of no other.                      *)
(*                                                                         *)
(* Then the other direction: no upload loses its owner, but in one race; and *)
(* what a server that serves one request at a time is spared.               *)
(***************************************************************************)
EXTENDS ImageBoardProofs

\* The uploads that are saved and have no row in files yet.
Pending(r) == pc[r] \in {"filter", "insert", "attach"} /\ req[r].upload \in Filenames

\* Every name in the tables or in memory was returned by getNewFilename.
NamesAreUsed ==
    /\ \A p \in PostIDs : files[p] \in Filenames => files[p] \in used
    /\ \A r \in Requests : /\ req[r].upload \in Filenames => req[r].upload \in used
                           /\ \A p \in PostIDs : req[r].names[p] \in Filenames => req[r].names[p] \in used

\* A name is in one row, and who read it in a row will not meet it in another.
NamesHaveOnePost ==
    /\ \A p, q \in PostIDs : files[p] \in Filenames /\ files[p] = files[q] => p = q
    /\ \A r \in Requests : \A p, q \in PostIDs :
          req[r].names[p] \in Filenames /\ req[r].names[p] = files[q] => p = q

\* A saved upload is on disk, and nobody but its request knows its name.
PendingIsKnownToOne ==
    \A r \in Requests : Pending(r) =>
       /\ req[r].upload \in src /\ req[r].upload \in thumb
       /\ \A p \in PostIDs : files[p] # req[r].upload
       /\ \A q \in Requests : /\ \A p \in PostIDs : req[q].names[p] # req[r].upload
                              /\ q # r /\ Pending(q) => req[q].upload # req[r].upload

\* Nothing is left of an earlier upload when a post is submitted, and rows of files are
\* those of posts.
NoStaleUpload ==
    /\ \A r \in Requests : pc[r] \in {"idle", "save"} => req[r].upload = NoUpload
    /\ \A p \in PostIDs : files[p] \in Filenames => p < nextPost

\* Request r removes files of posts that are deleted or that somebody asked to delete.
RemovesForGood(r) ==
    /\ pc[r] = "removeFiles" => req[r].todo \subseteq asked
    /\ pc[r] = "pruneFile" =>
          \A p \in req[r].todo : (\A q \in req[r].todo : p <= q) => posts[p].state = "deleted"
    /\ pc[r] = "clean" => \A p \in req[r].todo : posts[p].state = "deleted"
    /\ pc[r] # "chown"

UploadInv ==
    /\ NamesAreUsed /\ NamesHaveOnePost /\ PendingIsKnownToOne /\ NoStaleUpload
    /\ UploadsSurvive
    /\ \A r \in Requests : RemovesForGood(r)

-----------------------------------------------------------------------------
(* Steps that add nothing: rows, requests and the disk only forget.           *)

\* The tables and histories: no name is added, nothing deleted comes back.
TablesForget ==
    /\ used \subseteq used' /\ asked \subseteq asked' /\ nextPost <= nextPost'
    /\ \A p \in PostIDs :
          /\ files'[p] \in {files[p], NoUpload, DeletedUpload}
          /\ posts[p].state = "deleted" => posts'[p].state = "deleted"
          /\ posts'[p].state = "live" => posts[p].state = "live" \/ p >= nextPost

\* A request: it drops its upload or keeps it, and reads names from rows only.
Forgets(r) ==
    /\ req'[r].upload \in {req[r].upload, NoUpload}
    /\ pc'[r] \in {"filter", "insert", "attach"} /\ req'[r].upload # NoUpload =>
          pc[r] \in {"filter", "insert", "attach"}
    /\ pc'[r] \in {"idle", "save"} => req'[r].upload = NoUpload
    /\ \A p \in PostIDs : req'[r].names[p] \in {req[r].names[p], files[p], NoUpload}

\* The disk: at most the files under one name go.
AtMostRemoves(name) == src \ {name} \subseteq src' /\ thumb \ {name} \subseteq thumb'

\* No post that should keep its upload and no request that is to attach one needs the name.
NotNeededAfterwards(name) ==
    name \in Filenames =>
       /\ \A p \in PostIDs : files'[p] = name /\ LivePost(p)' => p \in asked'
       /\ \A q \in Requests : Pending(q)' => req'[q].upload # name

\* The invariant survives a step that only forgets, whoever takes it.
LEMMA UploadsKept ==
    ASSUME IInv, UploadInv, TypeInv', NEW name, TablesForget,
           \A q \in Requests : Forgets(q) /\ RemovesForGood(q)',
           AtMostRemoves(name), NotNeededAfterwards(name)
    PROVE  UploadInv'
<1>i. NamesAreUsed /\ NamesHaveOnePost /\ PendingIsKnownToOne /\ NoStaleUpload /\ UploadsSurvive
    BY DEF UploadInv
<1>f. NoUpload \notin Filenames /\ DeletedUpload \notin Filenames
    BY FilenamesAssumption DEF NoUpload, DeletedUpload
<1>t. nextPost \in Int /\ nextPost' \in Int /\ PostIDs \subseteq Int
    BY BoundsAssumption DEF PostIDs, IInv, TypeInv, TypeOK
<1>p. ASSUME NEW q \in Requests
      PROVE  Pending(q)' => Pending(q) /\ req'[q].upload = req[q].upload
    BY <1>f DEF Pending, Forgets
<1>u. ASSUME NEW q \in Requests
      PROVE  req'[q].upload \in {req[q].upload, NoUpload}
    BY DEF Forgets
<1>n. ASSUME NEW q \in Requests, NEW p \in PostIDs
      PROVE  req'[q].names[p] \in {req[q].names[p], files[p], NoUpload}
    BY DEF Forgets
<1>r. /\ used \subseteq used' /\ asked \subseteq asked' /\ nextPost <= nextPost'
      /\ \A p \in PostIDs : files'[p] \in {files[p], NoUpload, DeletedUpload}
    BY DEF TablesForget
<1>1. NamesAreUsed'
    BY <1>i, <1>f, <1>u, <1>n, <1>r DEF NamesAreUsed
<1>2. NamesHaveOnePost'
    BY <1>i, <1>f, <1>n, <1>r DEF NamesHaveOnePost
<1>3. PendingIsKnownToOne'
  <2> SUFFICES ASSUME NEW q \in Requests, Pending(q)'
               PROVE  /\ req'[q].upload \in src' /\ req'[q].upload \in thumb'
                      /\ \A p \in PostIDs : files'[p] # req'[q].upload
                      /\ \A s \in Requests : /\ \A p \in PostIDs : req'[s].names[p] # req'[q].upload
                                             /\ s # q /\ Pending(s)' => req'[s].upload # req'[q].upload
      BY DEF PendingIsKnownToOne
  <2>1. Pending(q) /\ req'[q].upload = req[q].upload /\ req[q].upload \in Filenames
      BY <1>p DEF Pending
  <2>2. req'[q].upload \in src' /\ req'[q].upload \in thumb'
      BY <1>i, <2>1 DEF PendingIsKnownToOne, AtMostRemoves, NotNeededAfterwards
  <2>3. \A p \in PostIDs : files'[p] # req'[q].upload
      BY <1>i, <1>f, <1>r, <2>1 DEF PendingIsKnownToOne
  <2>4. ASSUME NEW s \in Requests
        PROVE  /\ \A p \in PostIDs : req'[s].names[p] # req'[q].upload
               /\ s # q /\ Pending(s)' => req'[s].upload # req'[q].upload
      BY <1>i, <1>f, <1>n, <1>p, <2>1 DEF PendingIsKnownToOne
  <2> QED BY <2>2, <2>3, <2>4
<1>4. NoStaleUpload'
  <2>1. \A q \in Requests : pc'[q] \in {"idle", "save"} => req'[q].upload = NoUpload
      BY DEF Forgets
  <2>2. \A p \in PostIDs : files'[p] \in Filenames => p < nextPost'
      BY <1>i, <1>f, <1>r, <1>t DEF NoStaleUpload
  <2> QED BY <2>1, <2>2 DEF NoStaleUpload
<1>5. UploadsSurvive'
  <2> SUFFICES ASSUME NEW p \in PostIDs, LivePost(p)', files'[p] \in Filenames, p \notin asked'
               PROVE  HasItsFiles(p)'
      BY DEF UploadsSurvive
  <2>1. files'[p] = files[p]
      BY <1>f, <1>r
  <2>2. LivePost(p)
      BY <1>i, <1>t, <2>1 DEF NoStaleUpload, LivePost, TablesForget
  <2>3. files[p] \in src /\ files[p] \in thumb
      BY <1>i, <1>r, <2>1, <2>2 DEF UploadsSurvive, HasItsFiles
  <2>4. name # files[p]
      BY <2>1 DEF NotNeededAfterwards
  <2> QED BY <2>1, <2>3, <2>4 DEF HasItsFiles, AtMostRemoves
<1> QED BY <1>1, <1>2, <1>3, <1>4, <1>5 DEF UploadInv

\* A request that takes no step while posts are only deleted.
LEMMA IdleForgets ==
    ASSUME IInv, UploadInv, TablesForget, NEW r \in Requests, pc'[r] = pc[r], req'[r] = req[r]
    PROVE  Forgets(r) /\ RemovesForGood(r)'
<1>1. Forgets(r)
    BY DEF UploadInv, NoStaleUpload, Forgets
<1>2. req[r].todo \subseteq PostIDs
    BY DEF IInv, TypeInv, TypeOK, Locals
<1>3. RemovesForGood(r)'
    BY <1>2 DEF UploadInv, RemovesForGood, TablesForget
<1> QED BY <1>1, <1>3

\* The invariant survives a step of request r that only forgets.
LEMMA UploadsKeptBy ==
    ASSUME IInv, UploadInv, TypeInv', NEW r \in Requests, OthersKept(r), NEW name, TablesForget,
           Forgets(r), RemovesForGood(r)', AtMostRemoves(name), NotNeededAfterwards(name)
    PROVE  UploadInv'
<1>1. ASSUME NEW q \in Requests
      PROVE  Forgets(q) /\ RemovesForGood(q)'
  <2>1. CASE q = r
      BY <2>1
  <2>2. CASE q # r
      BY <2>2, IdleForgets DEF OthersKept
  <2> QED BY <2>1, <2>2
<1> QED BY <1>1, UploadsKept

\* A handler that returns, or starts building, forgets its upload and the names it read.
LEMMA FinishForgets ==
    ASSUME IInv, NEW r \in Requests, Finish(r)
    PROVE  /\ OthersKept(r) /\ Forgets(r) /\ RemovesForGood(r)'
           /\ pc'[r] = "idle"
<1>1. OthersKept(r) /\ pc'[r] = "idle" /\ req'[r] = NoLocals
    BY DEF IInv, TypeInv, TypeOK, Finish, OthersKept
<1>2. req'[r].upload = NoUpload /\ \A p \in PostIDs : req'[r].names[p] = NoUpload
    BY <1>1 DEF NoLocals
<1> QED BY <1>1, <1>2 DEF Forgets, RemovesForGood

\* Before it builds, a request forgets its upload and the files it was to remove.
LEMMA GotoBuildForgets ==
    ASSUME IInv, NEW r \in Requests, GotoBuild(r)
    PROVE  /\ OthersKept(r) /\ Forgets(r) /\ RemovesForGood(r)'
           /\ pc'[r] = "trim"
<1>1. /\ OthersKept(r) /\ pc'[r] = "trim"
      /\ req'[r] = [NoLocals EXCEPT !.thread = req[r].thread, !.post = req[r].post]
    BY DEF IInv, TypeInv, TypeOK, GotoBuild, Goto, OthersKept
<1>2. req'[r].upload = NoUpload /\ \A p \in PostIDs : req'[r].names[p] = NoUpload
    BY <1>1 DEF NoLocals
<1> QED BY <1>1, <1>2 DEF Forgets, RemovesForGood

\* A step of r that changes its other local variables only, and goes on where nothing is removed.
LEMMA GotoForgets ==
    ASSUME IInv, UploadInv, NEW r \in Requests, OthersKept(r),
           req'[r].upload = req[r].upload, req'[r].names = req[r].names,
           pc'[r] \notin {"idle", "save", "removeFiles", "pruneFile", "clean", "chown"},
           pc'[r] \in {"filter", "insert", "attach"} =>
              pc[r] \in {"filter", "insert", "attach"} \/ req[r].upload = NoUpload
    PROVE  Forgets(r) /\ RemovesForGood(r)'
BY DEF Forgets, RemovesForGood

\* Rows of posts that were deleted by the step of a request.
LEMMA MarkedForget ==
    ASSUME IInv, NEW P, posts' = PostsMarkedDeleted(P),
           used \subseteq used', asked \subseteq asked', nextPost' = nextPost,
           \A p \in PostIDs : files'[p] \in {files[p], NoUpload, DeletedUpload}
    PROVE  /\ TablesForget
           /\ \A p \in PostIDs : /\ p \in P => posts'[p].state = "deleted"
                                 /\ posts'[p].top = posts[p].top
<1>1. ASSUME NEW p \in PostIDs
      PROVE  /\ posts'[p].state = IF p \in P THEN "deleted" ELSE posts[p].state
             /\ posts'[p].top = posts[p].top
    BY DEF PostsMarkedDeleted, IInv, TypeInv, TypeOK, PostRow
<1>2. nextPost <= nextPost'
    BY BoundsAssumption DEF IInv, TypeInv, TypeOK
<1> QED BY <1>1, <1>2 DEF TablesForget

\* Rows of posts that the step does not touch.
LEMMA UntouchedForget ==
    ASSUME IInv, used \subseteq used', asked \subseteq asked', UNCHANGED <<posts, nextPost>>,
           \A p \in PostIDs : files'[p] \in {files[p], NoUpload, DeletedUpload}
    PROVE  TablesForget
<1>1. nextPost <= nextPost'
    BY BoundsAssumption DEF IInv, TypeInv, TypeOK
<1> QED BY <1>1 DEF TablesForget

\* What Post.Delete leaves of the rows of posts, for a reply as for an OP.
LEMMA AfterDeleteForget ==
    ASSUME IInv, NEW p, posts' = PostsAfterDelete(p), UNCHANGED <<files, nextPost>>,
           used \subseteq used', asked \subseteq asked'
    PROVE  TablesForget
<1>1. CASE posts[p].top
    BY <1>1, UntouchedForget DEF PostsAfterDelete
<1>2. CASE ~posts[p].top
    BY <1>2, MarkedForget DEF PostsAfterDelete
<1> QED BY <1>1, <1>2

\* The name of no file: nothing is removed.
LEMMA NothingRemoved ==
    ASSUME src \subseteq src', thumb \subseteq thumb'
    PROVE  AtMostRemoves(NoUpload) /\ NotNeededAfterwards(NoUpload)
<1>1. NoUpload \notin Filenames
    BY FilenamesAssumption DEF NoUpload
<1> QED BY <1>1 DEF AtMostRemoves, NotNeededAfterwards

\* An upload its request gives up: no row has its name, nor any other request.
LEMMA OwnUploadNotNeeded ==
    ASSUME IInv, UploadInv, NEW r \in Requests, OthersKept(r),
           pc[r] \in {"filter", "insert", "attach"},
           pc'[r] \notin {"filter", "insert", "attach"}, UNCHANGED files
    PROVE  NotNeededAfterwards(req[r].upload)
<1> SUFFICES ASSUME req[r].upload \in Filenames
             PROVE  /\ \A p \in PostIDs : files[p] # req[r].upload
                    /\ \A q \in Requests : Pending(q)' => req'[q].upload # req[r].upload
    BY DEF NotNeededAfterwards
<1>1. Pending(r)
    BY DEF Pending
<1>2. \A p \in PostIDs : files[p] # req[r].upload
    BY <1>1 DEF UploadInv, PendingIsKnownToOne
<1>3. ASSUME NEW q \in Requests, Pending(q)'
      PROVE  req'[q].upload # req[r].upload
  <2>1. q # r /\ pc'[q] = pc[q] /\ req'[q] = req[q]
      BY <1>3 DEF Pending, OthersKept
  <2> QED BY <1>1, <1>3, <2>1 DEF Pending, UploadInv, PendingIsKnownToOne
<1> QED BY <1>2, <1>3

\* A name read earlier from a row: a live post that still has it was asked to be deleted,
\* if the post it was read for is deleted or was asked to be.
LEMMA ReadNameNotNeeded ==
    ASSUME IInv, UploadInv, NEW r \in Requests, OthersKept(r), NEW p \in PostIDs,
           pc'[r] \notin {"filter", "insert", "attach"}, UNCHANGED <<posts, files>>,
           posts[p].state = "deleted" \/ p \in asked',
           NEW name \in {req[r].names[p], files[p]}
    PROVE  NotNeededAfterwards(name)
<1> SUFFICES ASSUME name \in Filenames
             PROVE  /\ \A q \in PostIDs : files[q] = name /\ LivePost(q) => q \in asked'
                    /\ \A q \in Requests : Pending(q)' => req'[q].upload # name
    BY DEF NotNeededAfterwards, LivePost
<1>1. ASSUME NEW q \in PostIDs, files[q] = name
      PROVE  q = p
    BY <1>1 DEF UploadInv, NamesHaveOnePost
<1>2. \A q \in PostIDs : files[q] = name /\ LivePost(q) => q \in asked'
    BY <1>1 DEF LivePost
<1>3. ASSUME NEW q \in Requests, Pending(q)'
      PROVE  req'[q].upload # name
  <2>1. pc'[q] = pc[q] /\ req'[q] = req[q]
      BY <1>3 DEF Pending, OthersKept
  <2> QED BY <1>3, <2>1 DEF Pending, UploadInv, PendingIsKnownToOne
<1> QED BY <1>2, <1>3

-----------------------------------------------------------------------------
(* Every action keeps UploadInv. *)

\* A step that returns or starts building, with the rows forgotten and at most one file removed.
LEMMA FinishUploads ==
    ASSUME IInv, UploadInv, TypeInv', NEW r \in Requests, Finish(r) \/ GotoBuild(r),
           TablesForget, NEW name, AtMostRemoves(name), NotNeededAfterwards(name)
    PROVE  UploadInv'
BY FinishForgets, GotoBuildForgets, UploadsKeptBy

\* DoPostFiltering and Insert: a new post is live, and its request has an upload to attach.
LEMMA InsertPostUploads ==
    ASSUME IInv, UploadInv, TypeInv', NEW r \in Requests, NEW row,
           pc[r] = "insert",
           posts' = [posts EXCEPT ![nextPost] = row], row.state = "live", nextPost' = nextPost + 1,
           req' = [req EXCEPT ![r].post = nextPost],
           Goto(r, IF req[r].upload = NoUpload THEN "cyclic" ELSE "attach"),
           UNCHANGED <<files, src, thumb, used, asked>>
    PROVE  UploadInv'
<1>r. req \in [Requests -> Locals] /\ pc \in [Requests -> Steps] /\ posts \in [PostIDs -> PostRow]
    BY DEF IInv, TypeInv, TypeOK
<1>n. nextPost \in Int
    BY BoundsAssumption DEF IInv, TypeInv, TypeOK
<1>1. OthersKept(r)
    BY <1>r DEF Goto, OthersKept
<1>2. /\ req'[r].upload = req[r].upload /\ req'[r].names = req[r].names
      /\ pc'[r] \in {"cyclic", "attach"}
    BY <1>r DEF Locals, Goto
<1>3. Forgets(r) /\ RemovesForGood(r)'
    BY <1>1, <1>2, GotoForgets
<1>4. ASSUME NEW p \in PostIDs
      PROVE  /\ posts[p].state = "deleted" => posts'[p].state = "deleted"
             /\ posts'[p].state = "live" => posts[p].state = "live" \/ p >= nextPost
  <2>1. CASE p = nextPost
      BY <2>1, <1>r, <1>n DEF IInv, RowsInv, RowsBelowNext
  <2>2. CASE p # nextPost
      BY <2>2, <1>r
  <2> QED BY <2>1, <2>2
<1>5. TablesForget
    BY <1>n, <1>4 DEF TablesForget
<1> QED BY <1>1, <1>3, <1>5, NothingRemoved, UploadsKeptBy

\* AttachUploadFromRequest writes a file whose name was in no table and no request.
LEMMA SaveUploadUploads ==
    ASSUME IInv, UploadInv, TypeInv', MayCollide = FALSE, NEW r \in Requests, SaveUpload(r)
    PROVE  UploadInv'
<1>i. /\ NamesAreUsed /\ NamesHaveOnePost /\ PendingIsKnownToOne /\ NoStaleUpload /\ UploadsSurvive
      /\ \A q \in Requests : RemovesForGood(q)
    BY DEF UploadInv
<1>f. NoUpload \notin Filenames /\ DeletedUpload \notin Filenames
    BY FilenamesAssumption DEF NoUpload, DeletedUpload
<1>1. PICK f \in Filenames \ used : /\ src' = src \cup {f}
                                    /\ thumb' = thumb \cup {f}
                                    /\ used' = used \cup {f}
                                    /\ req' = [req EXCEPT ![r].upload = f]
    BY DEF SaveUpload, NewFilenames
<1>2. /\ pc[r] = "save" /\ pc' = [pc EXCEPT ![r] = "filter"]
      /\ UNCHANGED <<posts, files, nextPost, asked>>
    BY DEF SaveUpload, At, Goto, tables
<1>r. req \in [Requests -> Locals] /\ pc \in [Requests -> Steps]
    BY DEF IInv, TypeInv, TypeOK
<1>3. /\ \A q \in Requests : q # r => pc'[q] = pc[q] /\ req'[q] = req[q]
      /\ pc'[r] = "filter" /\ req'[r].upload = f
      /\ \A q \in Requests : req'[q].names = req[q].names /\ req'[q].todo = req[q].todo
    BY <1>1, <1>2, <1>r DEF Locals
<1>4. /\ \A p \in PostIDs : files[p] # f
      /\ \A q \in Requests : req[q].upload # f /\ \A p \in PostIDs : req[q].names[p] # f
    BY <1>1, <1>i DEF NamesAreUsed
<1>5. NamesAreUsed'
    BY <1>i, <1>1, <1>2, <1>3 DEF NamesAreUsed
<1>6. NamesHaveOnePost'
    BY <1>i, <1>2, <1>3 DEF NamesHaveOnePost
<1>7. PendingIsKnownToOne'
  <2> SUFFICES ASSUME NEW q \in Requests, Pending(q)'
               PROVE  /\ req'[q].upload \in src' /\ req'[q].upload \in thumb'
                      /\ \A p \in PostIDs : files'[p] # req'[q].upload
                      /\ \A s \in Requests : /\ \A p \in PostIDs : req'[s].names[p] # req'[q].upload
                                             /\ s # q /\ Pending(s)' => req'[s].upload # req'[q].upload
      BY DEF PendingIsKnownToOne
  <2>1. CASE q = r
      BY <2>1, <1>1, <1>2, <1>3, <1>4
  <2>2. CASE q # r
    <3>1. Pending(q) /\ req'[q] = req[q]
        BY <2>2, <1>3 DEF Pending
    <3>2. /\ req[q].upload \in src /\ req[q].upload \in thumb
          /\ \A p \in PostIDs : files[p] # req[q].upload
          /\ \A s \in Requests : /\ \A p \in PostIDs : req[s].names[p] # req[q].upload
                                 /\ s # q /\ Pending(s) => req[s].upload # req[q].upload
        BY <3>1, <1>i DEF PendingIsKnownToOne
    <3>3. ASSUME NEW s \in Requests, s # q, Pending(s)'
          PROVE  req'[s].upload # req'[q].upload
        BY <3>1, <3>2, <3>3, <1>3, <1>4 DEF Pending
    <3> QED BY <3>1, <3>2, <3>3, <1>1, <1>2, <1>3
  <2> QED BY <2>1, <2>2
<1>8. NoStaleUpload'
    BY <1>i, <1>2, <1>3 DEF NoStaleUpload
<1>9. UploadsSurvive'
    BY <1>i, <1>1, <1>2 DEF UploadsSurvive, HasItsFiles, LivePost
<1>10. \A q \in Requests : RemovesForGood(q)'
    BY <1>i, <1>2, <1>3 DEF RemovesForGood
<1> QED BY <1>5, <1>6, <1>7, <1>8, <1>9, <1>10 DEF UploadInv

\* AttachFile gives a row to an upload that is on disk and that no other row has.
LEMMA AttachFileUploads ==
    ASSUME IInv, UploadInv, TypeInv', "chown" \notin Faults, NEW r \in Requests, AttachFile(r)
    PROVE  UploadInv'
<1>i. /\ NamesAreUsed /\ NamesHaveOnePost /\ PendingIsKnownToOne /\ NoStaleUpload /\ UploadsSurvive
      /\ \A q \in Requests : RemovesForGood(q)
    BY DEF UploadInv
<1>f. NoUpload \notin Filenames /\ DeletedUpload \notin Filenames
    BY FilenamesAssumption DEF NoUpload, DeletedUpload
<1>r. req \in [Requests -> Locals] /\ pc \in [Requests -> Steps] /\ files \in [PostIDs -> FilenameColumn]
    BY DEF IInv, TypeInv, TypeOK
<1> DEFINE f == req[r].upload
           n == req[r].post
<1>1. /\ pc[r] = "attach" /\ pc' = [pc EXCEPT ![r] = "cyclic"]
      /\ files' = [files EXCEPT ![n] = f]
      /\ UNCHANGED <<posts, nextPost, src, thumb, req, used, asked>>
    BY DEF AttachFile, At, Goto, disk, history
<1>2. f \in Filenames
    BY <1>1 DEF IInv, TypeInv, UploadNamed
<1>3. Pending(r)
    BY <1>1, <1>2 DEF Pending
<1>4. /\ f \in src /\ f \in thumb /\ \A p \in PostIDs : files[p] # f
      /\ \A q \in Requests : /\ \A p \in PostIDs : req[q].names[p] # f
                             /\ q # r /\ Pending(q) => req[q].upload # f
    BY <1>3, <1>i DEF PendingIsKnownToOne
<1>5. n < nextPost
    BY DEF IInv, ControlInv, LocalsHaveRows
<1>6. ASSUME NEW p \in PostIDs
      PROVE  files'[p] = IF p = n THEN f ELSE files[p]
    BY <1>1, <1>r
<1>7. ASSUME NEW q \in Requests
      PROVE  /\ pc'[q] = IF q = r THEN "cyclic" ELSE pc[q]
             /\ Pending(q)' => Pending(q) /\ q # r
    BY <1>1, <1>r DEF Pending
<1> HIDE DEF f, n
<1>8. NamesAreUsed'
  <2>1. f \in used
      BY <1>2, <1>i DEF NamesAreUsed, f
  <2> QED BY <2>1, <1>i, <1>1, <1>6 DEF NamesAreUsed
<1>9. NamesHaveOnePost'
    BY <1>i, <1>1, <1>4, <1>6 DEF NamesHaveOnePost
<1>10. PendingIsKnownToOne'
    BY <1>i, <1>1, <1>4, <1>6, <1>7 DEF PendingIsKnownToOne
<1>11. NoStaleUpload'
    BY <1>i, <1>1, <1>5, <1>6, <1>7 DEF NoStaleUpload
<1>12. UploadsSurvive'
    BY <1>i, <1>1, <1>4, <1>6 DEF UploadsSurvive, HasItsFiles, LivePost
<1>13. \A q \in Requests : RemovesForGood(q)'
    BY <1>i, <1>1, <1>7 DEF RemovesForGood
<1> QED BY <1>8, <1>9, <1>10, <1>11, <1>12, <1>13 DEF UploadInv

\* A process that dies forgets the requests, and with them the uploads they had yet to attach.
LEMMA DieUploads ==
    ASSUME IInv, UploadInv, TypeInv', Die,
           UNCHANGED <<posts, files, nextPost, src, thumb, used, asked>>
    PROVE  UploadInv'
<1>1. \A q \in Requests : pc'[q] = "idle" /\ req'[q] = NoLocals
    BY DEF Die
<1>2. \A q \in Requests : req'[q].upload = NoUpload /\ \A p \in PostIDs : req'[q].names[p] = NoUpload
    BY <1>1 DEF NoLocals
<1>3. \A q \in Requests : Forgets(q) /\ RemovesForGood(q)'
    BY <1>1, <1>2 DEF Forgets, RemovesForGood
<1>4. TablesForget
    BY UntouchedForget
<1> QED BY <1>3, <1>4, NothingRemoved, UploadsKept

\* pkg/posting/post.go keeps UploadInv.
LEMMA MakePostUploads ==
    ASSUME IInv, UploadInv, TypeInv', MayCollide = FALSE, "chown" \notin Faults,
           NEW r \in Requests, MakePostNext(r)
    PROVE  UploadInv'
<1> USE DEF tables, disk, history
<1>r. req \in [Requests -> Locals] /\ pc \in [Requests -> Steps]
    BY DEF IInv, TypeInv, TypeOK
<1>1. CASE StartPost(r)
  <2>1. /\ OthersKept(r)
        /\ req'[r].upload = req[r].upload /\ req'[r].names = req[r].names
        /\ pc[r] = "idle" /\ pc'[r] \in {"save", "insert"}
      BY <1>1, <1>r DEF StartPost, At, Goto, OthersKept, Locals
  <2>2. req[r].upload = NoUpload
      BY <2>1 DEF UploadInv, NoStaleUpload
  <2>3. Forgets(r) /\ RemovesForGood(r)'
      BY <2>1, <2>2 DEF Forgets, RemovesForGood
  <2>4. TablesForget /\ AtMostRemoves(NoUpload) /\ NotNeededAfterwards(NoUpload)
      BY <1>1, UntouchedForget, NothingRemoved DEF StartPost
  <2> QED BY <2>1, <2>3, <2>4, UploadsKeptBy
<1>2. CASE SaveUpload(r)
    BY <1>2, SaveUploadUploads
<1>3. CASE SaveUploadFails(r) \/ FilteringFails(r)
  <2>1. /\ Finish(r) /\ UNCHANGED <<posts, files, nextPost, thumb, asked>>
        /\ used \subseteq used' /\ src \subseteq src'
      BY <1>3 DEF SaveUploadFails, FilteringFails
  <2>2. TablesForget /\ AtMostRemoves(NoUpload) /\ NotNeededAfterwards(NoUpload)
      BY <2>1, UntouchedForget, NothingRemoved
  <2> QED BY <2>1, <2>2, FinishUploads
<1>4. CASE PassFilter(r)
  <2>1. /\ OthersKept(r) /\ req'[r] = req[r]
        /\ pc[r] = "filter" /\ pc'[r] = "insert"
      BY <1>4, <1>r DEF PassFilter, At, Goto, OthersKept
  <2>2. Forgets(r) /\ RemovesForGood(r)'
      BY <2>1, GotoForgets
  <2>3. TablesForget /\ AtMostRemoves(NoUpload) /\ NotNeededAfterwards(NoUpload)
      BY <1>4, UntouchedForget, NothingRemoved DEF PassFilter
  <2> QED BY <2>1, <2>2, <2>3, UploadsKeptBy
<1>5. CASE RejectByFilter(r) \/ InsertPostFails(r)
  <2>1. /\ Finish(r) /\ pc[r] \in {"filter", "insert"}
        /\ UNCHANGED <<posts, files, nextPost, used, asked>>
        /\ AtMostRemoves(req[r].upload)
      BY <1>5 DEF RejectByFilter, InsertPostFails, At, AtMostRemoves
  <2>2. OthersKept(r) /\ pc'[r] = "idle"
      BY <2>1, FinishForgets
  <2>3. NotNeededAfterwards(req[r].upload)
      BY <2>1, <2>2, OwnUploadNotNeeded
  <2>4. TablesForget
      BY <2>1, UntouchedForget
  <2> QED BY <2>1, <2>3, <2>4, FinishUploads
<1>6. CASE InsertReply(r) \/ InsertThread(r)
  <2>1. PICK row \in {[state |-> "live", thread |-> req[r].thread, top |-> FALSE],
                      [state |-> "live", thread |-> nextThread, top |-> TRUE]} :
            posts' = [posts EXCEPT ![nextPost] = row]
      BY <1>6 DEF InsertReply, InsertThread
  <2>2. row.state = "live"
      OBVIOUS
  <2>3. /\ pc[r] = "insert" /\ nextPost' = nextPost + 1
        /\ req' = [req EXCEPT ![r].post = nextPost]
        /\ Goto(r, IF req[r].upload = NoUpload THEN "cyclic" ELSE "attach")
        /\ UNCHANGED <<files, src, thumb, used, asked>>
      BY <1>6 DEF InsertReply, InsertThread, At
  <2> QED BY <2>1, <2>2, <2>3, InsertPostUploads
<1>7. CASE AttachFile(r)
    BY <1>7, AttachFileUploads
<1>8. CASE AttachFileFails(r)
  <2>1. /\ Finish(r) /\ pc[r] = "attach"
        /\ posts' = PostsAfterDelete(req[r].post)
        /\ UNCHANGED <<files, nextPost, used, asked>>
        /\ AtMostRemoves(req[r].upload)
      BY <1>8 DEF AttachFileFails, At, AtMostRemoves
  <2>2. OthersKept(r) /\ pc'[r] = "idle"
      BY <2>1, FinishForgets
  <2>3. NotNeededAfterwards(req[r].upload)
      BY <2>1, <2>2, OwnUploadNotNeeded
  <2>4. TablesForget
      BY <2>1, AfterDeleteForget
  <2> QED BY <2>1, <2>3, <2>4, FinishUploads
<1>9. CASE TakeOwnershipFails(r)
    BY <1>9 DEF TakeOwnershipFails, At, UploadInv, RemovesForGood
<1>10. CASE CyclicCheck(r)
  <2> DEFINE t == req[r].thread
             P == IF t # 0 /\ threads[t].cyclic THEN CyclicOverflow(t) ELSE {}
             names == [p \in PostIDs |-> IF p \in P THEN files[p] ELSE NoUpload]
  <2>1. TablesForget /\ AtMostRemoves(NoUpload) /\ NotNeededAfterwards(NoUpload)
      BY <1>10, UntouchedForget, NothingRemoved DEF CyclicCheck
  <2>2. IF P = {} THEN GotoBuild(r)
        ELSE req' = [req EXCEPT ![r].todo = P, ![r].names = names] /\ Goto(r, "prune")
      BY <1>10 DEF CyclicCheck
  <2> HIDE DEF P
  <2>3. CASE P = {}
      BY <2>1, <2>2, <2>3, FinishUploads
  <2>4. CASE P # {}
    <3>1. OthersKept(r) /\ pc'[r] = "prune" /\ req'[r].upload = req[r].upload /\ req'[r].names = names
        BY <2>2, <2>4, <1>r DEF Goto, OthersKept, Locals
    <3>2. Forgets(r) /\ RemovesForGood(r)'
        BY <3>1 DEF Forgets, RemovesForGood
    <3> QED BY <2>1, <3>1, <3>2, UploadsKeptBy
  <2> QED BY <2>3, <2>4
<1>11. CASE CyclicCheckPanics(r)
  <2>1. Finish(r) /\ TablesForget /\ AtMostRemoves(NoUpload) /\ NotNeededAfterwards(NoUpload)
      BY <1>11, UntouchedForget, NothingRemoved DEF CyclicCheckPanics
  <2> QED BY <2>1, FinishUploads
<1>12. CASE PrunePost(r)
  <2> DEFINE n == NextToPrune(r)
  <2>1. /\ OthersKept(r) /\ pc[r] = "prune" /\ pc'[r] = "pruneFile" /\ req' = req
        /\ posts' = PostsMarkedDeleted({n})
        /\ UNCHANGED <<files, nextPost, src, thumb, used, asked>>
      BY <1>12, <1>r DEF PrunePost, At, Goto, OthersKept
  <2>2. n \in req[r].todo /\ n \in PostIDs /\ \A q \in req[r].todo : n <= q
      BY <2>1, <1>r, NextToPruneInTodo DEF Locals
  <2>3. TablesForget /\ posts'[n].state = "deleted"
      BY <2>1, <2>2, MarkedForget
  <2>4. ASSUME NEW p \in req[r].todo, \A q \in req[r].todo : p <= q
        PROVE  p = n
    <3>1. n \in Int /\ p \in Int /\ p <= n /\ n <= p
        BY <2>2, <2>4, <1>r, BoundsAssumption DEF Locals, PostIDs
    <3> QED BY <3>1
  <2> HIDE DEF n
  <2>5. Forgets(r) /\ RemovesForGood(r)'
      BY <2>1, <2>3, <2>4 DEF Forgets, RemovesForGood
  <2> QED BY <2>1, <2>3, <2>5, NothingRemoved, UploadsKeptBy
<1>13. CASE PruneFile(r)
  <2> DEFINE n == NextToPrune(r)
             rest == req[r].todo \ {n}
             name == req[r].names[n]
  <2>1. /\ pc[r] = "pruneFile"
        /\ UNCHANGED <<posts, files, nextPost, used, asked>>
        /\ AtMostRemoves(name)
        /\ GotoBuild(r) \/ (Goto(r, "prune") /\ req' = [req EXCEPT ![r].todo = rest])
      BY <1>13 DEF PruneFile, At, AtMostRemoves
  <2>2. n \in req[r].todo /\ n \in PostIDs /\ \A q \in req[r].todo : n <= q
      BY <2>1, <1>r, NextToPruneInTodo DEF Locals
  <2>3. posts[n].state = "deleted"
      BY <2>1, <2>2 DEF UploadInv, RemovesForGood
  <2>4. TablesForget
      BY <2>1, UntouchedForget
  <2> HIDE DEF n
  <2>5. CASE GotoBuild(r)
    <3>1. OthersKept(r) /\ pc'[r] = "trim"
        BY <2>5, GotoBuildForgets
    <3>2. NotNeededAfterwards(name)
        BY <2>1, <2>2, <2>3, <3>1, ReadNameNotNeeded
    <3> QED BY <2>1, <2>4, <2>5, <3>2, FinishUploads
  <2>6. CASE Goto(r, "prune") /\ req' = [req EXCEPT ![r].todo = rest]
    <3>1. /\ OthersKept(r) /\ pc'[r] = "prune"
          /\ req'[r].upload = req[r].upload /\ req'[r].names = req[r].names
        BY <2>6, <1>r DEF Goto, OthersKept, Locals
    <3>2. NotNeededAfterwards(name)
        BY <2>1, <2>2, <2>3, <3>1, ReadNameNotNeeded
    <3>3. Forgets(r) /\ RemovesForGood(r)'
        BY <3>1, GotoForgets
    <3> QED BY <2>1, <2>4, <3>1, <3>2, <3>3, UploadsKeptBy
  <2> QED BY <2>1, <2>5, <2>6
<1> QED BY <1>1, <1>2, <1>3, <1>4, <1>5, <1>6, <1>7, <1>8, <1>9, <1>10, <1>11, <1>12, <1>13 DEF MakePostNext

\* cmd/gochan/deleteposts.go keeps UploadInv.
LEMMA DeletePostsUploads ==
    ASSUME IInv, UploadInv, TypeInv', NEW r \in Requests, DeletePostsNext(r)
    PROVE  UploadInv'
<1> USE DEF tables, disk, history
<1>r. req \in [Requests -> Locals] /\ pc \in [Requests -> Steps]
    BY DEF IInv, TypeInv, TypeOK
<1>1. CASE StartDelete(r)
  <2> PICK p \in PostIDs, fileOnly \in BOOLEAN :
        LET list == IF fileOnly THEN {p} ELSE PostsToDelete(p) IN
        /\ req' = [req EXCEPT ![r].fileOnly = fileOnly, ![r].list = list, ![r].todo = list,
                              ![r].names = [q \in PostIDs |-> IF q \in list THEN files[q] ELSE NoUpload]]
        /\ asked' = asked \cup list
      BY <1>1, Zenon DEF StartDelete
  <2> PICK list : list = IF fileOnly THEN {p} ELSE PostsToDelete(p)
      OBVIOUS
  <2>1. /\ req' = [req EXCEPT ![r].fileOnly = fileOnly, ![r].list = list, ![r].todo = list,
                              ![r].names = [q \in PostIDs |-> IF q \in list THEN files[q] ELSE NoUpload]]
        /\ asked' = asked \cup list
      OBVIOUS
  <2>2. /\ req'[r].upload = req[r].upload /\ req'[r].todo = list
        /\ req'[r].names = [q \in PostIDs |-> IF q \in list THEN files[q] ELSE NoUpload]
      BY <2>1, <1>r DEF Locals
  <2>3. OthersKept(r) /\ pc'[r] = "removeFiles"
      BY <1>1, <2>1, <1>r DEF StartDelete, Goto, OthersKept
  <2>4. Forgets(r) /\ RemovesForGood(r)'
      BY <2>1, <2>2, <2>3 DEF Forgets, RemovesForGood
  <2>5. TablesForget /\ AtMostRemoves(NoUpload) /\ NotNeededAfterwards(NoUpload)
      BY <1>1, <2>1, UntouchedForget, NothingRemoved DEF StartDelete
  <2> QED BY <2>3, <2>4, <2>5, UploadsKeptBy
<1>2. CASE RemoveFiles(r) \/ RemoveFilesFails(r)
  <2>1. PICK p \in req[r].todo, failed \in BOOLEAN :
            /\ AtMostRemoves(req[r].names[p])
            /\ req' \in {[req EXCEPT ![r].todo = @ \ {p}],
                         [req EXCEPT ![r].todo = @ \ {p}, ![r].failed = failed]}
    <3>1. CASE RemoveFiles(r)
      <4>1. PICK p \in req[r].todo :
                /\ src' = src \ {req[r].names[p]} /\ thumb' = thumb \ {req[r].names[p]}
                /\ req' = [req EXCEPT ![r].todo = @ \ {p}]
          BY <3>1 DEF RemoveFiles
      <4> QED BY <4>1 DEF AtMostRemoves
    <3>2. CASE RemoveFilesFails(r)
      <4>1. PICK p \in req[r].todo, hidden \in BOOLEAN :
                /\ src' \in {src, src \ {req[r].names[p]}}
                /\ thumb' \in {thumb, thumb \ {req[r].names[p]}}
                /\ req' = [req EXCEPT ![r].todo = @ \ {p}, ![r].failed = @ \/ ~hidden]
          BY <3>2 DEF RemoveFilesFails
      <4>2. (req[r].failed \/ ~hidden) \in BOOLEAN
          OBVIOUS
      <4> QED BY <4>1, <4>2 DEF AtMostRemoves
    <3> QED BY <1>2, <3>1, <3>2
  <2>2. /\ pc[r] = "removeFiles" /\ pc' = pc
        /\ UNCHANGED <<posts, files, nextPost, used, asked>>
      BY <1>2 DEF RemoveFiles, RemoveFilesFails, At
  <2>3. /\ req'[r].upload = req[r].upload /\ req'[r].names = req[r].names
        /\ req'[r].todo \subseteq req[r].todo
        /\ OthersKept(r)
    <3>1. CASE req' = [req EXCEPT ![r].todo = @ \ {p}]
        BY <3>1, <2>2, <1>r DEF Locals, OthersKept
    <3>2. CASE req' = [req EXCEPT ![r].todo = @ \ {p}, ![r].failed = failed]
        BY <3>2, <2>2, <1>r DEF Locals, OthersKept
    <3> QED BY <2>1, <3>1, <3>2
  <2>4. req[r].todo \subseteq asked /\ p \in PostIDs
      BY <2>1, <2>2, <1>r DEF UploadInv, RemovesForGood, Locals
  <2>5. NotNeededAfterwards(req[r].names[p])
      BY <2>1, <2>2, <2>3, <2>4, ReadNameNotNeeded
  <2>6. Forgets(r) /\ RemovesForGood(r)'
      BY <2>2, <2>3, <2>4 DEF Forgets, RemovesForGood
  <2>7. TablesForget
      BY <2>2, UntouchedForget
  <2> QED BY <2>1, <2>3, <2>5, <2>6, <2>7, UploadsKeptBy
<1>3. CASE FilesRemoved(r)
  <2>1. TablesForget /\ AtMostRemoves(NoUpload) /\ NotNeededAfterwards(NoUpload)
      BY <1>3, UntouchedForget, NothingRemoved DEF FilesRemoved
  <2>2. CASE Finish(r)
      BY <2>1, <2>2, FinishUploads
  <2>3. CASE Goto(r, "deleteRows") /\ UNCHANGED req
    <3>1. OthersKept(r) /\ pc'[r] = "deleteRows" /\ req'[r] = req[r]
        BY <2>3, <1>r DEF Goto, OthersKept
    <3> QED BY <2>1, <3>1, GotoForgets, UploadsKeptBy
  <2> QED BY <1>3, <2>2, <2>3 DEF FilesRemoved
<1>4. CASE DeleteRows(r)
  <2>1. \A p \in PostIDs : files'[p] \in {files[p], NoUpload, DeletedUpload}
      BY <1>4 DEF DeleteRows
  <2>2. TablesForget /\ AtMostRemoves(NoUpload) /\ NotNeededAfterwards(NoUpload)
      BY <1>4, <2>1, UntouchedForget, NothingRemoved DEF DeleteRows
  <2>3. CASE GotoBuild(r)
      BY <2>2, <2>3, FinishUploads
  <2>4. CASE Goto(r, "mark") /\ UNCHANGED req
    <3>1. OthersKept(r) /\ pc'[r] = "mark" /\ req'[r] = req[r]
        BY <2>4, <1>r DEF Goto, OthersKept
    <3> QED BY <2>2, <3>1, GotoForgets, UploadsKeptBy
  <2> QED BY <1>4, <2>3, <2>4 DEF DeleteRows
<1>5. CASE MarkPostsAsDeleted(r)
  <2>1. /\ GotoBuild(r) /\ posts' = PostsMarkedDeleted(req[r].list)
        /\ UNCHANGED <<files, nextPost, src, thumb, used, asked>>
      BY <1>5 DEF MarkPostsAsDeleted
  <2>2. TablesForget /\ AtMostRemoves(NoUpload) /\ NotNeededAfterwards(NoUpload)
      BY <2>1, MarkedForget, NothingRemoved
  <2> QED BY <2>1, <2>2, FinishUploads
<1> QED BY <1>1, <1>2, <1>3, <1>4, <1>5 DEF DeletePostsNext

\* pkg/building/boards.go keeps UploadInv.
LEMMA BuildBoardUploads ==
    ASSUME IInv, UploadInv, TypeInv', NEW r \in Requests, BuildBoardNext(r)
    PROVE  UploadInv'
<1> USE DEF tables, disk, history
<1>r. req \in [Requests -> Locals] /\ pc \in [Requests -> Steps] /\ files \in [PostIDs -> FilenameColumn]
    BY DEF IInv, TypeInv, TypeOK
<1>1. CASE \/ SelectOldThreads(r) \/ PostsCleaned(r) \/ SelectTopPosts(r) \/ BuildThreadPages(r)
  <2>1. /\ OthersKept(r)
        /\ req'[r].upload = req[r].upload /\ req'[r].names = req[r].names
        /\ pc'[r] \in {"tops", "trimMark", "pages"}
        /\ UNCHANGED <<posts, files, nextPost, src, thumb, used, asked>>
    <3>1. CASE SelectOldThreads(r)
        BY <3>1, <1>r DEF SelectOldThreads, Goto, OthersKept, Locals
    <3>2. CASE PostsCleaned(r)
        BY <3>2, <1>r DEF PostsCleaned, Goto, OthersKept, Locals
    <3>3. CASE SelectTopPosts(r)
        BY <3>3, <1>r DEF SelectTopPosts, Goto, OthersKept, Locals
    <3>4. CASE BuildThreadPages(r)
        BY <3>4, <1>r DEF BuildThreadPages, At, OthersKept, Locals
    <3> QED BY <1>1, <3>1, <3>2, <3>3, <3>4
  <2>2. TablesForget /\ AtMostRemoves(NoUpload) /\ NotNeededAfterwards(NoUpload)
      BY <2>1, UntouchedForget, NothingRemoved
  <2> QED BY <2>1, <2>2, GotoForgets, UploadsKeptBy
<1>2. CASE DeleteOldThreads(r)
  <2> DEFINE P == PostsIn(req[r].victims)
  <2>1. /\ posts' = PostsMarkedDeleted(P)
        /\ UNCHANGED <<files, nextPost, src, thumb, used, asked>>
        /\ req' = [req EXCEPT ![r].todo = P] /\ pc' = [pc EXCEPT ![r] = "clean"]
      BY <1>2 DEF DeleteOldThreads, Goto
  <2>2. P \subseteq PostIDs
      BY DEF PostsIn
  <2> HIDE DEF P
  <2>3. /\ OthersKept(r) /\ pc'[r] = "clean" /\ req'[r].todo = P
        /\ req'[r].upload = req[r].upload /\ req'[r].names = req[r].names
      BY <2>1, <1>r DEF OthersKept, Locals
  <2>4. TablesForget /\ \A p \in P : posts'[p].state = "deleted"
      BY <2>1, <2>2, MarkedForget
  <2>5. Forgets(r) /\ RemovesForGood(r)'
      BY <2>3, <2>4 DEF Forgets, RemovesForGood
  <2> QED BY <2>1, <2>3, <2>4, <2>5, NothingRemoved, UploadsKeptBy
<1>3. CASE CleanPost(r)
  <2>1. PICK p \in req[r].todo :
            /\ src' = src \ {files[p]} /\ thumb' = thumb \ {files[p]}
            /\ files' = [files EXCEPT ![p] = NoUpload]
            /\ req' = [req EXCEPT ![r].todo = @ \ {p}]
      BY <1>3 DEF CleanPost
  <2>2. /\ pc[r] = "clean" /\ pc' = pc
        /\ UNCHANGED <<posts, nextPost, used, asked>>
      BY <1>3 DEF CleanPost, At
  <2>3. /\ OthersKept(r) /\ req'[r].upload = req[r].upload /\ req'[r].names = req[r].names
        /\ req'[r].todo \subseteq req[r].todo
      BY <2>1, <2>2, <1>r DEF OthersKept, Locals
  <2>4. p \in PostIDs /\ \A q \in req[r].todo : posts[q].state = "deleted"
      BY <2>1, <2>2, <1>r DEF UploadInv, RemovesForGood, Locals
  <2>5. \A q \in PostIDs : files'[q] = IF q = p THEN NoUpload ELSE files[q]
      BY <2>1, <1>r
  <2>6. TablesForget
      BY <2>2, <2>5, UntouchedForget
  <2>7. Forgets(r) /\ RemovesForGood(r)'
      BY <2>2, <2>3, <2>4 DEF Forgets, RemovesForGood
  <2>8. NotNeededAfterwards(files[p])
    <3> SUFFICES ASSUME files[p] \in Filenames
                 PROVE  /\ \A q \in PostIDs : files'[q] = files[p] /\ LivePost(q)' => q \in asked'
                        /\ \A q \in Requests : Pending(q)' => req'[q].upload # files[p]
        BY DEF NotNeededAfterwards
    <3>1. NoUpload \notin Filenames
        BY FilenamesAssumption DEF NoUpload
    <3>2. \A q \in PostIDs : files'[q] # files[p]
        BY <2>4, <2>5, <3>1 DEF UploadInv, NamesHaveOnePost
    <3>3. ASSUME NEW q \in Requests, Pending(q)'
          PROVE  req'[q].upload # files[p]
      <4>1. pc'[q] = pc[q] /\ req'[q].upload = req[q].upload
          BY <2>2, <2>3 DEF OthersKept
      <4> QED BY <3>3, <4>1, <2>4 DEF Pending, UploadInv, PendingIsKnownToOne
    <3> QED BY <3>2, <3>3
  <2>9. AtMostRemoves(files[p])
      BY <2>1 DEF AtMostRemoves
  <2> QED BY <2>3, <2>6, <2>7, <2>8, <2>9, UploadsKeptBy
<1>4. CASE CleanPostFails(r)
  <2>1. PICK p \in req[r].todo :
            /\ AtMostRemoves(files[p])
            /\ files' \in {files, [files EXCEPT ![p] = NoUpload]}
      BY <1>4 DEF CleanPostFails, AtMostRemoves
  <2>2. /\ pc[r] = "clean" /\ Finish(r)
        /\ UNCHANGED <<posts, nextPost, used, asked>>
      BY <1>4 DEF CleanPostFails, At
  <2>3. p \in PostIDs /\ posts[p].state = "deleted"
      BY <2>1, <2>2, <1>r DEF UploadInv, RemovesForGood, Locals
  <2>4. \A q \in PostIDs : files'[q] \in {files[q], NoUpload}
      BY <2>1, <1>r
  <2>5. TablesForget
      BY <2>2, <2>4, UntouchedForget
  <2>6. OthersKept(r) /\ pc'[r] = "idle"
      BY <2>2, FinishForgets
  <2>7. NotNeededAfterwards(files[p])
    <3> SUFFICES ASSUME files[p] \in Filenames
                 PROVE  /\ \A q \in PostIDs : files'[q] = files[p] /\ LivePost(q)' => q \in asked'
                        /\ \A q \in Requests : Pending(q)' => req'[q].upload # files[p]
        BY DEF NotNeededAfterwards
    <3>1. NoUpload \notin Filenames
        BY FilenamesAssumption DEF NoUpload
    <3>2. ASSUME NEW q \in PostIDs, files'[q] = files[p]
          PROVE  q = p
        BY <3>2, <2>3, <2>4, <3>1 DEF UploadInv, NamesHaveOnePost
    <3>3. \A q \in PostIDs : files'[q] = files[p] => ~LivePost(q)'
        BY <3>2, <2>2, <2>3 DEF LivePost
    <3>4. ASSUME NEW q \in Requests, Pending(q)'
          PROVE  req'[q].upload # files[p]
      <4>1. pc'[q] = pc[q] /\ req'[q] = req[q]
          BY <3>4, <2>6 DEF OthersKept, Pending
      <4> QED BY <3>4, <4>1, <2>3 DEF Pending, UploadInv, PendingIsKnownToOne
    <3> QED BY <3>3, <3>4
  <2> QED BY <2>1, <2>2, <2>5, <2>7, FinishUploads
<1>5. CASE BoardBuilt(r)
  <2>1. Finish(r) /\ TablesForget /\ AtMostRemoves(NoUpload) /\ NotNeededAfterwards(NoUpload)
      BY <1>5, UntouchedForget, NothingRemoved DEF BoardBuilt
  <2> QED BY <2>1, FinishUploads
<1>6. CASE BuildThreadPagesPanics(r)
    BY <1>6, DieUploads DEF BuildThreadPagesPanics
<1> QED BY <1>1, <1>2, <1>3, <1>4, <1>5, <1>6 DEF BuildBoardNext

\* Every step of the server, a crash and a restart included, keeps UploadInv.
LEMMA UploadInvInductive ==
    ASSUME MayCollide = FALSE, "chown" \notin Faults, IInv, UploadInv, [Next]_vars
    PROVE  UploadInv'
<1>t. TypeInv'
    BY TypeInvInductive DEF IInv
<1>1. CASE \E r \in Requests : RequestNext(r)
  <2>1. PICK r \in Requests : RequestNext(r)
      BY <1>1
  <2>2. CASE QueryFails(r)
    <3>1. Finish(r) /\ TablesForget /\ AtMostRemoves(NoUpload) /\ NotNeededAfterwards(NoUpload)
        BY <2>2, UntouchedForget, NothingRemoved DEF QueryFails, tables, disk
    <3> QED BY <1>t, <3>1, FinishUploads
  <2> QED BY <1>t, <2>1, <2>2, MakePostUploads, DeletePostsUploads, BuildBoardUploads DEF RequestNext
<1>2. CASE Crash
    BY <1>t, <1>2, DieUploads DEF Crash, tables, disk
<1>3. CASE Startup
  <2>1. /\ posts' = PostsMarkedDeleted(PostsIn(TrimmedThreads))
        /\ UNCHANGED <<files, nextPost, src, thumb, used, asked, pc, req>>
      BY <1>3 DEF Startup, disk, history
  <2>2. TablesForget
      BY <2>1, MarkedForget
  <2>3. \A q \in Requests : Forgets(q) /\ RemovesForGood(q)'
      BY <2>1, <2>2, IdleForgets
  <2> QED BY <1>t, <2>1, <2>2, <2>3, NothingRemoved, UploadsKept
<1>4. CASE UNCHANGED vars
  <2>1. UNCHANGED <<posts, files, nextPost, src, thumb, used, asked, pc, req>>
      BY <1>4 DEF vars, tables, disk, history
  <2>2. TablesForget
      BY <2>1, UntouchedForget
  <2>3. \A q \in Requests : Forgets(q) /\ RemovesForGood(q)'
      BY <2>1, <2>2, IdleForgets
  <2> QED BY <1>t, <2>1, <2>2, <2>3, NothingRemoved, UploadsKept
<1> QED BY <1>1, <1>2, <1>3, <1>4 DEF Next

\* No upload is saved yet.
LEMMA UploadInvInit == Init => UploadInv
<1> SUFFICES ASSUME Init PROVE UploadInv
    OBVIOUS
<1>1. NoUpload \notin Filenames
    BY FilenamesAssumption DEF NoUpload
<1>2. /\ \A r \in Requests : /\ pc[r] = "idle" /\ req[r].upload = NoUpload
                             /\ \A p \in PostIDs : req[r].names[p] = NoUpload
      /\ \A p \in PostIDs : files[p] = NoUpload
    BY DEF Init, NoLocals
<1>3. NamesAreUsed /\ NamesHaveOnePost /\ PendingIsKnownToOne /\ NoStaleUpload /\ UploadsSurvive
    BY <1>1, <1>2 DEF NamesAreUsed, NamesHaveOnePost, PendingIsKnownToOne, NoStaleUpload,
                      UploadsSurvive, Pending
<1> QED BY <1>2, <1>3 DEF UploadInv, RemovesForGood

\* Where getNewFilename never returns a name twice and giving an upload to its owner does not
\* fail, a live post keeps its upload until somebody asks to delete it: neither pruning, nor a
\* failed post, nor the clean-up after a crash takes the files of another post.
THEOREM UploadsSurviveCorrect ==
    ASSUME MayCollide = FALSE, "chown" \notin Faults
    PROVE  Spec => []UploadsSurvive
<1>1. Init => IInv /\ UploadInv
    BY IInvInit, UploadInvInit
<1>2. (IInv /\ UploadInv) /\ [Next]_vars => (IInv /\ UploadInv)'
    BY IInvInductive, UploadInvInductive
<1>3. IInv /\ UploadInv => UploadsSurvive
    BY DEF UploadInv
<1> QED BY <1>1, <1>2, <1>3, PTL DEF Spec
-----------------------------------------------------------------------------
(* Uploads and their owners.  An upload is removed before the row that names  *)
(* it; whoever deletes rows removed the uploads they had when it read them.   *)

\* A request attaches its upload to the post it inserted, which has no upload yet.
AttachesOnce(r) ==
    pc[r] = "attach" =>
       /\ req[r].post \in PostIDs /\ req[r].post < nextPost
       /\ files[req[r].post] = NoUpload
       /\ \A q \in Requests : q # r /\ pc[q] = "attach" => req[q].post # req[r].post

\* deletePosts: the uploads of the posts it is through with are gone from the disk.
NamesRemoved(r) ==
    /\ pc[r] \in {"removeFiles", "deleteRows"} =>
          \A p \in req[r].list \ req[r].todo : req[r].names[p] \notin src
    /\ pc[r] = "deleteRows" => req[r].todo = {}

OwnersInv ==
    /\ NamesAreUsed
    /\ \A p \in PostIDs : files[p] # NoUpload => p < nextPost
    /\ \A r \in Requests : AttachesOnce(r) /\ NamesRemoved(r)

\* Request r deletes the row of an upload that is not the one it removed.
DeletesOtherRow(r, f) ==
    pc[r] = "deleteRows" /\ \E p \in req[r].list : files[p] = f /\ req[r].names[p] # f

\* The step of r leaves no upload without an owner, but by a race.
KeepsOwners(r) ==
    \A f \in Filenames : f \in src' /\ (f \in src => Accounted(f)) => Accounted(f)' \/ DeletesOtherRow(r, f)

\* A name that is new: nobody else knows it.
NewName(r, f) == f \in used' /\ (f \in used => \A q \in Requests : q = r)

\* The rows of files: uploads that are on disk keep theirs.
RowsOfFilesStep(r) ==
    \A p \in PostIDs :
       /\ files'[p] \in {files[p], NoUpload, DeletedUpload}
       /\ files[p] = NoUpload => files'[p] = NoUpload
       /\ files'[p] # files[p] => files[p] \notin src' \/ DeletesOtherRow(r, files[p])

\* The locals of r: names are read from rows, its upload is kept, removed or abandoned.
OwnStep(r) ==
    /\ OthersKept(r)
    /\ \A p \in PostIDs : req'[r].names[p] \in {req[r].names[p], files[p], NoUpload}
    /\ req'[r].upload \in {req[r].upload, NoUpload} \cup used'
    /\ pc[r] \in {"filter", "insert", "attach"} =>
          \/ req[r].upload \notin src' \/ req[r].upload \in abandoned'
          \/ pc'[r] \in {"filter", "insert", "attach"} /\ req'[r].upload = req[r].upload
    /\ pc'[r] = "attach" => /\ req'[r].post = nextPost /\ nextPost \in PostIDs
                            /\ nextPost' = nextPost + 1
    /\ NamesRemoved(r)'

\* The disk and the histories.
DiskStep(r) ==
    /\ nextPost <= nextPost' /\ used \subseteq used' /\ abandoned \subseteq abandoned'
    /\ \A f \in src' \ src : NewName(r, f) /\ Accounted(f)'

\* Every step of a request but AttachFile is of this kind.
LEMMA OwnersStep ==
    ASSUME IInv, OwnersInv, TypeInv', NEW r \in Requests,
           RowsOfFilesStep(r), OwnStep(r), DiskStep(r)
    PROVE  OwnersInv' /\ KeepsOwners(r)
<1>f. NoUpload \notin Filenames /\ DeletedUpload \notin Filenames
    BY FilenamesAssumption DEF NoUpload, DeletedUpload
<1>t. /\ nextPost \in Int /\ nextPost' \in Int /\ PostIDs \subseteq Int
      /\ src' \subseteq Filenames
    BY BoundsAssumption DEF PostIDs, IInv, TypeInv, TypeOK
<1>i. /\ NamesAreUsed /\ \A p \in PostIDs : files[p] # NoUpload => p < nextPost
      /\ \A q \in Requests : AttachesOnce(q) /\ NamesRemoved(q)
    BY DEF OwnersInv
<1>o. ASSUME NEW q \in Requests, q # r
      PROVE  pc'[q] = pc[q] /\ req'[q] = req[q]
    BY <1>o DEF OwnStep, OthersKept
<1>r. \A p \in PostIDs : /\ files'[p] \in {files[p], NoUpload, DeletedUpload}
                         /\ files[p] = NoUpload => files'[p] = NoUpload
    BY DEF RowsOfFilesStep
<1>1. NamesAreUsed'
  <2>1. \A p \in PostIDs : files'[p] \in Filenames => files'[p] \in used'
      BY <1>f, <1>i, <1>r DEF NamesAreUsed, DiskStep
  <2>2. ASSUME NEW q \in Requests
        PROVE  /\ req'[q].upload \in Filenames => req'[q].upload \in used'
               /\ \A p \in PostIDs : req'[q].names[p] \in Filenames => req'[q].names[p] \in used'
    <3>1. CASE q = r
        BY <3>1, <1>f, <1>i DEF NamesAreUsed, DiskStep, OwnStep
    <3>2. CASE q # r
        BY <3>2, <1>o, <1>i DEF NamesAreUsed, DiskStep
    <3> QED BY <3>1, <3>2
  <2> QED BY <2>1, <2>2 DEF NamesAreUsed
<1>2. ASSUME NEW p \in PostIDs, files'[p] # NoUpload
      PROVE  p < nextPost'
  <2>1. files[p] # NoUpload
      BY <1>2, <1>r
  <2>2. p < nextPost /\ nextPost <= nextPost' /\ p \in Int
      BY <2>1, <1>i, <1>t DEF DiskStep
  <2> QED BY <2>2, <1>t
<1>3. ASSUME NEW q \in Requests
      PROVE  AttachesOnce(q)'
  <2> SUFFICES ASSUME pc'[q] = "attach"
               PROVE  /\ req'[q].post \in PostIDs /\ req'[q].post < nextPost'
                      /\ files'[req'[q].post] = NoUpload
                      /\ \A s \in Requests : s # q /\ pc'[s] = "attach" => req'[s].post # req'[q].post
      BY DEF AttachesOnce
  <2>n. nextPost <= nextPost'
      BY DEF DiskStep
  <2>1. CASE q = r
    <3>1. req'[r].post = nextPost /\ nextPost \in PostIDs /\ nextPost' = nextPost + 1
        BY <2>1 DEF OwnStep
    <3>2. files[nextPost] = NoUpload
        BY <3>1, <1>i, <1>t
    <3>3. files'[nextPost] = NoUpload
        BY <3>1, <3>2, <1>r
    <3>4. ASSUME NEW s \in Requests, s # r, pc'[s] = "attach"
          PROVE  req'[s].post # nextPost
      <4>1. req'[s].post = req[s].post /\ req[s].post < nextPost
          BY <3>4, <1>o, <1>i DEF AttachesOnce
      <4> QED BY <4>1, <1>t
    <3>5. nextPost < nextPost'
        BY <3>1, <1>t
    <3> QED BY <2>1, <3>1, <3>3, <3>4, <3>5
  <2>2. CASE q # r
    <3>1. /\ req'[q] = req[q] /\ req[q].post \in PostIDs /\ req[q].post < nextPost
          /\ files[req[q].post] = NoUpload
        BY <2>2, <1>o, <1>i DEF AttachesOnce
    <3>2. req'[q].post < nextPost' /\ files'[req'[q].post] = NoUpload
      <4>1. PICK n \in PostIDs : n = req[q].post
          BY <3>1
      <4>2. n < nextPost /\ files[n] = NoUpload /\ req'[q].post = n
          BY <3>1, <4>1
      <4>3. n < nextPost'
          BY <4>2, <2>n, <1>t
      <4>4. files'[n] = NoUpload
          BY <4>2, <1>r
      <4> QED BY <4>2, <4>3, <4>4
    <3>3. ASSUME NEW s \in Requests, s # q, pc'[s] = "attach"
          PROVE  req'[s].post # req'[q].post
      <4>1. CASE s = r
          BY <4>1, <3>3, <3>1, <1>t DEF OwnStep
      <4>2. CASE s # r
          BY <4>2, <2>2, <3>3, <1>o, <1>i DEF AttachesOnce
      <4> QED BY <4>1, <4>2
    <3> QED BY <3>1, <3>2, <3>3
  <2> QED BY <2>1, <2>2
<1>4. ASSUME NEW q \in Requests
      PROVE  NamesRemoved(q)'
  <2>1. CASE q = r
      BY <2>1 DEF OwnStep
  <2>2. CASE q # r
    <3>1. ASSUME pc[q] \in {"removeFiles", "deleteRows"}, NEW p \in req[q].list \ req[q].todo
          PROVE  req[q].names[p] \notin src'
      <4>1. req[q].names[p] \notin src
          BY <3>1, <1>i DEF NamesRemoved
      <4>2. p \in PostIDs
          BY DEF IInv, TypeInv, TypeOK, Locals
      <4>3. ASSUME req[q].names[p] \in src' \ src
            PROVE  FALSE
        <5>1. req[q].names[p] \notin used
            BY <4>3, <2>2 DEF DiskStep, NewName
        <5>2. req[q].names[p] \in Filenames
            BY <4>3, <1>t
        <5> QED BY <5>1, <5>2, <4>2, <1>i DEF NamesAreUsed
      <4> QED BY <4>1, <4>3
    <3> QED BY <2>2, <3>1, <1>o, <1>i DEF NamesRemoved
  <2> QED BY <2>1, <2>2
<1>5. KeepsOwners(r)
  <2> SUFFICES ASSUME NEW f \in Filenames, f \in src', f \in src => Accounted(f), ~DeletesOtherRow(r, f)
               PROVE  Accounted(f)'
      BY DEF KeepsOwners
  <2>1. CASE f \notin src
      BY <2>1 DEF DiskStep
  <2>2. CASE \E p \in PostIDs : files[p] = f
      BY <2>2 DEF Accounted, RowsOfFilesStep
  <2>3. CASE \E q \in Requests : req[q].upload = f /\ pc[q] \in {"filter", "insert", "attach"}
    <3>1. PICK q \in Requests : req[q].upload = f /\ pc[q] \in {"filter", "insert", "attach"}
        BY <2>3
    <3>2. CASE q = r
        BY <3>1, <3>2 DEF OwnStep, Accounted
    <3>3. CASE q # r
        BY <3>1, <3>3, <1>o DEF Accounted
    <3> QED BY <3>2, <3>3
  <2>4. CASE f \in abandoned
      BY <2>4 DEF DiskStep, Accounted
  <2> QED BY <2>1, <2>2, <2>3, <2>4 DEF Accounted
<1> QED BY <1>1, <1>2, <1>3, <1>4, <1>5 DEF OwnersInv

\* A step that only forgets uploads.
LEMMA OwnersForget ==
    ASSUME IInv, OwnersInv, TypeInv', NEW r \in Requests, UNCHANGED files, used' = used,
           nextPost <= nextPost', src' \subseteq src, abandoned \subseteq abandoned', OwnStep(r)
    PROVE  OwnersInv' /\ KeepsOwners(r)
<1>1. RowsOfFilesStep(r) /\ DiskStep(r)
    BY DEF RowsOfFilesStep, DiskStep
<1> QED BY <1>1, OwnersStep

\* A handler that returns removed its upload or left it abandoned, if it had yet to attach it.
LEMMA FinishOwn ==
    ASSUME IInv, NEW r \in Requests, Finish(r),
           pc[r] \in {"filter", "insert", "attach"} =>
              req[r].upload \notin src' \/ req[r].upload \in abandoned'
    PROVE  OwnStep(r)
<1>1. OthersKept(r) /\ Forgets(r) /\ pc'[r] = "idle"
    BY FinishForgets
<1> QED BY <1>1 DEF Forgets, OwnStep, NamesRemoved

\* A handler that starts building.
LEMMA GotoBuildOwn ==
    ASSUME IInv, NEW r \in Requests, GotoBuild(r), pc[r] \notin {"filter", "insert", "attach"}
    PROVE  OwnStep(r)
<1>1. OthersKept(r) /\ Forgets(r) /\ pc'[r] = "trim"
    BY GotoBuildForgets
<1> QED BY <1>1 DEF Forgets, OwnStep, NamesRemoved

\* A step of r that keeps the upload and the names it knows.
LEMMA GotoOwn ==
    ASSUME NEW r \in Requests, OthersKept(r),
           req'[r].upload = req[r].upload, req'[r].names = req[r].names,
           pc'[r] \notin {"attach", "removeFiles", "deleteRows"},
           pc[r] \in {"filter", "insert", "attach"} => pc'[r] \in {"filter", "insert"}
    PROVE  OwnStep(r)
BY DEF OwnStep, NamesRemoved

\* AttachFile gives the upload the row of its post, which had none.
LEMMA AttachFileOwners ==
    ASSUME IInv, OwnersInv, TypeInv', NEW r \in Requests, AttachFile(r)
    PROVE  OwnersInv' /\ KeepsOwners(r)
<1>r. /\ req \in [Requests -> Locals] /\ pc \in [Requests -> Steps]
      /\ files \in [PostIDs -> FilenameColumn]
    BY DEF IInv, TypeInv, TypeOK
<1>i. /\ NamesAreUsed /\ \A p \in PostIDs : files[p] # NoUpload => p < nextPost
      /\ \A q \in Requests : AttachesOnce(q) /\ NamesRemoved(q)
    BY DEF OwnersInv
<1> DEFINE f == req[r].upload
           n == req[r].post
<1>1. /\ pc[r] = "attach" /\ files' = [files EXCEPT ![n] = f]
      /\ UNCHANGED <<nextPost, src, used, abandoned, req>>
    BY DEF AttachFile, At, disk, history
<1>2. PICK step \in {"cyclic", "chown"} : pc' = [pc EXCEPT ![r] = step]
    BY DEF AttachFile, Goto
<1>3. f \in Filenames /\ f \in used
    BY <1>1, <1>i DEF IInv, TypeInv, UploadNamed, NamesAreUsed
<1>4. /\ n \in PostIDs /\ n < nextPost /\ files[n] = NoUpload
      /\ \A q \in Requests : q # r /\ pc[q] = "attach" => req[q].post # n
    BY <1>1, <1>i DEF AttachesOnce
<1> HIDE DEF f, n
<1>5. \A p \in PostIDs : files'[p] = IF p = n THEN f ELSE files[p]
    BY <1>1, <1>r
<1>6. \A q \in Requests : pc'[q] = IF q = r THEN step ELSE pc[q]
    BY <1>2, <1>r
<1>7. NamesAreUsed'
    BY <1>i, <1>1, <1>3, <1>5 DEF NamesAreUsed
<1>8. \A p \in PostIDs : files'[p] # NoUpload => p < nextPost'
    BY <1>i, <1>1, <1>4, <1>5
<1>9. ASSUME NEW q \in Requests
      PROVE  AttachesOnce(q)' /\ NamesRemoved(q)'
  <2>1. CASE q = r
      BY <2>1, <1>2, <1>6 DEF AttachesOnce, NamesRemoved
  <2>2. CASE q # r
    <3>1. NamesRemoved(q)'
        BY <2>2, <1>i, <1>1, <1>6 DEF NamesRemoved
    <3>2. AttachesOnce(q)'
        BY <2>2, <1>i, <1>1, <1>2, <1>4, <1>5, <1>6 DEF AttachesOnce
    <3> QED BY <3>1, <3>2
  <2> QED BY <2>1, <2>2
<1>10. KeepsOwners(r)
  <2> SUFFICES ASSUME NEW g \in Filenames, Accounted(g)
               PROVE  Accounted(g)'
      BY <1>1 DEF KeepsOwners
  <2>1. NoUpload \notin Filenames
      BY FilenamesAssumption DEF NoUpload
  <2>2. CASE \E p \in PostIDs : files[p] = g
      BY <2>1, <2>2, <1>4, <1>5 DEF Accounted
  <2>3. CASE \E q \in Requests : req[q].upload = g /\ pc[q] \in {"filter", "insert", "attach"}
    <3>1. PICK q \in Requests : req[q].upload = g /\ pc[q] \in {"filter", "insert", "attach"}
        BY <2>3
    <3>2. CASE q = r
        BY <3>1, <3>2, <1>4, <1>5 DEF Accounted, f
    <3>3. CASE q # r
        BY <3>1, <3>3, <1>1, <1>6 DEF Accounted
    <3> QED BY <3>2, <3>3
  <2>4. CASE g \in abandoned
      BY <2>4, <1>1 DEF Accounted
  <2> QED BY <2>2, <2>3, <2>4 DEF Accounted
<1> QED BY <1>7, <1>8, <1>9, <1>10 DEF OwnersInv

\* With the process die the requests; their uploads stay behind.
LEMMA DieOwners ==
    ASSUME IInv, OwnersInv, TypeInv', Die, UNCHANGED <<files, nextPost, src, used, abandoned>>
    PROVE  OwnersInv'
<1>1. \A q \in Requests : pc'[q] = "idle" /\ req'[q] = NoLocals
    BY DEF Die
<1>2. NoUpload \notin Filenames
    BY FilenamesAssumption DEF NoUpload
<1>3. NamesAreUsed'
    BY <1>1, <1>2 DEF OwnersInv, NamesAreUsed, NoLocals
<1>4. \A q \in Requests : AttachesOnce(q)' /\ NamesRemoved(q)'
    BY <1>1 DEF AttachesOnce, NamesRemoved
<1> QED BY <1>3, <1>4 DEF OwnersInv

\* Nothing the owners of uploads depend on is touched.
LEMMA OwnersUntouched ==
    ASSUME OwnersInv, UNCHANGED <<files, nextPost, src, used, abandoned, pc, req>>
    PROVE  OwnersInv' /\ \A f : Accounted(f) => Accounted(f)'
BY DEF OwnersInv, NamesAreUsed, AttachesOnce, NamesRemoved, Accounted

-----------------------------------------------------------------------------
(* Every action keeps OwnersInv, and leaves uploads to their owners.           *)

\* getNewFilename never returns a name twice, or one request is served at a time.
NamesAreNew == MayCollide = FALSE \/ \A r, q \in Requests : r = q

\* AttachUploadFromRequest: the request owns the upload, or gave it up.
LEMMA SaveUploadOwners ==
    ASSUME IInv, OwnersInv, TypeInv', NamesAreNew, NEW r \in Requests,
           SaveUpload(r) \/ SaveUploadFails(r)
    PROVE  OwnersInv' /\ KeepsOwners(r)
<1> USE DEF tables
<1>r. req \in [Requests -> Locals] /\ pc \in [Requests -> Steps]
    BY DEF IInv, TypeInv, TypeOK
<1>p. pc[r] = "save" /\ nextPost <= nextPost' /\ UNCHANGED files
    BY BoundsAssumption DEF SaveUpload, SaveUploadFails, At, IInv, TypeInv, TypeOK
<1>n. ASSUME NEW f \in NewFilenames, used' = used \cup {f}
      PROVE  NewName(r, f)
    BY <1>n DEF NewFilenames, NewName, NamesAreNew
<1>1. CASE SaveUpload(r)
  <2>1. PICK f \in NewFilenames : /\ src' = src \cup {f} /\ used' = used \cup {f}
                                  /\ req' = [req EXCEPT ![r].upload = f]
      BY <1>1 DEF SaveUpload
  <2>2. pc' = [pc EXCEPT ![r] = "filter"] /\ abandoned' = abandoned
      BY <1>1 DEF SaveUpload, Goto
  <2>3. /\ OthersKept(r) /\ pc'[r] = "filter"
        /\ req'[r].upload = f /\ req'[r].names = req[r].names
      BY <2>1, <2>2, <1>r DEF OthersKept, Locals
  <2>4. OwnStep(r)
      BY <2>1, <2>3, <1>p DEF OwnStep, NamesRemoved
  <2>5. Accounted(f)'
      BY <2>3 DEF Accounted
  <2>6. RowsOfFilesStep(r) /\ DiskStep(r)
      BY <2>1, <2>2, <2>5, <1>p, <1>n DEF RowsOfFilesStep, DiskStep
  <2> QED BY <2>4, <2>6, OwnersStep
<1>2. CASE SaveUploadFails(r)
  <2>1. OwnStep(r)
      BY <1>2, <1>p, FinishOwn DEF SaveUploadFails
  <2>2. CASE UNCHANGED <<src, used, abandoned>>
      BY <2>1, <2>2, <1>p, OwnersForget
  <2>3. CASE \E f \in NewFilenames : /\ src' = src \cup {f} /\ used' = used \cup {f}
                                     /\ abandoned' = abandoned \cup {f}
    <3>1. PICK f \in NewFilenames : /\ src' = src \cup {f} /\ used' = used \cup {f}
                                    /\ abandoned' = abandoned \cup {f}
        BY <2>3
    <3>2. RowsOfFilesStep(r) /\ DiskStep(r)
        BY <3>1, <1>p, <1>n DEF RowsOfFilesStep, DiskStep, Accounted
    <3> QED BY <2>1, <3>2, OwnersStep
  <2> QED BY <1>2, <2>2, <2>3 DEF SaveUploadFails
<1> QED BY <1>1, <1>2

\* pkg/posting/post.go keeps OwnersInv.
LEMMA MakePostOwners ==
    ASSUME IInv, OwnersInv, TypeInv', NamesAreNew, NEW r \in Requests, MakePostNext(r)
    PROVE  OwnersInv' /\ KeepsOwners(r)
<1> USE DEF tables, disk, history
<1>r. req \in [Requests -> Locals] /\ pc \in [Requests -> Steps]
    BY DEF IInv, TypeInv, TypeOK
<1>n. nextPost' = nextPost => nextPost <= nextPost'
    BY BoundsAssumption DEF IInv, TypeInv, TypeOK
<1>1. CASE StartPost(r)
  <2>1. /\ OthersKept(r)
        /\ req'[r].upload = req[r].upload /\ req'[r].names = req[r].names
        /\ pc[r] = "idle" /\ pc'[r] \in {"save", "insert"}
      BY <1>1, <1>r DEF StartPost, At, Goto, OthersKept, Locals
  <2>2. OwnStep(r)
      BY <2>1, GotoOwn
  <2> QED BY <1>1, <1>n, <2>2, OwnersForget DEF StartPost
<1>2. CASE SaveUpload(r) \/ SaveUploadFails(r)
    BY <1>2, SaveUploadOwners
<1>3. CASE PassFilter(r)
  <2>1. OthersKept(r) /\ req'[r] = req[r] /\ pc[r] = "filter" /\ pc'[r] = "insert"
      BY <1>3, <1>r DEF PassFilter, At, Goto, OthersKept
  <2>2. OwnStep(r)
      BY <2>1, GotoOwn
  <2> QED BY <1>3, <1>n, <2>2, OwnersForget DEF PassFilter
<1>4. CASE RejectByFilter(r) \/ FilteringFails(r)
  <2>1. OwnStep(r)
      BY <1>4, FinishOwn DEF RejectByFilter, FilteringFails
  <2> QED BY <1>4, <1>n, <2>1, OwnersForget DEF RejectByFilter, FilteringFails
<1>5. CASE InsertReply(r) \/ InsertThread(r)
  <2>1. /\ pc[r] = "insert" /\ nextPost <= MaxPostID /\ nextPost' = nextPost + 1
        /\ req' = [req EXCEPT ![r].post = nextPost]
        /\ pc' = [pc EXCEPT ![r] = IF req[r].upload = NoUpload THEN "cyclic" ELSE "attach"]
        /\ UNCHANGED <<files, src, used, abandoned>>
      BY <1>5 DEF InsertReply, InsertThread, At, Goto
  <2>2. nextPost \in PostIDs /\ nextPost <= nextPost'
      BY <2>1, BoundsAssumption DEF IInv, TypeInv, TypeOK, PostIDs
  <2>3. /\ OthersKept(r) /\ req'[r].post = nextPost
        /\ req'[r].upload = req[r].upload /\ req'[r].names = req[r].names
        /\ pc'[r] = IF req[r].upload = NoUpload THEN "cyclic" ELSE "attach"
      BY <2>1, <1>r DEF OthersKept, Locals
  <2>4. NoUpload \notin src'
      BY FilenamesAssumption DEF TypeInv, TypeOK, NoUpload
  <2>5. OwnStep(r)
      BY <2>1, <2>2, <2>3, <2>4 DEF OwnStep, NamesRemoved
  <2> QED BY <2>1, <2>2, <2>5, OwnersForget
<1>6. CASE InsertPostFails(r) \/ AttachFileFails(r)
  <2>1. OwnStep(r)
      BY <1>6, FinishOwn DEF InsertPostFails, AttachFileFails
  <2> QED BY <1>6, <1>n, <2>1, OwnersForget DEF InsertPostFails, AttachFileFails
<1>7. CASE AttachFile(r)
    BY <1>7, AttachFileOwners
<1>8. CASE TakeOwnershipFails(r) \/ PrunePost(r)
  <2>1. /\ OthersKept(r) /\ req'[r] = req[r]
        /\ pc[r] \in {"chown", "prune"} /\ pc'[r] \in {"cyclic", "pruneFile"}
      BY <1>8, <1>r DEF TakeOwnershipFails, PrunePost, At, Goto, OthersKept
  <2>2. OwnStep(r)
      BY <2>1, GotoOwn
  <2> QED BY <1>8, <1>n, <2>2, OwnersForget DEF TakeOwnershipFails, PrunePost
<1>9. CASE CyclicCheck(r)
  <2> DEFINE t == req[r].thread
             P == IF t # 0 /\ threads[t].cyclic THEN CyclicOverflow(t) ELSE {}
             names == [p \in PostIDs |-> IF p \in P THEN files[p] ELSE NoUpload]
  <2>1. pc[r] = "cyclic" /\ UNCHANGED <<files, nextPost, src, used, abandoned>>
      BY <1>9 DEF CyclicCheck, At
  <2>2. IF P = {} THEN GotoBuild(r)
        ELSE req' = [req EXCEPT ![r].todo = P, ![r].names = names] /\ Goto(r, "prune")
      BY <1>9 DEF CyclicCheck
  <2> HIDE DEF P
  <2>3. CASE P = {}
      BY <2>1, <2>2, <2>3, <1>n, GotoBuildOwn, OwnersForget
  <2>4. CASE P # {}
    <3> HIDE DEF names
    <3>0. req' = [req EXCEPT ![r].todo = P, ![r].names = names] /\ pc' = [pc EXCEPT ![r] = "prune"]
        BY <2>2, <2>4 DEF Goto
    <3>1. OthersKept(r) /\ pc'[r] = "prune" /\ req'[r].upload = req[r].upload /\ req'[r].names = names
        BY <3>0, <1>r DEF OthersKept, Locals
    <3>2. OwnStep(r)
        BY <2>1, <3>1 DEF OwnStep, NamesRemoved, names
    <3> QED BY <2>1, <3>2, <1>n, OwnersForget
  <2> QED BY <2>3, <2>4
<1>10. CASE CyclicCheckPanics(r)
  <2>1. OwnStep(r)
      BY <1>10, FinishOwn DEF CyclicCheckPanics, At
  <2> QED BY <1>10, <1>n, <2>1, OwnersForget DEF CyclicCheckPanics
<1>11. CASE PruneFile(r)
  <2>1. /\ pc[r] = "pruneFile" /\ src' \subseteq src
        /\ UNCHANGED <<files, nextPost, used, abandoned>>
        /\ \/ GotoBuild(r)
           \/ Goto(r, "prune") /\ req' = [req EXCEPT ![r].todo = req[r].todo \ {NextToPrune(r)}]
      BY <1>11 DEF PruneFile, At
  <2>2. OwnStep(r)
    <3>1. CASE GotoBuild(r)
        BY <2>1, <3>1, GotoBuildOwn
    <3>2. CASE Goto(r, "prune") /\ req' = [req EXCEPT ![r].todo = req[r].todo \ {NextToPrune(r)}]
      <4>1. /\ OthersKept(r) /\ pc'[r] = "prune"
            /\ req'[r].upload = req[r].upload /\ req'[r].names = req[r].names
          BY <3>2, <1>r DEF Goto, OthersKept, Locals
      <4> QED BY <2>1, <4>1, GotoOwn
    <3> QED BY <2>1, <3>1, <3>2
  <2> QED BY <2>1, <2>2, <1>n, OwnersForget
<1> QED BY <1>1, <1>2, <1>3, <1>4, <1>5, <1>6, <1>7, <1>8, <1>9, <1>10, <1>11 DEF MakePostNext

\* cmd/gochan/deleteposts.go keeps OwnersInv, where removing an upload does not fail.
LEMMA DeletePostsOwners ==
    ASSUME IInv, OwnersInv, TypeInv', "remove" \notin Faults, NEW r \in Requests, DeletePostsNext(r)
    PROVE  OwnersInv' /\ KeepsOwners(r)
<1> USE DEF tables, disk, history
<1>r. req \in [Requests -> Locals] /\ pc \in [Requests -> Steps]
    BY DEF IInv, TypeInv, TypeOK
<1>n. nextPost' = nextPost => nextPost <= nextPost'
    BY BoundsAssumption DEF IInv, TypeInv, TypeOK
<1>i. NamesRemoved(r)
    BY DEF OwnersInv
<1>1. CASE StartDelete(r)
  <2>1. PICK list \in SUBSET PostIDs, fileOnly \in BOOLEAN :
            req' = [req EXCEPT ![r].fileOnly = fileOnly, ![r].list = list, ![r].todo = list,
                       ![r].names = [q \in PostIDs |-> IF q \in list THEN files[q] ELSE NoUpload]]
    <3>1. PICK p \in PostIDs, fileOnly \in BOOLEAN :
            LET list == IF fileOnly THEN {p} ELSE PostsToDelete(p) IN
            req' = [req EXCEPT ![r].fileOnly = fileOnly, ![r].list = list, ![r].todo = list,
                       ![r].names = [q \in PostIDs |-> IF q \in list THEN files[q] ELSE NoUpload]]
        BY <1>1, Zenon DEF StartDelete
    <3>2. (IF fileOnly THEN {p} ELSE PostsToDelete(p)) \in SUBSET PostIDs
        BY DEF PostsToDelete, PostsIn
    <3> QED BY <3>1, <3>2
  <2>2. /\ pc[r] = "idle" /\ pc' = [pc EXCEPT ![r] = "removeFiles"]
        /\ UNCHANGED <<files, nextPost, src, used, abandoned>>
      BY <1>1 DEF StartDelete, At, Goto
  <2>3. /\ req'[r].upload = req[r].upload /\ req'[r].list = list /\ req'[r].todo = list
        /\ \A p \in PostIDs : req'[r].names[p] \in {files[p], NoUpload}
      BY <2>1, <1>r DEF Locals
  <2>4. OthersKept(r) /\ pc'[r] = "removeFiles"
      BY <2>1, <2>2, <1>r DEF OthersKept
  <2>5. OwnStep(r)
      BY <2>2, <2>3, <2>4 DEF OwnStep, NamesRemoved
  <2> QED BY <2>2, <2>5, <1>n, OwnersForget
<1>2. CASE RemoveFiles(r)
  <2>1. PICK p \in req[r].todo : /\ src' = src \ {req[r].names[p]}
                                 /\ req' = [req EXCEPT ![r].todo = @ \ {p}]
      BY <1>2 DEF RemoveFiles
  <2>2. /\ pc[r] = "removeFiles" /\ pc' = pc
        /\ UNCHANGED <<files, nextPost, used, abandoned>>
      BY <1>2 DEF RemoveFiles, At
  <2>3. /\ OthersKept(r) /\ req'[r].upload = req[r].upload /\ req'[r].names = req[r].names
        /\ req'[r].list = req[r].list /\ req'[r].todo = req[r].todo \ {p}
      BY <2>1, <2>2, <1>r DEF OthersKept, Locals
  <2>4. NamesRemoved(r)'
      BY <1>i, <2>1, <2>2, <2>3 DEF NamesRemoved
  <2>5. OwnStep(r)
      BY <2>2, <2>3, <2>4 DEF OwnStep
  <2> QED BY <2>1, <2>2, <2>5, <1>n, OwnersForget
<1>3. CASE FilesRemoved(r)
  <2>1. /\ pc[r] = "removeFiles" /\ req[r].todo = {}
        /\ UNCHANGED <<files, nextPost, src, used, abandoned>>
        /\ Finish(r) \/ (Goto(r, "deleteRows") /\ UNCHANGED req)
      BY <1>3 DEF FilesRemoved, At
  <2>2. OwnStep(r)
    <3>1. CASE Finish(r)
        BY <2>1, <3>1, FinishOwn
    <3>2. CASE Goto(r, "deleteRows") /\ UNCHANGED req
      <4>1. OthersKept(r) /\ pc'[r] = "deleteRows" /\ req'[r] = req[r]
          BY <3>2, <1>r DEF Goto, OthersKept
      <4>2. NamesRemoved(r)'
          BY <1>i, <2>1, <4>1 DEF NamesRemoved
      <4> QED BY <2>1, <4>1, <4>2 DEF OwnStep
    <3> QED BY <2>1, <3>1, <3>2
  <2> QED BY <2>1, <2>2, <1>n, OwnersForget
<1>4. CASE DeleteRows(r)
  <2>1. /\ pc[r] = "deleteRows" /\ UNCHANGED <<nextPost, src, used, abandoned>>
        /\ GotoBuild(r) \/ (Goto(r, "mark") /\ UNCHANGED req)
      BY <1>4 DEF DeleteRows, At
  <2>2. ASSUME NEW p \in PostIDs
        PROVE  /\ files'[p] \in {files[p], NoUpload, DeletedUpload}
               /\ files[p] = NoUpload => files'[p] = NoUpload
               /\ files'[p] # files[p] => p \in req[r].list
      BY <1>4 DEF DeleteRows
  <2>3. ASSUME NEW p \in PostIDs, files'[p] # files[p]
        PROVE  files[p] \notin src' \/ DeletesOtherRow(r, files[p])
    <3>1. p \in req[r].list \ req[r].todo
        BY <2>1, <2>2, <2>3, <1>i DEF NamesRemoved
    <3>2. req[r].names[p] \notin src
        BY <2>1, <3>1, <1>i DEF NamesRemoved
    <3> QED BY <2>1, <3>1, <3>2 DEF DeletesOtherRow
  <2>4. RowsOfFilesStep(r) /\ DiskStep(r)
      BY <2>1, <2>2, <2>3, <1>n DEF RowsOfFilesStep, DiskStep
  <2>5. OwnStep(r)
    <3>1. CASE GotoBuild(r)
        BY <2>1, <3>1, GotoBuildOwn
    <3>2. CASE Goto(r, "mark") /\ UNCHANGED req
      <4>1. OthersKept(r) /\ pc'[r] = "mark" /\ req'[r] = req[r]
          BY <3>2, <1>r DEF Goto, OthersKept
      <4> QED BY <2>1, <4>1, GotoOwn
    <3> QED BY <2>1, <3>1, <3>2
  <2> QED BY <2>4, <2>5, OwnersStep
<1>5. CASE MarkPostsAsDeleted(r)
  <2>1. OwnStep(r)
      BY <1>5, GotoBuildOwn DEF MarkPostsAsDeleted, At
  <2> QED BY <1>5, <2>1, <1>n, OwnersForget DEF MarkPostsAsDeleted
<1>6. CASE RemoveFilesFails(r)
    BY <1>6 DEF RemoveFilesFails
<1> QED BY <1>1, <1>2, <1>3, <1>4, <1>5, <1>6 DEF DeletePostsNext

\* pkg/building/boards.go keeps OwnersInv: the row of a pruned post goes with its upload.
LEMMA BuildBoardOwners ==
    ASSUME IInv, OwnersInv, TypeInv', NEW r \in Requests, BuildBoardNext(r), ~BuildThreadPagesPanics(r)
    PROVE  OwnersInv' /\ KeepsOwners(r)
<1> USE DEF tables, disk, history
<1>r. /\ req \in [Requests -> Locals] /\ pc \in [Requests -> Steps]
      /\ files \in [PostIDs -> FilenameColumn]
    BY DEF IInv, TypeInv, TypeOK
<1>n. nextPost' = nextPost => nextPost <= nextPost'
    BY BoundsAssumption DEF IInv, TypeInv, TypeOK
<1>1. CASE \/ SelectOldThreads(r) \/ DeleteOldThreads(r) \/ PostsCleaned(r)
           \/ SelectTopPosts(r) \/ BuildThreadPages(r)
  <2>1. /\ OthersKept(r)
        /\ req'[r].upload = req[r].upload /\ req'[r].names = req[r].names
        /\ pc[r] \in {"trim", "trimMark", "clean", "tops", "pages"}
        /\ pc'[r] \in {"trimMark", "clean", "tops", "pages"}
        /\ UNCHANGED <<files, nextPost, src, used, abandoned>>
    <3>1. CASE SelectOldThreads(r)
        BY <3>1, <1>r DEF SelectOldThreads, At, Goto, OthersKept, Locals
    <3>2. CASE DeleteOldThreads(r)
        BY <3>2, <1>r DEF DeleteOldThreads, At, Goto, OthersKept, Locals
    <3>3. CASE PostsCleaned(r)
        BY <3>3, <1>r DEF PostsCleaned, At, Goto, OthersKept, Locals
    <3>4. CASE SelectTopPosts(r)
        BY <3>4, <1>r DEF SelectTopPosts, At, Goto, OthersKept, Locals
    <3>5. CASE BuildThreadPages(r)
        BY <3>5, <1>r DEF BuildThreadPages, At, OthersKept, Locals
    <3> QED BY <1>1, <3>1, <3>2, <3>3, <3>4, <3>5
  <2>2. OwnStep(r)
      BY <2>1, GotoOwn
  <2> QED BY <2>1, <2>2, <1>n, OwnersForget
<1>2. CASE CleanPost(r) \/ CleanPostFails(r)
  <2>1. PICK p \in req[r].todo : \/ files' = [files EXCEPT ![p] = NoUpload] /\ src' = src \ {files[p]}
                                 \/ files' = files /\ src' \subseteq src
      BY <1>2 DEF CleanPost, CleanPostFails
  <2>2. /\ pc[r] = "clean" /\ UNCHANGED <<nextPost, used, abandoned>>
        /\ \/ pc' = pc /\ \E q \in req[r].todo : req' = [req EXCEPT ![r].todo = @ \ {q}]
           \/ Finish(r)
      BY <1>2 DEF CleanPost, CleanPostFails, At
  <2>3. OwnStep(r)
    <3>1. CASE pc' = pc /\ \E q \in req[r].todo : req' = [req EXCEPT ![r].todo = @ \ {q}]
      <4>1. /\ OthersKept(r) /\ pc'[r] = "clean"
            /\ req'[r].upload = req[r].upload /\ req'[r].names = req[r].names
          BY <3>1, <2>2, <1>r DEF OthersKept, Locals
      <4> QED BY <2>2, <4>1, GotoOwn
    <3>2. CASE Finish(r)
        BY <2>2, <3>2, FinishOwn
    <3> QED BY <2>2, <3>1, <3>2
  <2>4. p \in PostIDs
      BY <2>1, <1>r DEF Locals
  <2>5. RowsOfFilesStep(r)
      BY <2>1, <2>4, <1>r DEF RowsOfFilesStep
  <2>6. DiskStep(r)
      BY <2>1, <2>2, <1>n DEF DiskStep
  <2> QED BY <2>3, <2>5, <2>6, OwnersStep
<1>3. CASE BoardBuilt(r)
  <2>1. OwnStep(r)
      BY <1>3, FinishOwn DEF BoardBuilt, At
  <2> QED BY <1>3, <2>1, <1>n, OwnersForget DEF BoardBuilt
<1> QED BY <1>1, <1>2, <1>3 DEF BuildBoardNext

\* Every step keeps OwnersInv, and leaves uploads to their owners unless the process dies.
LEMMA OwnersInductive ==
    ASSUME "remove" \notin Faults, NamesAreNew, IInv, OwnersInv, [Next]_vars
    PROVE  /\ OwnersInv'
           /\ \/ \E r \in Requests : KeepsOwners(r)
              \/ Crash \/ \E r \in Requests : BuildThreadPagesPanics(r)
              \/ src' = src /\ \A f : Accounted(f) => Accounted(f)'
<1>t. TypeInv'
    BY TypeInvInductive DEF IInv
<1>1. CASE \E r \in Requests : RequestNext(r) /\ ~BuildThreadPagesPanics(r)
  <2>1. PICK r \in Requests : RequestNext(r) /\ ~BuildThreadPagesPanics(r)
      BY <1>1
  <2>2. CASE QueryFails(r)
    <3>1. /\ Finish(r) /\ pc[r] \notin {"filter", "insert", "attach"}
          /\ UNCHANGED <<files, nextPost, src, used, abandoned>>
        BY <2>2 DEF QueryFails, tables, disk
    <3>2. OwnStep(r) /\ nextPost <= nextPost'
        BY <3>1, FinishOwn, BoundsAssumption DEF IInv, TypeInv, TypeOK
    <3> QED BY <1>t, <3>1, <3>2, OwnersForget
  <2> QED BY <1>t, <2>1, <2>2, MakePostOwners, DeletePostsOwners, BuildBoardOwners DEF RequestNext
<1>2. CASE \E r \in Requests : BuildThreadPagesPanics(r)
    BY <1>t, <1>2, DieOwners DEF BuildThreadPagesPanics, tables
<1>3. CASE Crash
    BY <1>t, <1>3, DieOwners DEF Crash, tables, disk
<1>4. CASE Startup
    BY <1>4, OwnersUntouched DEF Startup, disk, history
<1>5. CASE UNCHANGED vars
    BY <1>5, OwnersUntouched DEF vars, tables, disk, history
<1> QED BY <1>1, <1>2, <1>3, <1>4, <1>5 DEF Next

\* No upload is on disk yet.
LEMMA OwnersInvInit == Init => OwnersInv
<1> SUFFICES ASSUME Init PROVE OwnersInv
    OBVIOUS
<1>1. NoUpload \notin Filenames
    BY FilenamesAssumption DEF NoUpload
<1> QED BY <1>1 DEF Init, NoLocals, OwnersInv, NamesAreUsed, AttachesOnce, NamesRemoved

\* Where removing a file does not fail and names are not given twice, an upload loses its owner
\* in one way only while the process lives: deletePosts deletes the row of an upload that was
\* attached after it read the rows.
THEOREM UploadsLeftOnlyByRacesCorrect ==
    ASSUME MayCollide = FALSE, "remove" \notin Faults
    PROVE  Spec => UploadsLeftOnlyByRaces
<1> DEFINE Left == \A f \in Filenames : f \in src' /\ Accounted(f) /\ ~Accounted(f)' =>
                      \/ ~up'
                      \/ \E r \in Requests : /\ pc[r] = "deleteRows"
                                             /\ \E p \in req[r].list : files[p] = f /\ req[r].names[p] # f
<1>1. Init => IInv /\ OwnersInv
    BY IInvInit, OwnersInvInit
<1>2. IInv /\ OwnersInv /\ [Next]_vars => (IInv /\ OwnersInv)'
    BY IInvInductive, OwnersInductive DEF NamesAreNew
<1>3. IInv /\ OwnersInv /\ [Next]_vars => [Left]_vars
  <2> SUFFICES ASSUME IInv, OwnersInv, [Next]_vars PROVE Left
      OBVIOUS
  <2>1. CASE \E r \in Requests : KeepsOwners(r)
      BY <2>1 DEF KeepsOwners, DeletesOtherRow
  <2>2. CASE Crash \/ \E r \in Requests : BuildThreadPagesPanics(r)
      BY <2>2 DEF Crash, BuildThreadPagesPanics, Die
  <2>3. CASE \A f : Accounted(f) => Accounted(f)'
      BY <2>3
  <2> QED BY <2>1, <2>2, <2>3, OwnersInductive DEF NamesAreNew
<1>4. Spec => [][Left]_vars
    BY <1>1, <1>2, <1>3, PTL DEF Spec
<1> QED BY <1>4 DEF UploadsLeftOnlyByRaces

-----------------------------------------------------------------------------
(* One request at a time: what it read still holds when it uses it.            *)

\* deletePosts removes the uploads the rows name, and the OPs BuildThreads asked for are live.
ReadsHold(r) ==
    /\ pc[r] \in {"removeFiles", "deleteRows"} => \A p \in req[r].list : req[r].names[p] = files[p]
    /\ pc[r] = "pages" => req[r].todo \subseteq BoardTopPosts

AloneInv ==
    /\ \A r \in Requests : ReadsHold(r)
    /\ ~up => \A r \in Requests : pc[r] = "idle"

\* The posts of a live OP are there: posts[0] does not panic.
LEMMA NoPanic ==
    ASSUME IInv, AloneInv, NEW r \in Requests
    PROVE  ~BuildThreadPagesPanics(r)
<1> SUFFICES ASSUME BuildThreadPagesPanics(r) PROVE FALSE
    OBVIOUS
<1>1. PICK op \in req[r].todo : BuildablePosts(posts[op].thread) = {}
    BY DEF BuildThreadPagesPanics
<1>2. op \in BoardTopPosts
    BY <1>1 DEF AloneInv, ReadsHold, BuildThreadPagesPanics, At
<1>3. op \in PostIDs /\ posts[op].state = "live" /\ posts[op].top
    BY <1>2 DEF BoardTopPosts, LivePost
<1>4. threads[posts[op].thread].state = "live"
    BY <1>3 DEF IInv, RowsInv, OPAndThreadAgree
<1>5. op \in BuildablePosts(posts[op].thread)
    BY <1>3, <1>4 DEF BuildablePosts, PostsIn, LivePost, LiveThread
<1> QED BY <1>1, <1>5

\* Nobody else takes a step between a read and its use.
LEMMA AloneInductive ==
    ASSUME \A r, q \in Requests : r = q, IInv, AloneInv, [Next]_vars
    PROVE  AloneInv'
<1> USE DEF tables, disk, history
<1>r. req \in [Requests -> Locals] /\ pc \in [Requests -> Steps]
    BY DEF IInv, TypeInv, TypeOK
<1>1. CASE \E r \in Requests : RequestNext(r)
  <2>1. PICK r \in Requests : RequestNext(r)
      BY <1>1
  <2>2. SUFFICES up' = TRUE /\ ReadsHold(r)'
      BY DEF AloneInv
  <2>3. up /\ ReadsHold(r)
      BY <2>1 DEF AloneInv, RequestNext, MakePostNext, DeletePostsNext, BuildBoardNext, QueryFails,
           StartPost, SaveUpload, SaveUploadFails, PassFilter, RejectByFilter, FilteringFails,
           InsertReply, InsertThread, InsertPostFails, AttachFile, AttachFileFails, TakeOwnershipFails,
           CyclicCheck, CyclicCheckPanics, PrunePost, PruneFile, StartDelete, RemoveFiles,
           RemoveFilesFails, FilesRemoved, DeleteRows, MarkPostsAsDeleted, SelectOldThreads,
           DeleteOldThreads, CleanPost, CleanPostFails, PostsCleaned, SelectTopPosts,
           BuildThreadPages, BuildThreadPagesPanics, BoardBuilt, At
  <2>f. ASSUME Finish(r) \/ GotoBuild(r)
        PROVE  ReadsHold(r)'
      BY <2>f, FinishForgets, GotoBuildForgets DEF ReadsHold
  <2>g. ASSUME NEW step \in Steps \ {"removeFiles", "deleteRows", "pages"}, Goto(r, step)
        PROVE  ReadsHold(r)'
      BY <2>g, <1>r DEF Goto, ReadsHold
  <2>4. CASE MakePostNext(r)
    <3>1. up' = up
        BY <2>4 DEF MakePostNext, StartPost, SaveUpload, SaveUploadFails, PassFilter, RejectByFilter,
             FilteringFails, InsertReply, InsertThread, InsertPostFails, AttachFile, AttachFileFails,
             TakeOwnershipFails, CyclicCheck, CyclicCheckPanics, PrunePost, PruneFile
    <3>2. \/ Finish(r) \/ GotoBuild(r)
          \/ \E step \in {"save", "insert", "filter", "cyclic", "attach", "chown", "prune", "pruneFile"} :
                Goto(r, step)
        BY <2>4 DEF MakePostNext, StartPost, SaveUpload, SaveUploadFails, PassFilter, RejectByFilter,
             FilteringFails, InsertReply, InsertThread, InsertPostFails, AttachFile, AttachFileFails,
             TakeOwnershipFails, CyclicCheck, CyclicCheckPanics, PrunePost, PruneFile
    <3> QED BY <2>3, <2>f, <2>g, <3>1, <3>2 DEF Steps
  <2>5. CASE StartDelete(r)
    <3>1. PICK list \in SUBSET PostIDs, fileOnly \in BOOLEAN :
            req' = [req EXCEPT ![r].fileOnly = fileOnly, ![r].list = list, ![r].todo = list,
                       ![r].names = [q \in PostIDs |-> IF q \in list THEN files[q] ELSE NoUpload]]
      <4>1. PICK p \in PostIDs, fileOnly \in BOOLEAN :
              LET list == IF fileOnly THEN {p} ELSE PostsToDelete(p) IN
              req' = [req EXCEPT ![r].fileOnly = fileOnly, ![r].list = list, ![r].todo = list,
                         ![r].names = [q \in PostIDs |-> IF q \in list THEN files[q] ELSE NoUpload]]
          BY <2>5, Zenon DEF StartDelete
      <4>2. (IF fileOnly THEN {p} ELSE PostsToDelete(p)) \in SUBSET PostIDs
          BY DEF PostsToDelete, PostsIn
      <4> QED BY <4>1, <4>2
    <3>2. pc'[r] = "removeFiles" /\ UNCHANGED <<files, up>>
        BY <2>5, <1>r DEF StartDelete, Goto
    <3>3. req'[r].list = list /\ \A p \in list : req'[r].names[p] = files[p]
        BY <3>1, <1>r DEF Locals
    <3> QED BY <2>3, <3>2, <3>3 DEF ReadsHold
  <2>6. CASE RemoveFiles(r) \/ RemoveFilesFails(r)
    <3>1. /\ pc[r] = "removeFiles" /\ pc'[r] = pc[r] /\ UNCHANGED <<files, up>>
          /\ req'[r].list = req[r].list /\ req'[r].names = req[r].names
      <4>1. CASE RemoveFiles(r)
          BY <4>1, <1>r DEF RemoveFiles, At, Locals
      <4>2. CASE RemoveFilesFails(r)
        <5>1. PICK p \in req[r].todo : \E failed : req' = [req EXCEPT ![r].todo = @ \ {p}, ![r].failed = failed]
            BY <4>2 DEF RemoveFilesFails
        <5> QED BY <4>2, <5>1, <1>r DEF RemoveFilesFails, At, Locals
      <4> QED BY <2>6, <4>1, <4>2
    <3> QED BY <2>3, <3>1 DEF ReadsHold
  <2>7. CASE FilesRemoved(r)
    <3>1. CASE Finish(r)
        BY <2>7, <2>3, <2>f, <3>1 DEF FilesRemoved
    <3>2. CASE Goto(r, "deleteRows") /\ UNCHANGED req
      <4>1. /\ pc[r] = "removeFiles" /\ pc'[r] = "deleteRows"
            /\ UNCHANGED <<files, up, req>>
          BY <2>7, <3>2, <1>r DEF FilesRemoved, At, Goto
      <4> QED BY <2>3, <4>1 DEF ReadsHold
    <3> QED BY <2>7, <3>1, <3>2 DEF FilesRemoved
  <2>8. CASE DeleteRows(r) \/ MarkPostsAsDeleted(r)
    <3>1. up' = up /\ (GotoBuild(r) \/ Goto(r, "mark"))
        BY <2>8 DEF DeleteRows, MarkPostsAsDeleted
    <3> QED BY <2>3, <2>f, <2>g, <3>1 DEF Steps
  <2>9. CASE SelectOldThreads(r) \/ DeleteOldThreads(r) \/ PostsCleaned(r)
    <3>1. up' = up /\ \E step \in {"tops", "trimMark", "clean"} : Goto(r, step)
        BY <2>9 DEF SelectOldThreads, DeleteOldThreads, PostsCleaned
    <3> QED BY <2>3, <2>g, <3>1 DEF Steps
  <2>10. CASE CleanPost(r) \/ CleanPostFails(r) \/ BoardBuilt(r) \/ QueryFails(r)
    <3>1. CASE CleanPost(r)
        BY <2>3, <3>1 DEF CleanPost, At, ReadsHold
    <3>2. CASE CleanPostFails(r) \/ BoardBuilt(r) \/ QueryFails(r)
      <4>1. up' = up /\ Finish(r)
          BY <3>2 DEF CleanPostFails, BoardBuilt, QueryFails
      <4> QED BY <2>3, <2>f, <4>1
    <3> QED BY <2>10, <3>1, <3>2
  <2>11. CASE SelectTopPosts(r)
    <3>1. /\ req' = [req EXCEPT ![r].todo = BoardTopPosts] /\ pc' = [pc EXCEPT ![r] = "pages"]
          /\ UNCHANGED <<posts, up>>
        BY <2>11 DEF SelectTopPosts, Goto
    <3>2. pc'[r] = "pages" /\ req'[r].todo = BoardTopPosts
        BY <3>1, <1>r DEF Locals
    <3>3. BoardTopPosts' = BoardTopPosts
        BY <3>1 DEF BoardTopPosts, LivePost
    <3> QED BY <2>3, <3>1, <3>2, <3>3 DEF ReadsHold
  <2>12. CASE BuildThreadPages(r)
    <3>1. PICK op \in req[r].todo : req' = [req EXCEPT ![r].todo = @ \ {op}]
        BY <2>12 DEF BuildThreadPages
    <3>2. pc[r] = "pages" /\ UNCHANGED <<pc, posts, up>>
        BY <2>12 DEF BuildThreadPages, At
    <3>3. req'[r].todo \subseteq req[r].todo
        BY <3>1, <1>r DEF Locals
    <3>4. BoardTopPosts' = BoardTopPosts
        BY <3>2 DEF BoardTopPosts, LivePost
    <3> QED BY <2>3, <3>2, <3>3, <3>4 DEF ReadsHold
  <2> QED BY <2>1, <2>4, <2>5, <2>6, <2>7, <2>8, <2>9, <2>10, <2>11, <2>12, NoPanic
          DEF RequestNext, DeletePostsNext, BuildBoardNext
<1>2. CASE Crash
    BY <1>2 DEF Crash, Die, AloneInv, ReadsHold
<1>3. CASE Startup
    BY <1>3 DEF Startup, AloneInv, ReadsHold
<1>4. CASE UNCHANGED vars
  <2>1. BoardTopPosts' = BoardTopPosts
      BY <1>4 DEF BoardTopPosts, LivePost, vars
  <2> QED BY <1>4, <2>1 DEF vars, AloneInv, ReadsHold
<1> QED BY <1>1, <1>2, <1>3, <1>4 DEF Next

\* A server that serves one request at a time keeps track of the uploads it has on disk: each
\* is in a row of files, about to get one, or was left by a request that was rejected.
THEOREM UploadsAccountedForCorrect ==
    ASSUME \A r, q \in Requests : r = q, "remove" \notin Faults, "crash" \notin Faults
    PROVE  Spec => []UploadsAccountedFor
<1> DEFINE Inv == IInv /\ OwnersInv /\ AloneInv /\ UploadsAccountedFor
<1>1. Init => Inv
    BY IInvInit, OwnersInvInit DEF Init, AloneInv, ReadsHold, UploadsAccountedFor
<1>2. Inv /\ [Next]_vars => Inv'
  <2> SUFFICES ASSUME Inv, [Next]_vars PROVE UploadsAccountedFor'
      BY IInvInductive, OwnersInductive, AloneInductive DEF NamesAreNew
  <2>t. src' \subseteq Filenames
      BY TypeInvInductive DEF IInv, TypeInv, TypeOK
  <2>1. CASE \E r \in Requests : KeepsOwners(r)
    <3>1. PICK r \in Requests : KeepsOwners(r)
        BY <2>1
    <3>2. \A f : ~DeletesOtherRow(r, f)
        BY DEF AloneInv, ReadsHold, DeletesOtherRow
    <3> QED BY <2>t, <3>1, <3>2 DEF KeepsOwners, UploadsAccountedFor
  <2>2. CASE Crash \/ \E r \in Requests : BuildThreadPagesPanics(r)
      BY <2>2, NoPanic DEF Crash
  <2>3. CASE src' = src /\ \A f : Accounted(f) => Accounted(f)'
      BY <2>3 DEF UploadsAccountedFor
  <2> QED BY <2>1, <2>2, <2>3, OwnersInductive DEF NamesAreNew
<1> HIDE DEF Inv
<1>3. Inv => UploadsAccountedFor
    BY DEF Inv
<1> QED BY <1>1, <1>2, <1>3, PTL DEF Spec

\* Served one request at a time, the server is never killed by its own build: a thread of which
\* BuildThreads saw the OP has posts when its page is written.
THEOREM BuildingNeverKillsTheServerCorrect ==
    ASSUME \A r, q \in Requests : r = q
    PROVE  Spec => BuildingNeverKillsTheServer
<1>1. Init => IInv /\ AloneInv
    BY IInvInit DEF Init, AloneInv, ReadsHold
<1>2. IInv /\ AloneInv /\ [Next]_vars => (IInv /\ AloneInv)'
    BY IInvInductive, AloneInductive
<1>3. IInv /\ AloneInv /\ [Next]_vars => [up /\ ~up' => Crash]_vars
  <2> SUFFICES ASSUME IInv, AloneInv, Next, up, ~up' PROVE Crash
      BY DEF vars
  <2>1. ASSUME NEW r \in Requests, RequestNext(r)
        PROVE  up' = up
      BY <2>1, NoPanic DEF RequestNext, MakePostNext, DeletePostsNext, BuildBoardNext, QueryFails,
           StartPost, SaveUpload, SaveUploadFails, PassFilter, RejectByFilter, FilteringFails,
           InsertReply, InsertThread, InsertPostFails, AttachFile, AttachFileFails, TakeOwnershipFails,
           CyclicCheck, CyclicCheckPanics, PrunePost, PruneFile, StartDelete, RemoveFiles,
           RemoveFilesFails, FilesRemoved, DeleteRows, MarkPostsAsDeleted, SelectOldThreads,
           DeleteOldThreads, CleanPost, CleanPostFails, PostsCleaned, SelectTopPosts,
           BuildThreadPages, BoardBuilt, disk
  <2> QED BY <2>1 DEF Next, Startup
<1>4. Spec => [][up /\ ~up' => Crash]_vars
    BY <1>1, <1>2, <1>3, PTL DEF Spec
<1> QED BY <1>4 DEF BuildingNeverKillsTheServer
===============================================================================
