------------------------------ MODULE ForumProofs ------------------------------
(***************************************************************************)
(* The handlers implement module Forum: each transaction maps to a new      *)
(* thread, a reply or a removal, every other step leaves what readers see   *)
(* as it is.  For any number of requests, whatever fails or crashes.        *)
(***************************************************************************)
EXTENDS ImageBoardProofs

\* Ids below the AUTO_INCREMENT have rows, rows are only ever marked, and a thread that has a
\* row has an OP.
PostRowsExist == \A p \in PostIDs : p < nextPost => posts[p].state # "none"
ThreadRowsExist == \A t \in ThreadIDs : threads[t].state # "none" <=> t < nextThread
ThreadsHaveOPs ==
    \A t \in ThreadIDs : t < nextThread => \E p \in PostIDs : posts[p].top /\ posts[p].thread = t

\* A request names threads that have been created, also when they were deleted since.
ThreadsKnown(r) == req[r].thread < nextThread /\ \A t \in req[r].victims : t < nextThread

ForumInv ==
    /\ PostRowsExist /\ ThreadRowsExist /\ ThreadsHaveOPs
    /\ \A r \in Requests : ThreadsKnown(r)

\* A step of module Forum, or none.
ForumStep == [Readers!ForumNext]_(Readers!forumVars)

\* No row comes or goes, and none changes but for being deleted.
RowsStay ==
    /\ UNCHANGED <<nextPost, nextThread>>
    /\ \A p \in PostIDs : /\ posts'[p].state = "none" <=> posts[p].state = "none"
                          /\ posts'[p].state = "live" => posts[p].state = "live"
                          /\ posts'[p].top = posts[p].top /\ posts'[p].thread = posts[p].thread
    /\ \A t \in ThreadIDs : /\ threads'[t].state = "none" <=> threads[t].state = "none"
                            /\ threads'[t].state = "live" => threads[t].state = "live"
                            /\ threads'[t].cyclic = threads[t].cyclic
                            /\ threads'[t].stickied = threads[t].stickied
                            /\ threads'[t].bump = threads[t].bump

-----------------------------------------------------------------------------
(* Steps that leave the rows alone or mark them as deleted.                   *)

\* Nothing that readers see changes.
LEMMA UnchangedStep ==
    ASSUME UNCHANGED <<posts, threads, nextPost, nextThread>>
    PROVE  RowsStay /\ ForumStep
<1>1. UNCHANGED Readers!forumVars
    BY DEF Readers!forumVars
<1> QED BY <1>1 DEF RowsStay, ForumStep

\* Posts and threads are marked, a thread exactly when its OP is: what is still live among
\* them is removed, the rest was removed before.
LEMMA MarkStep ==
    ASSUME IInv, ForumInv, NEW P, NEW T,
           posts' = PostsMarkedDeleted(P), threads' = ThreadsMarkedDeleted(T),
           UNCHANGED <<nextPost, nextThread>>,
           \A p \in PostIDs : p \in P => p < nextPost,
           \A t \in ThreadIDs : t \in T => t < nextThread,
           \A p \in PostIDs : posts[p].top => (p \in P <=> posts[p].thread \in T)
    PROVE  RowsStay /\ ForumStep
<1>r. posts \in [PostIDs -> PostRow] /\ threads \in [ThreadIDs -> ThreadRow]
    BY DEF IInv, TypeInv, TypeOK
<1>i. /\ PostRowsExist /\ ThreadRowsExist /\ ThreadsHaveOPs
      /\ OPAndThreadAgree
    BY DEF IInv, RowsInv, ForumInv
<1>1. ASSUME NEW p \in PostIDs
      PROVE  posts'[p] = IF p \in P THEN [posts[p] EXCEPT !.state = "deleted"] ELSE posts[p]
    BY DEF PostsMarkedDeleted
<1>2. ASSUME NEW t \in ThreadIDs
      PROVE  threads'[t] = IF t \in T THEN [threads[t] EXCEPT !.state = "deleted"] ELSE threads[t]
    BY DEF ThreadsMarkedDeleted
<1>3. ASSUME NEW p \in PostIDs
      PROVE  /\ posts'[p].state = IF p \in P THEN "deleted" ELSE posts[p].state
             /\ posts'[p].top = posts[p].top /\ posts'[p].thread = posts[p].thread
    BY <1>r, <1>1 DEF PostRow
<1>4. ASSUME NEW t \in ThreadIDs
      PROVE  /\ threads'[t].state = IF t \in T THEN "deleted" ELSE threads[t].state
             /\ threads'[t].locked = threads[t].locked /\ threads'[t].cyclic = threads[t].cyclic
             /\ threads'[t].stickied = threads[t].stickied /\ threads'[t].bump = threads[t].bump
  <2>1. CASE t \in T
    <3>1. threads[t] \in ThreadRow
        BY <1>r
    <3>2. threads'[t] = [threads[t] EXCEPT !.state = "deleted"]
        BY <2>1, <1>2
    <3> QED BY <2>1, <3>1, <3>2 DEF ThreadRow
  <2>2. CASE t \notin T
      BY <2>2, <1>2
  <2> QED BY <2>1, <2>2
<1>5. RowsStay
    BY <1>i, <1>3, <1>4 DEF RowsStay, PostRowsExist, ThreadRowsExist
<1> DEFINE live == {p \in PostIDs : p \in P /\ posts[p].state = "live"}
           gone == {posts[p].thread : p \in {q \in live : posts[q].top}}
<1>6. ASSUME NEW p \in PostIDs
      PROVE  posts'[p] = IF p \in live THEN [posts[p] EXCEPT !.state = "deleted"] ELSE posts[p]
  <2>1. CASE p \notin P \/ posts[p].state = "live"
      BY <2>1, <1>1
  <2>2. CASE p \in P /\ posts[p].state # "live"
    <3>1. posts[p].state = "deleted"
        BY <2>2, <1>i, <1>r DEF PostRowsExist, PostRow, RowStates
    <3>2. [posts[p] EXCEPT !.state = "deleted"] = posts[p]
        BY <3>1, <1>r DEF PostRow
    <3> QED BY <3>2, <2>2, <1>1
  <2> QED BY <2>1, <2>2
<1>7. ASSUME NEW t \in ThreadIDs
      PROVE  threads'[t].state = IF t \in gone THEN "deleted" ELSE threads[t].state
  <2>1. CASE t \in gone
    <3>1. t \in T
        BY <2>1
    <3> QED BY <3>1, <2>1, <1>4
  <2>2. CASE t \notin T
      BY <2>2, <1>4
  <2>3. CASE t \in T /\ t \notin gone
    <3>1. PICK p \in PostIDs : posts[p].top /\ posts[p].thread = t
        BY <2>3, <1>i DEF ThreadsHaveOPs
    <3>2. p \in P /\ posts[p].state # "live"
        BY <3>1, <2>3
    <3>3. posts[p].state = "deleted"
        BY <3>2, <1>i, <1>r DEF PostRowsExist, PostRow, RowStates
    <3>4. threads[t].state = "deleted"
        BY <3>1, <3>3, <1>i DEF OPAndThreadAgree
    <3> QED BY <3>4, <2>3, <1>4
  <2> QED BY <2>1, <2>2, <2>3
<1>8. posts' = [p \in PostIDs |-> IF p \in live THEN [posts[p] EXCEPT !.state = "deleted"] ELSE posts[p]]
    BY <1>6 DEF PostsMarkedDeleted
<1>9. [t \in ThreadIDs |-> [state |-> threads'[t].state, locked |-> threads'[t].locked]]
       = [t \in ThreadIDs |->
            IF t \in gone
            THEN [[s \in ThreadIDs |-> [state |-> threads[s].state, locked |-> threads[s].locked]][t]
                    EXCEPT !.state = "deleted"]
            ELSE [s \in ThreadIDs |-> [state |-> threads[s].state, locked |-> threads[s].locked]][t]]
  <2>1. ASSUME NEW t \in ThreadIDs
        PROVE  [state |-> threads'[t].state, locked |-> threads'[t].locked]
               = IF t \in gone THEN [[state |-> threads[t].state, locked |-> threads[t].locked]
                                        EXCEPT !.state = "deleted"]
                 ELSE [state |-> threads[t].state, locked |-> threads[t].locked]
      BY <1>4, <1>7
  <2> QED BY <2>1
<1>10. PICK Q \in SUBSET PostIDs : Q = live
    OBVIOUS
<1>11. Readers!Remove(Q)
  <2>1. \A p \in Q : posts[p].state = "live"
      BY <1>10
  <2>2. posts' = [p \in PostIDs |-> IF p \in Q THEN [posts[p] EXCEPT !.state = "deleted"] ELSE posts[p]]
      BY <1>8, <1>10
  <2>3. {posts[p].thread : p \in {q \in Q : posts[q].top}} = gone
      BY <1>10
  <2> QED BY <1>9, <2>1, <2>2, <2>3 DEF Readers!Remove
<1>12. \E R \in SUBSET PostIDs : Readers!Remove(R)
    BY <1>11
<1>13. Readers!ForumNext
    BY <1>12, Zenon DEF Readers!ForumNext
<1> QED BY <1>5, <1>13 DEF ForumStep

\* One reply is marked.
LEMMA MarkReplyStep ==
    ASSUME IInv, ForumInv, NEW p, p < nextPost, p \in PostIDs => ~posts[p].top,
           posts' = PostsMarkedDeleted({p}), UNCHANGED <<threads, nextPost, nextThread>>
    PROVE  RowsStay /\ ForumStep
<1>1. threads' = ThreadsMarkedDeleted({})
    BY DEF IInv, TypeInv, TypeOK, ThreadsMarkedDeleted
<1> QED BY <1>1, MarkStep

\* The clean-up of a post whose upload failed.
LEMMA AfterDeleteStep ==
    ASSUME IInv, ForumInv, NEW r \in Requests, posts' = PostsAfterDelete(req[r].post),
           UNCHANGED <<threads, nextPost, nextThread>>
    PROVE  RowsStay /\ ForumStep
<1>1. req[r].post < nextPost
    BY DEF IInv, ControlInv, LocalsHaveRows
<1>2. CASE posts[req[r].post].top
    BY <1>2, UnchangedStep DEF PostsAfterDelete
<1>3. CASE ~posts[req[r].post].top
    BY <1>1, <1>3, MarkReplyStep DEF PostsAfterDelete
<1> QED BY <1>2, <1>3

\* Whole threads are marked, with all their posts.
LEMMA MarkThreadsStep ==
    ASSUME IInv, ForumInv, NEW T, \A t \in ThreadIDs : t \in T => t < nextThread,
           posts' = PostsMarkedDeleted(PostsIn(T)), threads' = ThreadsMarkedDeleted(T),
           UNCHANGED <<nextPost, nextThread>>
    PROVE  RowsStay /\ ForumStep
<1>1. \A p \in PostIDs : p \in PostsIn(T) => p < nextPost
    BY DEF IInv, RowsInv, RowsBelowNext, PostsIn
<1>2. \A p \in PostIDs : posts[p].top => (p \in PostsIn(T) <=> posts[p].thread \in T)
    BY DEF IInv, RowsInv, OPsHaveThreads, PostsIn
<1> QED BY <1>1, <1>2, MarkStep

-----------------------------------------------------------------------------
(* The invariant, for a step of request r that inserts no row. *)

\* Such a step keeps the invariant if the variables of r still name threads that have rows.
LEMMA ForumKept ==
    ASSUME IInv, ForumInv, TypeInv', NEW r \in Requests, OthersKept(r), RowsStay, ThreadsKnown(r)'
    PROVE  ForumInv'
<1>1. PostRowsExist' /\ ThreadRowsExist' /\ ThreadsHaveOPs'
    BY DEF ForumInv, RowsStay, PostRowsExist, ThreadRowsExist, ThreadsHaveOPs
<1>2. \A q \in Requests : ThreadsKnown(q)'
    BY DEF ForumInv, RowsStay, ThreadsKnown, OthersKept
<1> QED BY <1>1, <1>2 DEF ForumInv

\* A request that returns knows no thread, one that starts building those it knew.
LEMMA ForumFinish ==
    ASSUME IInv, ForumInv, TypeInv', NEW r \in Requests, Finish(r) \/ GotoBuild(r), RowsStay
    PROVE  ForumInv' /\ OthersKept(r)
<1>1. req \in [Requests -> Locals] /\ pc \in [Requests -> Steps]
    BY DEF IInv, TypeInv, TypeOK
<1>2. OthersKept(r) /\ req'[r].victims = {} /\ req'[r].thread \in {0, req[r].thread}
  <2>1. CASE Finish(r)
    <3>1. OthersKept(r) /\ req'[r] = NoLocals
        BY <2>1, <1>1 DEF Finish, OthersKept
    <3> QED BY <3>1 DEF NoLocals
  <2>2. CASE GotoBuild(r)
    <3>1. /\ OthersKept(r)
          /\ req'[r] = [NoLocals EXCEPT !.thread = req[r].thread, !.post = req[r].post]
        BY <2>2, <1>1 DEF GotoBuild, Goto, OthersKept
    <3> QED BY <3>1 DEF NoLocals
  <2> QED BY <2>1, <2>2
<1>3. nextThread > 0
    BY BoundsAssumption DEF IInv, TypeInv, TypeOK
<1>4. ThreadsKnown(r)'
    BY <1>2, <1>3 DEF ForumInv, ThreadsKnown, RowsStay
<1> QED BY <1>2, <1>4, ForumKept

\* A request that goes on with the threads it knows.
LEMMA ForumGoto ==
    ASSUME IInv, ForumInv, TypeInv', NEW r \in Requests, OthersKept(r), RowsStay,
           req'[r].thread = req[r].thread, req'[r].victims = req[r].victims
    PROVE  ForumInv'
<1>1. ThreadsKnown(r)'
    BY DEF ForumInv, ThreadsKnown, RowsStay
<1> QED BY <1>1, ForumKept

\* The rows keep the invariant when none comes or goes.
LEMMA ForumRowsKept ==
    ASSUME ForumInv, RowsStay
    PROVE  PostRowsExist' /\ ThreadRowsExist' /\ ThreadsHaveOPs'
BY DEF ForumInv, RowsStay, PostRowsExist, ThreadRowsExist, ThreadsHaveOPs

\* Nothing is left of the requests of a process that died.
LEMMA ForumDie ==
    ASSUME IInv, ForumInv, Die, RowsStay
    PROVE  ForumInv'
<1>1. nextThread > 0
    BY BoundsAssumption DEF IInv, TypeInv, TypeOK
<1>2. \A q \in Requests : req'[q].thread = 0 /\ req'[q].victims = {}
    BY DEF Die, NoLocals
<1>3. \A q \in Requests : ThreadsKnown(q)'
    BY <1>1, <1>2 DEF ThreadsKnown, RowsStay
<1> QED BY <1>3, ForumRowsKept DEF ForumInv

\* The threads over the limit of the board exist.
LEMMA TrimmedExist ==
    ASSUME IInv, ForumInv
    PROVE  \A t \in ThreadIDs : t \in TrimmedThreads => t < nextThread
BY DEF ForumInv, ThreadRowsExist, TrimmedThreads, LiveThread

-----------------------------------------------------------------------------
(* Every action keeps ForumInv and is a step of module Forum, or none. *)

\* Insert of a reply: readers see one more post in a thread that is not locked.
LEMMA InsertReplyStep ==
    ASSUME IInv, ForumInv, TypeInv', NEW r \in Requests, InsertReply(r)
    PROVE  ForumInv' /\ ForumStep
<1>r. /\ req \in [Requests -> Locals] /\ posts \in [PostIDs -> PostRow]
      /\ threads \in [ThreadIDs -> ThreadRow] /\ nextPost \in Int /\ nextThread \in Int
    BY BoundsAssumption DEF IInv, TypeInv, TypeOK
<1>i. PostRowsExist /\ ThreadRowsExist /\ ThreadsHaveOPs /\ \A q \in Requests : ThreadsKnown(q)
    BY DEF ForumInv
<1> DEFINE t == req[r].thread
           row == [state |-> "live", thread |-> t, top |-> FALSE]
<1>1. /\ t # 0 /\ ~threads[t].locked /\ nextPost <= MaxPostID
      /\ posts' = [posts EXCEPT ![nextPost] = row]
      /\ nextPost' = nextPost + 1 /\ nextThread' = nextThread
      /\ req' = [req EXCEPT ![r].post = nextPost]
    BY DEF InsertReply
<1>2. PICK bump : threads' = [threads EXCEPT ![t].bump = bump]
    BY DEF InsertReply
<1>3. t \in ThreadIDs /\ t < nextThread
    BY <1>1, <1>i, <1>r, BoundsAssumption DEF ThreadsKnown, Locals, ThreadIDs
<1>4. nextPost \in PostIDs /\ posts[nextPost].state = "none"
  <2>1. nextPost \in PostIDs
      BY <1>1, BoundsAssumption DEF PostIDs, IInv, TypeInv, TypeOK
  <2> QED BY <2>1, <1>r DEF IInv, RowsInv, RowsBelowNext
<1>5. ASSUME NEW s \in ThreadIDs
      PROVE  threads'[s].state = threads[s].state /\ threads'[s].locked = threads[s].locked
    BY <1>2, <1>r DEF ThreadRow
<1>6. ASSUME NEW p \in PostIDs
      PROVE  posts'[p] = IF p = nextPost THEN row ELSE posts[p]
    BY <1>1, <1>r
<1>7. ForumInv'
  <2>1. PostRowsExist'
    <3> SUFFICES ASSUME NEW p \in PostIDs, p < nextPost + 1
                 PROVE  posts'[p].state # "none"
        BY <1>1 DEF PostRowsExist
    <3>1. CASE p = nextPost
        BY <3>1, <1>6
    <3>2. CASE p # nextPost
      <4>1. p < nextPost
          BY <3>2, <1>r DEF PostIDs
      <4> QED BY <4>1, <3>2, <1>6, <1>i DEF PostRowsExist
    <3> QED BY <3>1, <3>2
  <2>2. ThreadRowsExist'
      BY <1>1, <1>5, <1>i DEF ThreadRowsExist
  <2>3. ThreadsHaveOPs'
    <3>1. ASSUME NEW p \in PostIDs, posts[p].top
          PROVE  posts'[p].top /\ posts'[p].thread = posts[p].thread
        BY <3>1, <1>4, <1>6 DEF IInv, RowsInv, OPsHaveThreads
    <3> QED BY <3>1, <1>1, <1>i DEF ThreadsHaveOPs
  <2>4. \A q \in Requests : req'[q].thread = req[q].thread /\ req'[q].victims = req[q].victims
      BY <1>1, <1>r DEF Locals
  <2>5. \A q \in Requests : ThreadsKnown(q)'
      BY <2>4, <1>1, <1>i DEF ThreadsKnown
  <2> QED BY <2>1, <2>2, <2>3, <2>5 DEF ForumInv
<1>8. ForumStep
  <2>1. [s \in ThreadIDs |-> [state |-> threads'[s].state, locked |-> threads'[s].locked]]
        = [s \in ThreadIDs |-> [state |-> threads[s].state, locked |-> threads[s].locked]]
      BY <1>5
  <2>2. PICK n \in PostIDs, s \in ThreadIDs : n = nextPost /\ s = t
      BY <1>3, <1>4
  <2>3. threads[s].state # "none"
      BY <1>3, <2>2, <1>i DEF ThreadRowsExist
  <2>4. Readers!Reply(n, s)
      BY <1>1, <1>4, <2>1, <2>2, <2>3 DEF Readers!Reply
  <2> QED BY <2>4 DEF Readers!ForumNext, ForumStep
<1> QED BY <1>7, <1>8

\* Insert of a new thread: readers see the thread and its OP at once.
LEMMA InsertThreadStep ==
    ASSUME IInv, ForumInv, TypeInv', NEW r \in Requests, InsertThread(r)
    PROVE  ForumInv' /\ ForumStep
<1>r. /\ req \in [Requests -> Locals] /\ posts \in [PostIDs -> PostRow]
      /\ threads \in [ThreadIDs -> ThreadRow] /\ nextPost \in Int /\ nextThread \in Int
    BY BoundsAssumption DEF IInv, TypeInv, TypeOK
<1>i. PostRowsExist /\ ThreadRowsExist /\ ThreadsHaveOPs /\ \A q \in Requests : ThreadsKnown(q)
    BY DEF ForumInv
<1> DEFINE row == [state |-> "live", thread |-> nextThread, top |-> TRUE]
<1>1. /\ nextPost <= MaxPostID /\ nextThread <= MaxThreadID
      /\ posts' = [posts EXCEPT ![nextPost] = row]
      /\ nextPost' = nextPost + 1 /\ nextThread' = nextThread + 1
      /\ req' = [req EXCEPT ![r].post = nextPost]
    BY DEF InsertThread
<1>2. PICK kind \in ThreadKinds :
        threads' = [threads EXCEPT ![nextThread] =
                      [state |-> "live", cyclic |-> kind.cyclic, stickied |-> kind.stickied,
                       locked |-> kind.locked, bump |-> nextPost]]
    BY DEF InsertThread
<1>3. nextThread \in ThreadIDs /\ nextPost \in PostIDs
    BY <1>1, BoundsAssumption DEF ThreadIDs, PostIDs, IInv, TypeInv, TypeOK
<1>4. posts[nextPost].state = "none" /\ threads[nextThread].state = "none"
  <2>1. posts[nextPost].state = "none"
      BY <1>3, <1>r DEF IInv, RowsInv, RowsBelowNext
  <2>2. threads[nextThread].state = "none"
      BY <1>3, <1>r, <1>i DEF ThreadRowsExist
  <2> QED BY <2>1, <2>2
<1>5. ASSUME NEW s \in ThreadIDs
      PROVE  /\ threads'[s].state = IF s = nextThread THEN "live" ELSE threads[s].state
             /\ threads'[s].locked = IF s = nextThread THEN kind.locked ELSE threads[s].locked
    BY <1>2, <1>r
<1>6. ASSUME NEW p \in PostIDs
      PROVE  posts'[p] = IF p = nextPost THEN row ELSE posts[p]
    BY <1>1, <1>r
<1>7. ForumInv'
  <2>1. PostRowsExist'
    <3> SUFFICES ASSUME NEW p \in PostIDs, p < nextPost + 1
                 PROVE  posts'[p].state # "none"
        BY <1>1 DEF PostRowsExist
    <3>1. CASE p = nextPost
        BY <3>1, <1>6
    <3>2. CASE p # nextPost
      <4>1. p < nextPost
          BY <3>2, <1>r DEF PostIDs
      <4> QED BY <4>1, <3>2, <1>6, <1>i DEF PostRowsExist
    <3> QED BY <3>1, <3>2
  <2>2. ThreadRowsExist'
    <3> SUFFICES ASSUME NEW s \in ThreadIDs
                 PROVE  threads'[s].state # "none" <=> s < nextThread + 1
        BY <1>1 DEF ThreadRowsExist
    <3>1. CASE s = nextThread
        BY <3>1, <1>5, <1>r
    <3>2. CASE s # nextThread
      <4>1. s < nextThread + 1 <=> s < nextThread
          BY <3>2, <1>r DEF ThreadIDs
      <4> QED BY <4>1, <3>2, <1>5, <1>i DEF ThreadRowsExist
    <3> QED BY <3>1, <3>2
  <2>3. ThreadsHaveOPs'
    <3> SUFFICES ASSUME NEW s \in ThreadIDs, s < nextThread + 1
                 PROVE  \E p \in PostIDs : posts'[p].top /\ posts'[p].thread = s
        BY <1>1 DEF ThreadsHaveOPs
    <3>1. CASE s = nextThread
        BY <3>1, <1>3, <1>6
    <3>2. CASE s # nextThread
      <4>1. s < nextThread
          BY <3>2, <1>r DEF ThreadIDs
      <4>2. PICK p \in PostIDs : posts[p].top /\ posts[p].thread = s
          BY <4>1, <1>i DEF ThreadsHaveOPs
      <4>3. p # nextPost
          BY <4>2, <1>4 DEF IInv, RowsInv, OPsHaveThreads
      <4> QED BY <4>2, <4>3, <1>6
    <3> QED BY <3>1, <3>2
  <2>4. \A q \in Requests : req'[q].thread = req[q].thread /\ req'[q].victims = req[q].victims
      BY <1>1, <1>r DEF Locals
  <2>5. ASSUME NEW q \in Requests
        PROVE  ThreadsKnown(q)'
    <3>1. req[q].thread \in Int /\ req[q].victims \subseteq ThreadIDs
        BY <1>r, BoundsAssumption DEF Locals
    <3>2. req[q].thread < nextThread + 1 /\ \A s \in req[q].victims : s < nextThread + 1
        BY <3>1, <1>i, <1>r DEF ThreadsKnown, ThreadIDs
    <3> QED BY <3>2, <2>4, <1>1 DEF ThreadsKnown
  <2> QED BY <2>1, <2>2, <2>3, <2>5 DEF ForumInv
<1>8. ForumStep
  <2>1. kind.locked \in BOOLEAN
      BY KindsAssumption
  <2>2. PICK n \in PostIDs, s \in ThreadIDs : n = nextPost /\ s = nextThread
      BY <1>3
  <2>3. [u \in ThreadIDs |-> [state |-> threads'[u].state, locked |-> threads'[u].locked]]
        = [[u \in ThreadIDs |-> [state |-> threads[u].state, locked |-> threads[u].locked]]
             EXCEPT ![s] = [state |-> "live", locked |-> kind.locked]]
      BY <1>5, <2>2
  <2>4. Readers!NewThread(n, s)
    <3>1. \E locked \in BOOLEAN :
            [u \in ThreadIDs |-> [state |-> threads'[u].state, locked |-> threads'[u].locked]]
            = [[u \in ThreadIDs |-> [state |-> threads[u].state, locked |-> threads[u].locked]]
                 EXCEPT ![s] = [state |-> "live", locked |-> locked]]
        BY <2>1, <2>3
    <3> QED BY <3>1, <1>1, <1>4, <2>2 DEF Readers!NewThread
  <2> QED BY <2>4 DEF Readers!ForumNext, ForumStep
<1> QED BY <1>7, <1>8

\* pkg/posting/post.go implements the forum.
LEMMA MakePostForum ==
    ASSUME IInv, ForumInv, TypeInv', NEW r \in Requests, MakePostNext(r)
    PROVE  /\ ForumInv' /\ ForumStep
           /\ InsertReply(r) \/ InsertThread(r) \/ (RowsStay /\ OthersKept(r))
<1> USE DEF tables, disk, history
<1>r. req \in [Requests -> Locals] /\ pc \in [Requests -> Steps]
    BY DEF IInv, TypeInv, TypeOK
<1>1. CASE StartPost(r)
  <2>1. PICK t \in {0} \cup {posts[p].thread : p \in {q \in PostIDs : posts[q].top}} :
            req' = [req EXCEPT ![r].thread = t]
      BY <1>1 DEF StartPost
  <2>2. t < nextThread
      BY <2>1, BoundsAssumption DEF IInv, TypeInv, TypeOK, RowsInv, OPsHaveThreads
  <2>3. /\ OthersKept(r) /\ req'[r].thread = t /\ req'[r].victims = req[r].victims
        /\ nextThread' = nextThread
      BY <1>1, <2>1, <1>r DEF StartPost, Goto, OthersKept, Locals
  <2>4. ThreadsKnown(r)'
      BY <2>2, <2>3 DEF ForumInv, ThreadsKnown
  <2> QED BY <1>1, <2>3, <2>4, UnchangedStep, ForumKept DEF StartPost
<1>2. CASE SaveUpload(r) \/ PassFilter(r) \/ AttachFile(r)
  <2>1. /\ OthersKept(r) /\ req'[r].thread = req[r].thread /\ req'[r].victims = req[r].victims
    <3>1. CASE SaveUpload(r)
        BY <3>1, <1>r DEF SaveUpload, Goto, OthersKept, Locals
    <3>2. CASE PassFilter(r) \/ AttachFile(r)
        BY <3>2, <1>r DEF PassFilter, AttachFile, Goto, OthersKept
    <3> QED BY <1>2, <3>1, <3>2
  <2>2. UNCHANGED <<posts, threads, nextPost, nextThread>>
      BY <1>2 DEF SaveUpload, PassFilter, AttachFile
  <2> QED BY <2>1, <2>2, UnchangedStep, ForumGoto
<1>3. CASE \/ SaveUploadFails(r) \/ RejectByFilter(r) \/ FilteringFails(r)
           \/ InsertPostFails(r) \/ CyclicCheckPanics(r)
  <2>1. Finish(r) /\ UNCHANGED <<posts, threads, nextPost, nextThread>>
      BY <1>3 DEF SaveUploadFails, RejectByFilter, FilteringFails, InsertPostFails, CyclicCheckPanics
  <2> QED BY <2>1, UnchangedStep, ForumFinish
<1>4. CASE InsertReply(r)
    BY <1>4, InsertReplyStep
<1>5. CASE InsertThread(r)
    BY <1>5, InsertThreadStep
<1>6. CASE AttachFileFails(r)
    BY <1>6, AfterDeleteStep, ForumFinish DEF AttachFileFails
<1>7. CASE TakeOwnershipFails(r)
  <2>1. OthersKept(r) /\ req' = req
      BY <1>7, <1>r DEF TakeOwnershipFails, Goto, OthersKept
  <2> QED BY <1>7, <2>1, AfterDeleteStep, ForumGoto DEF TakeOwnershipFails
<1>8. CASE CyclicCheck(r)
  <2> DEFINE P == IF req[r].thread # 0 /\ threads[req[r].thread].cyclic
                  THEN CyclicOverflow(req[r].thread) ELSE {}
             names == [p \in PostIDs |-> IF p \in P THEN files[p] ELSE NoUpload]
  <2>1. UNCHANGED <<posts, threads, nextPost, nextThread>>
      BY <1>8 DEF CyclicCheck
  <2>2. IF P = {} THEN GotoBuild(r)
        ELSE req' = [req EXCEPT ![r].todo = P, ![r].names = names] /\ Goto(r, "prune")
      BY <1>8 DEF CyclicCheck
  <2> HIDE DEF P
  <2>3. CASE P = {}
      BY <2>1, <2>2, <2>3, UnchangedStep, ForumFinish
  <2>4. CASE P # {}
    <3>1. /\ OthersKept(r)
          /\ req'[r].thread = req[r].thread /\ req'[r].victims = req[r].victims
        BY <2>2, <2>4, <1>r DEF Goto, OthersKept, Locals
    <3> QED BY <2>1, <3>1, UnchangedStep, ForumGoto
  <2> QED BY <2>3, <2>4
<1>9. CASE PrunePost(r)
  <2>1. /\ pc[r] = "prune" /\ OthersKept(r) /\ req' = req
        /\ posts' = PostsMarkedDeleted({NextToPrune(r)})
        /\ UNCHANGED <<threads, nextPost, nextThread>>
      BY <1>9, <1>r DEF PrunePost, At, Goto, OthersKept
  <2>2. NextToPrune(r) < nextPost /\ ~posts[NextToPrune(r)].top
      BY <2>1, NextToPruneInTodo DEF IInv, ControlInv, PrunesReplies
  <2> QED BY <2>1, <2>2, MarkReplyStep, ForumGoto
<1>10. CASE PruneFile(r)
  <2>1. UNCHANGED <<posts, threads, nextPost, nextThread>>
      BY <1>10 DEF PruneFile
  <2>2. CASE GotoBuild(r)
      BY <2>1, <2>2, UnchangedStep, ForumFinish
  <2>3. CASE ~GotoBuild(r)
    <3>1. Goto(r, "prune") /\ req' = [req EXCEPT ![r].todo = req[r].todo \ {NextToPrune(r)}]
        BY <1>10, <2>3 DEF PruneFile
    <3>2. /\ OthersKept(r)
          /\ req'[r].thread = req[r].thread /\ req'[r].victims = req[r].victims
        BY <3>1, <1>r DEF Goto, OthersKept, Locals
    <3> QED BY <2>1, <3>2, UnchangedStep, ForumGoto
  <2> QED BY <2>2, <2>3
<1> QED BY <1>1, <1>2, <1>3, <1>4, <1>5, <1>6, <1>7, <1>8, <1>9, <1>10 DEF MakePostNext

\* cmd/gochan/deleteposts.go implements the forum.
LEMMA DeletePostsForum ==
    ASSUME IInv, ForumInv, TypeInv', NEW r \in Requests, DeletePostsNext(r)
    PROVE  ForumInv' /\ ForumStep /\ RowsStay /\ OthersKept(r)
<1> USE DEF tables, disk, history
<1>r. req \in [Requests -> Locals] /\ pc \in [Requests -> Steps]
    BY DEF IInv, TypeInv, TypeOK
<1>1. CASE StartDelete(r) \/ RemoveFiles(r) \/ RemoveFilesFails(r)
  <2>1. OthersKept(r) /\ req'[r].thread = req[r].thread /\ req'[r].victims = req[r].victims
    <3>1. CASE StartDelete(r)
      <4> PICK p \in PostIDs, fileOnly \in BOOLEAN :
            LET list == IF fileOnly THEN {p} ELSE PostsToDelete(p) IN
            /\ req' = [req EXCEPT ![r].fileOnly = fileOnly, ![r].list = list, ![r].todo = list,
                                  ![r].names = [q \in PostIDs |-> IF q \in list THEN files[q] ELSE NoUpload]]
            /\ asked' = asked \cup list
          BY <3>1, Zenon DEF StartDelete
      <4> PICK list : list = IF fileOnly THEN {p} ELSE PostsToDelete(p)
          OBVIOUS
      <4>1. /\ req' = [req EXCEPT ![r].fileOnly = fileOnly, ![r].list = list, ![r].todo = list,
                                  ![r].names = [q \in PostIDs |-> IF q \in list THEN files[q] ELSE NoUpload]]
            /\ asked' = asked \cup list
          OBVIOUS
      <4> QED BY <3>1, <4>1, <1>r DEF StartDelete, Goto, OthersKept, Locals
    <3>2. CASE RemoveFiles(r)
        BY <3>2, <1>r DEF RemoveFiles, OthersKept, Locals
    <3>3. CASE RemoveFilesFails(r)
      <4>1. PICK p, hidden : req' = [req EXCEPT ![r].todo = @ \ {p}, ![r].failed = @ \/ ~hidden]
          BY <3>3 DEF RemoveFilesFails
      <4> QED BY <3>3, <4>1, <1>r DEF RemoveFilesFails, OthersKept, Locals
    <3> QED BY <1>1, <3>1, <3>2, <3>3
  <2>2. UNCHANGED <<posts, threads, nextPost, nextThread>>
      BY <1>1 DEF StartDelete, RemoveFiles, RemoveFilesFails
  <2> QED BY <2>1, <2>2, UnchangedStep, ForumGoto
<1>2. CASE FilesRemoved(r) \/ DeleteRows(r)
  <2>1. UNCHANGED <<posts, threads, nextPost, nextThread>>
      BY <1>2 DEF FilesRemoved, DeleteRows
  <2>2. CASE Finish(r) \/ GotoBuild(r)
      BY <2>1, <2>2, UnchangedStep, ForumFinish
  <2>3. CASE ~(Finish(r) \/ GotoBuild(r))
    <3>1. UNCHANGED req /\ (Goto(r, "deleteRows") \/ Goto(r, "mark"))
        BY <1>2, <2>3 DEF FilesRemoved, DeleteRows
    <3>2. OthersKept(r) /\ req'[r] = req[r]
        BY <3>1, <1>r DEF Goto, OthersKept
    <3> QED BY <2>1, <3>2, UnchangedStep, ForumGoto
  <2> QED BY <2>2, <2>3
<1>3. CASE MarkPostsAsDeleted(r)
  <2> DEFINE list == req[r].list
             T == {posts[p].thread : p \in {q \in list : posts[q].top}}
  <2>1. /\ GotoBuild(r)
        /\ posts' = PostsMarkedDeleted(list) /\ threads' = ThreadsMarkedDeleted(T)
        /\ UNCHANGED <<nextPost, nextThread>>
      BY <1>3 DEF MarkPostsAsDeleted
  <2>2. list \subseteq PostIDs /\ \A p \in list : p < nextPost
      BY <1>r DEF IInv, ControlInv, LocalsHaveRows, Locals
  <2>3. \A t \in T : t < nextThread
      BY <2>2, BoundsAssumption DEF IInv, RowsInv, OPsHaveThreads, TypeInv, TypeOK
  <2>4. \A p \in PostIDs : posts[p].top => (p \in list <=> posts[p].thread \in T)
      BY <2>2 DEF IInv, RowsInv, OneOPPerThread
  <2> HIDE DEF T
  <2> QED BY <2>1, <2>2, <2>3, <2>4, MarkStep, ForumFinish
<1> QED BY <1>1, <1>2, <1>3 DEF DeletePostsNext

\* pkg/building/boards.go implements the forum.
LEMMA BuildBoardForum ==
    ASSUME IInv, ForumInv, TypeInv', NEW r \in Requests, BuildBoardNext(r)
    PROVE  /\ ForumInv' /\ ForumStep
           /\ BuildThreadPagesPanics(r) \/ (RowsStay /\ OthersKept(r))
<1> USE DEF tables, disk, history
<1>r. req \in [Requests -> Locals] /\ pc \in [Requests -> Steps]
    BY DEF IInv, TypeInv, TypeOK
<1>1. CASE SelectOldThreads(r)
  <2>1. \A t \in TrimmedThreads : t < nextThread
      BY TrimmedExist DEF TrimmedThreads
  <2>2. /\ OthersKept(r) /\ req'[r].thread = req[r].thread /\ req'[r].victims = TrimmedThreads
        /\ nextThread' = nextThread
      BY <1>1, <1>r DEF SelectOldThreads, Goto, OthersKept, Locals
  <2>3. ThreadsKnown(r)'
      BY <2>1, <2>2 DEF ForumInv, ThreadsKnown
  <2> QED BY <1>1, <2>2, <2>3, UnchangedStep, ForumKept DEF SelectOldThreads
<1>2. CASE DeleteOldThreads(r)
  <2> DEFINE T == req[r].victims
             P == PostsIn(T)
  <2>1. /\ posts' = PostsMarkedDeleted(PostsIn(T)) /\ threads' = ThreadsMarkedDeleted(T)
        /\ UNCHANGED <<nextPost, nextThread>>
        /\ req' = [req EXCEPT ![r].todo = P] /\ Goto(r, "clean")
      BY <1>2 DEF DeleteOldThreads
  <2>2. \A t \in T : t < nextThread
      BY DEF ForumInv, ThreadsKnown
  <2>3. RowsStay /\ ForumStep
      BY <2>1, <2>2, MarkThreadsStep
  <2>4. OthersKept(r) /\ req'[r].thread = req[r].thread /\ req'[r].victims = req[r].victims
      BY <2>1, <1>r DEF Goto, OthersKept, Locals
  <2> QED BY <2>3, <2>4, ForumGoto
<1>3. CASE CleanPost(r) \/ PostsCleaned(r) \/ SelectTopPosts(r) \/ BuildThreadPages(r)
  <2>1. OthersKept(r) /\ req'[r].thread = req[r].thread /\ req'[r].victims = req[r].victims
    <3>1. CASE CleanPost(r)
        BY <3>1, <1>r DEF CleanPost, OthersKept, Locals
    <3>2. CASE PostsCleaned(r)
        BY <3>2, <1>r DEF PostsCleaned, Goto, OthersKept
    <3>3. CASE SelectTopPosts(r)
        BY <3>3, <1>r DEF SelectTopPosts, Goto, OthersKept, Locals
    <3>4. CASE BuildThreadPages(r)
        BY <3>4, <1>r DEF BuildThreadPages, OthersKept, Locals
    <3> QED BY <1>3, <3>1, <3>2, <3>3, <3>4
  <2>2. UNCHANGED <<posts, threads, nextPost, nextThread>>
      BY <1>3 DEF CleanPost, PostsCleaned, SelectTopPosts, BuildThreadPages
  <2> QED BY <2>1, <2>2, UnchangedStep, ForumGoto
<1>4. CASE CleanPostFails(r) \/ BoardBuilt(r)
  <2>1. Finish(r) /\ UNCHANGED <<posts, threads, nextPost, nextThread>>
      BY <1>4 DEF CleanPostFails, BoardBuilt
  <2> QED BY <2>1, UnchangedStep, ForumFinish
<1>5. CASE BuildThreadPagesPanics(r)
    BY <1>5, UnchangedStep, ForumDie DEF BuildThreadPagesPanics
<1> QED BY <1>1, <1>2, <1>3, <1>4, <1>5 DEF BuildBoardNext

\* Every step of the server, a crash and a restart included, implements the forum.
LEMMA ForumInductive ==
    IInv /\ ForumInv /\ [Next]_vars => ForumInv' /\ ForumStep
<1> SUFFICES ASSUME IInv, ForumInv, [Next]_vars
             PROVE  ForumInv' /\ ForumStep
    OBVIOUS
<1>t. TypeInv'
    BY TypeInvInductive DEF IInv
<1>1. CASE \E r \in Requests : RequestNext(r)
  <2>1. PICK r \in Requests : RequestNext(r)
      BY <1>1
  <2>2. CASE QueryFails(r)
    <3>1. Finish(r) /\ UNCHANGED <<posts, threads, nextPost, nextThread>>
        BY <2>2 DEF QueryFails, tables
    <3> QED BY <1>t, <3>1, UnchangedStep, ForumFinish
  <2> QED BY <1>t, <2>1, <2>2, MakePostForum, DeletePostsForum, BuildBoardForum DEF RequestNext
<1>2. CASE Crash
    BY <1>t, <1>2, UnchangedStep, ForumDie DEF Crash, tables
<1>3. CASE Startup
  <2>1. /\ posts' = PostsMarkedDeleted(PostsIn(TrimmedThreads))
        /\ threads' = ThreadsMarkedDeleted(TrimmedThreads)
        /\ UNCHANGED <<nextPost, nextThread, req>>
      BY <1>3 DEF Startup
  <2>2. RowsStay /\ ForumStep
      BY <2>1, TrimmedExist, MarkThreadsStep
  <2>3. \A q \in Requests : ThreadsKnown(q)'
      BY <2>1 DEF ForumInv, ThreadsKnown
  <2> QED BY <2>2, <2>3, ForumRowsKept DEF ForumInv
<1>4. CASE UNCHANGED vars
  <2>1. UNCHANGED <<posts, threads, nextPost, nextThread, req>>
      BY <1>4 DEF vars, tables
  <2>2. \A q \in Requests : ThreadsKnown(q)'
      BY <2>1 DEF ForumInv, ThreadsKnown
  <2> QED BY <2>1, <2>2, UnchangedStep, ForumRowsKept DEF ForumInv
<1> QED BY <1>1, <1>2, <1>3, <1>4 DEF Next

\* An empty board is an empty forum.
LEMMA ForumInvInit == Init => ForumInv /\ Readers!ForumInit
<1> SUFFICES ASSUME Init PROVE ForumInv /\ Readers!ForumInit
    OBVIOUS
<1>1. /\ nextPost = 1 /\ nextThread = 1
      /\ \A p \in PostIDs : posts[p].state = "none" /\ ~(p < 1)
      /\ \A t \in ThreadIDs : threads[t].state = "none" /\ ~(t < 1)
    BY BoundsAssumption DEF Init, NoPost, NoThread, PostIDs, ThreadIDs
<1>2. PostRowsExist /\ ThreadRowsExist /\ ThreadsHaveOPs
    BY <1>1 DEF PostRowsExist, ThreadRowsExist, ThreadsHaveOPs
<1>3. \A r \in Requests : ThreadsKnown(r)
    BY <1>1 DEF Init, NoLocals, ThreadsKnown
<1>4. Readers!ForumInit
    BY <1>1 DEF Readers!ForumInit
<1> QED BY <1>2, <1>3, <1>4 DEF ForumInv

\* The handlers, each a sequence of transactions that others interleave with, that fail half
\* way or that a crash cuts short, show readers the board of module Forum: whole threads
\* appear and go in one step, locked threads get no replies, what was deleted stays deleted.
THEOREM ImplementsForumCorrect == Spec => ImplementsForum
<1>1. Init => IInv /\ ForumInv /\ Readers!ForumInit
    BY IInvInit, ForumInvInit
<1>2. IInv /\ ForumInv /\ [Next]_vars => IInv' /\ ForumInv' /\ [Readers!ForumNext]_(Readers!forumVars)
    BY IInvInductive, ForumInductive DEF ForumStep
<1> QED BY <1>1, <1>2, PTL DEF Spec, ImplementsForum, Readers!ForumSpec
===============================================================================
