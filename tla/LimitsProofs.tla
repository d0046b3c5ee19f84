------------------------------ MODULE LimitsProofs ------------------------------
(***************************************************************************)
(* The limits of the board: MaxThreads threads that are not stickied, and   *)
(* CyclicThreadNumPosts replies in a cyclic thread.  Requests read what is  *)
(* over the limit long before they delete it, many at a time; the proofs    *)
(* say what is left once any set of them has done so.                       *)
(***************************************************************************)
EXTENDS ForumProofs, FiniteSetTheorems

(* Facts about the size of finite sets. *)

\* Fewer things and more debts keep a limit.
LEMMA LimitShrinks ==
    ASSUME NEW n \in Nat, NEW K, NEW K2, NEW D, NEW D2, IsFiniteSet(K), IsFiniteSet(D2),
           K2 \subseteq K, D \subseteq D2, Cardinality(K) <= n + Cardinality(D)
    PROVE  Cardinality(K2) <= n + Cardinality(D2)
<1>1. Cardinality(K2) \in Nat /\ Cardinality(K) \in Nat /\ Cardinality(K2) <= Cardinality(K)
    BY FS_Subset, FS_CardinalityType
<1>2. Cardinality(D) \in Nat /\ Cardinality(D2) \in Nat /\ Cardinality(D) <= Cardinality(D2)
    BY FS_Subset, FS_CardinalityType
<1> QED BY <1>1, <1>2

\* One thing and one debt more keep a limit.
LEMMA LimitGrows ==
    ASSUME NEW n \in Nat, NEW K, NEW K2, NEW D, NEW D2, IsFiniteSet(K), IsFiniteSet(D2),
           NEW x, NEW y, K2 \subseteq K \cup {x}, D \cup {y} \subseteq D2, y \notin D,
           Cardinality(K) <= n + Cardinality(D)
    PROVE  Cardinality(K2) <= n + Cardinality(D2)
<1>1. IsFiniteSet(K \cup {x}) /\ Cardinality(K \cup {x}) <= Cardinality(K) + 1
  <2>1. Cardinality(K) \in Nat
      BY FS_CardinalityType
  <2>2. /\ IsFiniteSet(K \cup {x})
        /\ Cardinality(K \cup {x}) = IF x \in K THEN Cardinality(K) ELSE Cardinality(K) + 1
      BY FS_AddElement
  <2> QED BY <2>1, <2>2
<1>2. Cardinality(K2) \in Nat /\ Cardinality(K) \in Nat /\ Cardinality(K2) <= Cardinality(K) + 1
    BY <1>1, FS_Subset, FS_CardinalityType
<1>3. IsFiniteSet(D)
    BY FS_Subset
<1>4. IsFiniteSet(D \cup {y}) /\ Cardinality(D \cup {y}) = Cardinality(D) + 1
    BY <1>3, FS_AddElement
<1>5. Cardinality(D) \in Nat /\ Cardinality(D2) \in Nat /\ Cardinality(D) + 1 <= Cardinality(D2)
    BY <1>3, <1>4, FS_Subset, FS_CardinalityType
<1> QED BY <1>2, <1>5

\* Debts never break a limit that holds without them.
LEMMA LimitHolds ==
    ASSUME NEW n \in Nat, NEW K, NEW K2, NEW D, IsFiniteSet(K), IsFiniteSet(D),
           K2 \subseteq K, Cardinality(K) <= n
    PROVE  Cardinality(K2) <= n + Cardinality(D)
<1>1. Cardinality(K2) \in Nat /\ Cardinality(K) \in Nat /\ Cardinality(K2) <= Cardinality(K)
    BY FS_Subset, FS_CardinalityType
<1>2. Cardinality(D) \in Nat
    BY FS_CardinalityType
<1> QED BY <1>1, <1>2

\* A function takes no more values than it has arguments.
LEMMA ImageBound ==
    ASSUME NEW S, IsFiniteSet(S), NEW T, NEW f \in [S -> T]
    PROVE  IsFiniteSet({f[x] : x \in S}) /\ Cardinality({f[x] : x \in S}) <= Cardinality(S)
<1> DEFINE R == {f[x] : x \in S}
<1>1. f \in Surjection(S, R)
    BY DEF Surjection
<1> HIDE DEF R
<1>2. IsFiniteSet(R) /\ Cardinality(R) <= Cardinality(S)
    BY <1>1, FS_Surjection
<1> QED BY <1>2 DEF R

\* ORDER BY key DESC LIMIT n: at most n rows have fewer than n rows before them.
LEMMA FirstByKey ==
    ASSUME NEW C, IsFiniteSet(C), NEW key \in [C -> Nat],
           \A s, t \in C : key[s] = key[t] => s = t,
           NEW n \in Nat \ {0}
    PROVE  Cardinality({t \in C : ~(Cardinality({s \in C : key[s] > key[t]}) >= n)}) <= n
<1> DEFINE newer(t) == {s \in C : key[s] > key[t]}
           K == {t \in C : ~(Cardinality(newer(t)) >= n)}
<1> SUFFICES Cardinality(K) <= n
    OBVIOUS
<1>1. K \in SUBSET C
    OBVIOUS
<1>2. ASSUME NEW m \in K
      PROVE  ~(Cardinality(newer(m)) >= n)
    OBVIOUS
<1> HIDE DEF K
<1>3. IsFiniteSet(K)
    BY <1>1, FS_Subset
<1>4. CASE K = {}
    BY <1>4, FS_EmptySet
<1>5. CASE K # {}
  <2> DEFINE keys == {key[t] : t \in K}
  <2>1. keys \in SUBSET Nat /\ keys # {}
      BY <1>1, <1>5
  <2> HIDE DEF keys
  <2>2. PICK k \in keys : \A j \in keys : k <= j
      BY <2>1, LeastExists
  <2>3. PICK m \in K : key[m] = k
      BY DEF keys
  <2>4. ASSUME NEW t \in K, t # m
        PROVE  t \in newer(m)
    <3>1. key[t] \in keys /\ key[t] \in Nat /\ key[m] \in Nat /\ t \in C /\ m \in C
        BY <1>1 DEF keys
    <3>2. key[m] <= key[t]
        BY <2>2, <2>3, <3>1
    <3>3. key[t] # key[m]
        BY <2>4, <3>1
    <3> QED BY <3>1, <3>2, <3>3
  <2>5. newer(m) \in SUBSET C
      OBVIOUS
  <2>6. IsFiniteSet(newer(m)) /\ Cardinality(newer(m)) \in Nat
      BY <2>5, FS_Subset, FS_CardinalityType
  <2>7. Cardinality(newer(m)) < n
      BY <1>2, <2>6
  <2>8. K \ {m} \in SUBSET newer(m)
      BY <2>4
  <2> HIDE DEF newer
  <2>9. Cardinality(K) \in Nat /\ Cardinality(K \ {m}) = Cardinality(K) - 1
      BY <1>3, FS_RemoveElement, FS_CardinalityType
  <2>10. Cardinality(K \ {m}) <= Cardinality(newer(m))
      BY <2>6, <2>8, FS_Subset
  <2> QED BY <2>6, <2>7, <2>9, <2>10
<1> QED BY <1>4, <1>5

-----------------------------------------------------------------------------
(* The invariant. *)

\* The threads that count, and those that are left once the requests S have deleted what
\* they selected.
Counted == {t \in ThreadIDs : LiveThread(t) /\ ~threads[t].stickied}
Trimming == {r \in Requests : pc[r] = "trimMark"}
ThreadsLeft(S) == Counted \ UNION {req[r].victims : r \in S}

\* The same for the replies of a thread.
Pruning(t) == {r \in Requests : pc[r] \in {"prune", "pruneFile"} /\ req[r].thread = t}
RepliesLeft(t, S) == LiveReplies(t) \ UNION {req[r].todo : r \in S}

\* The posts in thread t (0: the first posts of new threads) whose requests, but for those in S,
\* have not deleted what the post displaces, or ended without.
Debt(r, t, p) == Owes(r) /\ req[r].thread = t /\ req[r].post = p
OwedFor(t, S) == {p \in PostIDs : p \in owed \/ \E r \in Requests \ S : Debt(r, t, p)}
ThreadDebts(S) == {p \in OwedFor(0, S) : posts[p].top}
ReplyDebts(t, S) == OwedFor(t, S) \cap PostsIn({t})

\* Whatever set of requests deletes what it selected, the limits hold for what is left: what
\* came after their SELECTs is owed for by others.
BoardLimit ==
    \A S \in SUBSET Trimming : Cardinality(ThreadsLeft(S)) <= MaxThreads + Cardinality(ThreadDebts(S))
ReplyLimit(t) ==
    threads[t].cyclic =>
       \A S \in SUBSET Pruning(t) :
          Cardinality(RepliesLeft(t, S)) <= CyclicThreadNumPosts + Cardinality(ReplyDebts(t, S))

\* ORDER BY last_bump is a strict order: a post bumps at most one thread.
BumpsDiffer ==
    /\ \A t \in ThreadIDs : threads[t].state # "none" => threads[t].bump < nextPost
    /\ \A s, t \in ThreadIDs :
          /\ threads[s].state # "none" /\ threads[t].state # "none"
          /\ threads[s].bump = threads[t].bump
          => s = t

\* Posts are in threads that have been created, and the file that is pruned is that of a
\* deleted reply.
PostsKnowThreads == \A p \in PostIDs : posts[p].state # "none" => posts[p].thread < nextThread
PrunesDeleted(r) == pc[r] = "pruneFile" => posts[NextToPrune(r)].state = "deleted"

LimitInv ==
    /\ BoardLimit
    /\ \A t \in ThreadIDs : ReplyLimit(t)
    /\ BumpsDiffer /\ PostsKnowThreads
    /\ \A r \in Requests : PrunesDeleted(r)

-----------------------------------------------------------------------------
(* Steps that add no debt. *)

\* Everything that is counted is finite, before a step and after it.
LEMMA CountsAreFinite ==
    /\ IsFiniteSet(PostIDs) /\ IsFiniteSet(ThreadIDs)
    /\ \A S : /\ IsFiniteSet(ThreadsLeft(S)) /\ IsFiniteSet(ThreadDebts(S))
              /\ IsFiniteSet(ThreadsLeft(S)') /\ IsFiniteSet(ThreadDebts(S)')
    /\ \A t, S : /\ IsFiniteSet(RepliesLeft(t, S)) /\ IsFiniteSet(ReplyDebts(t, S))
                 /\ IsFiniteSet(RepliesLeft(t, S)') /\ IsFiniteSet(ReplyDebts(t, S)')
<1>1. IsFiniteSet(PostIDs) /\ IsFiniteSet(ThreadIDs)
    BY BoundsAssumption, FS_Interval DEF PostIDs, ThreadIDs
<1>2. ASSUME NEW S
      PROVE  /\ IsFiniteSet(ThreadsLeft(S)) /\ IsFiniteSet(ThreadDebts(S))
             /\ IsFiniteSet(ThreadsLeft(S)') /\ IsFiniteSet(ThreadDebts(S)')
  <2>1. /\ ThreadsLeft(S) \in SUBSET ThreadIDs /\ ThreadDebts(S) \in SUBSET PostIDs
        /\ ThreadsLeft(S)' \in SUBSET ThreadIDs /\ ThreadDebts(S)' \in SUBSET PostIDs
      BY DEF ThreadsLeft, Counted, ThreadDebts, OwedFor
  <2> QED BY <1>1, <2>1, FS_Subset
<1>3. ASSUME NEW t, NEW S
      PROVE  /\ IsFiniteSet(RepliesLeft(t, S)) /\ IsFiniteSet(ReplyDebts(t, S))
             /\ IsFiniteSet(RepliesLeft(t, S)') /\ IsFiniteSet(ReplyDebts(t, S)')
  <2>1. /\ RepliesLeft(t, S) \in SUBSET PostIDs /\ ReplyDebts(t, S) \in SUBSET PostIDs
        /\ RepliesLeft(t, S)' \in SUBSET PostIDs /\ ReplyDebts(t, S)' \in SUBSET PostIDs
      BY DEF RepliesLeft, LiveReplies, PostsIn, ReplyDebts, OwedFor
  <2> QED BY <1>1, <2>1, FS_Subset
<1> QED BY <1>1, <1>2, <1>3

\* The debt of request r in thread t stays, as its own or as that of a request that has ended.
DebtKept(r, t) == \A p \in PostIDs : Debt(r, t, p) => p \in owed' \/ Debt(r, t, p)'

\* Then nothing that was owed is forgotten: the other requests go on with theirs.
LEMMA OwedForKept ==
    ASSUME NEW r \in Requests, OthersKept(r), owed \subseteq owed', NEW t, NEW S, DebtKept(r, t)
    PROVE  OwedFor(t, S) \subseteq OwedFor(t, S)'
<1> SUFFICES ASSUME NEW p \in PostIDs, NEW q \in Requests \ S, Debt(q, t, p), p \notin owed'
             PROVE  Debt(q, t, p)'
    BY DEF OwedFor
<1>1. CASE q = r
    BY <1>1 DEF DebtKept
<1>2. CASE q # r
    BY <1>2 DEF OthersKept, Debt, Owes
<1> QED BY <1>1, <1>2

\* The limit of the board survives a step that creates no thread, selects none and keeps the debts.
LEMMA BoardLimitKept ==
    ASSUME BoardLimit, \A S : OwedFor(0, S) \subseteq OwedFor(0, S)',
           \A q \in Requests : q \in Trimming' => q \in Trimming /\ req'[q].victims = req[q].victims,
           Counted' \subseteq Counted, \A p \in PostIDs : posts[p].top => posts'[p].top
    PROVE  BoardLimit'
<1> SUFFICES ASSUME NEW S \in SUBSET Trimming'
             PROVE  Cardinality(ThreadsLeft(S)') <= MaxThreads + Cardinality(ThreadDebts(S)')
    BY DEF BoardLimit
<1>1. S \in SUBSET Trimming /\ \A q \in S : req'[q].victims = req[q].victims
    BY DEF Trimming
<1>2. ThreadsLeft(S)' \subseteq ThreadsLeft(S)
    BY <1>1 DEF ThreadsLeft
<1>3. ThreadDebts(S) \subseteq ThreadDebts(S)'
    BY DEF ThreadDebts, OwedFor
<1>4. Cardinality(ThreadsLeft(S)) <= MaxThreads + Cardinality(ThreadDebts(S))
    BY <1>1 DEF BoardLimit
<1> QED BY <1>2, <1>3, <1>4, CountsAreFinite, LimitShrinks, ConfigAssumption

\* The limit of a thread survives a step that adds no reply to it, selects none and keeps the
\* debts; a request may drop deleted replies from what it has yet to prune.
LEMMA ReplyLimitKept ==
    ASSUME NEW t \in ThreadIDs, ReplyLimit(t), \A S : OwedFor(t, S) \subseteq OwedFor(t, S)',
           \A q \in Requests : q \in Pruning(t)' =>
              q \in Pruning(t) /\ req[q].todo \cap LiveReplies(t)' \subseteq req'[q].todo,
           threads'[t].cyclic => threads[t].cyclic,
           LiveReplies(t)' \subseteq LiveReplies(t), PostsIn({t}) \subseteq PostsIn({t})'
    PROVE  ReplyLimit(t)'
<1> SUFFICES ASSUME threads[t].cyclic, NEW S \in SUBSET Pruning(t)'
             PROVE  Cardinality(RepliesLeft(t, S)') <= CyclicThreadNumPosts + Cardinality(ReplyDebts(t, S)')
    BY DEF ReplyLimit
<1>1. S \in SUBSET Pruning(t) /\ \A q \in S : req[q].todo \cap LiveReplies(t)' \subseteq req'[q].todo
    BY DEF Pruning
<1>2. RepliesLeft(t, S)' \subseteq RepliesLeft(t, S)
    BY <1>1 DEF RepliesLeft
<1>3. ReplyDebts(t, S) \subseteq ReplyDebts(t, S)'
    BY DEF ReplyDebts
<1>4. Cardinality(RepliesLeft(t, S)) <= CyclicThreadNumPosts + Cardinality(ReplyDebts(t, S))
    BY <1>1 DEF ReplyLimit
<1> QED BY <1>2, <1>3, <1>4, CountsAreFinite, LimitShrinks, ConfigAssumption

\* What rows that stay mean for what is counted.
LEMMA CountedStay ==
    ASSUME RowsStay
    PROVE  /\ Counted' \subseteq Counted
           /\ \A p \in PostIDs : posts[p].top => posts'[p].top
           /\ \A t \in ThreadIDs : /\ threads'[t].cyclic => threads[t].cyclic
                                   /\ LiveReplies(t)' \subseteq LiveReplies(t)
                                   /\ PostsIn({t}) \subseteq PostsIn({t})'
<1>1. Counted' \subseteq Counted
    BY DEF RowsStay, Counted, LiveThread
<1>2. \A t \in ThreadIDs : /\ LiveReplies(t)' \subseteq LiveReplies(t)
                           /\ PostsIn({t}) \subseteq PostsIn({t})'
    BY DEF RowsStay, LiveReplies, PostsIn, LivePost
<1> QED BY <1>1, <1>2 DEF RowsStay

\* What the rows alone say is kept, too.
LEMMA OrderKept ==
    ASSUME LimitInv, RowsStay
    PROVE  BumpsDiffer' /\ PostsKnowThreads'
<1>1. BumpsDiffer'
    BY DEF LimitInv, RowsStay, BumpsDiffer
<1>2. PostsKnowThreads'
    BY DEF LimitInv, RowsStay, PostsKnowThreads
<1> QED BY <1>1, <1>2

\* A request that does not move prunes what is deleted.
LEMMA PrunesKept ==
    ASSUME IInv, LimitInv, TypeInv', RowsStay, NEW r \in Requests, pc'[r] = pc[r], req'[r] = req[r]
    PROVE  PrunesDeleted(r)'
<1> SUFFICES ASSUME pc[r] = "pruneFile"
             PROVE  posts'[NextToPrune(r)'].state = "deleted"
    BY DEF PrunesDeleted
<1>1. NextToPrune(r)' = NextToPrune(r)
    BY DEF NextToPrune
<1>2. NextToPrune(r) \in PostIDs
    BY NextToPruneInTodo DEF IInv, TypeInv, TypeOK, Locals
<1>3. posts[NextToPrune(r)].state = "deleted"
    BY DEF LimitInv, PrunesDeleted
<1>4. posts'[NextToPrune(r)].state \in {"none", "live", "deleted"}
    BY <1>2 DEF TypeInv, TypeOK, PostRow, RowStates
<1> QED BY <1>1, <1>2, <1>3, <1>4 DEF RowsStay

\* A step of r that leaves the rows and selects nothing.
LEMMA LimitsKept ==
    ASSUME IInv, LimitInv, TypeInv', NEW r \in Requests, OthersKept(r), RowsStay,
           owed \subseteq owed', \A t : DebtKept(r, t),
           pc'[r] \notin {"trimMark", "prune", "pruneFile"}
    PROVE  LimitInv'
<1>1. \A t, S : OwedFor(t, S) \subseteq OwedFor(t, S)'
    BY OwedForKept
<1>2. BoardLimit'
  <2>1. \A q \in Requests : q \in Trimming' => q \in Trimming /\ req'[q].victims = req[q].victims
      BY DEF Trimming, OthersKept
  <2> QED BY <1>1, <2>1, CountedStay, BoardLimitKept DEF LimitInv
<1>3. ASSUME NEW t \in ThreadIDs
      PROVE  ReplyLimit(t)'
  <2>1. \A q \in Requests : q \in Pruning(t)' => q \in Pruning(t) /\ req'[q].todo = req[q].todo
      BY DEF Pruning, OthersKept
  <2> QED BY <1>1, <2>1, CountedStay, ReplyLimitKept DEF LimitInv
<1>4. ASSUME NEW q \in Requests
      PROVE  PrunesDeleted(q)'
  <2>1. CASE q = r
      BY <2>1 DEF PrunesDeleted
  <2>2. CASE q # r
      BY <2>2, PrunesKept DEF OthersKept
  <2> QED BY <2>1, <2>2
<1> QED BY <1>2, <1>3, <1>4, OrderKept DEF LimitInv

\* Requests that owe nothing, that go on with what they owe, and that end and leave it.
LEMMA NothingOwed ==
    ASSUME NEW r \in Requests,
           pc[r] \notin {"attach", "chown", "cyclic", "trim", "trimMark", "prune", "pruneFile"}
    PROVE  \A t : DebtKept(r, t)
BY DEF DebtKept, Debt, Owes

\* A request that goes on to the next step before its build keeps what it owes.
LEMMA GoesOnOwing ==
    ASSUME NEW r \in Requests, pc'[r] \in {"attach", "chown", "cyclic"}, req'[r] = req[r]
    PROVE  \A t : DebtKept(r, t)
BY DEF DebtKept, Debt, Owes

\* A request that fails leaves what it owed in the history variable.
LEMMA LeavesDebt ==
    ASSUME NEW r \in Requests, Owing({r}) \subseteq owed'
    PROVE  \A t : DebtKept(r, t)
BY DEF DebtKept, Debt, Owing

-----------------------------------------------------------------------------
(* What the queries select. *)

\* SELECT ... ORDER BY last_bump DESC OFFSET MaxThreads leaves out MaxThreads threads at most.
LEMMA TrimmedLeavesLimit ==
    ASSUME IInv, LimitInv
    PROVE  Cardinality(Counted \ TrimmedThreads) <= MaxThreads
<1> DEFINE key == [t \in Counted |-> threads[t].bump]
           left == {t \in Counted : ~(Cardinality({s \in Counted : key[s] > key[t]}) >= MaxThreads)}
<1>1. IsFiniteSet(Counted)
  <2>1. Counted \in SUBSET ThreadIDs
      BY DEF Counted
  <2> QED BY <2>1, CountsAreFinite, FS_Subset
<1>2. key \in [Counted -> Nat]
    BY BoundsAssumption DEF Counted, IInv, TypeInv, TypeOK, ThreadRow
<1>3. \A s, t \in Counted : key[s] = key[t] => s = t
    BY DEF LimitInv, BumpsDiffer, Counted, LiveThread
<1>4. ASSUME NEW t \in Counted
      PROVE  {s \in Counted : key[s] > key[t]} = {s \in Counted : threads[s].bump > threads[t].bump}
    OBVIOUS
<1>5. Counted \ TrimmedThreads = left
  <2>1. TrimmedThreads = {t \in Counted :
           Cardinality({s \in Counted : threads[s].bump > threads[t].bump}) >= MaxThreads}
      BY DEF TrimmedThreads, Counted
  <2> QED BY <1>4, <2>1
<1> HIDE DEF key
<1>6. Cardinality(left) <= MaxThreads
    BY <1>1, <1>2, <1>3, FirstByKey, ConfigAssumption
<1> QED BY <1>5, <1>6

\* ... and so does the one of CyclicPostsToBePruned.
LEMMA OverflowLeavesLimit ==
    ASSUME NEW t \in ThreadIDs
    PROVE  Cardinality(LiveReplies(t) \ CyclicOverflow(t)) <= CyclicThreadNumPosts
<1> DEFINE C == LiveReplies(t)
           key == [p \in C |-> p]
           left == {p \in C : ~(Cardinality({q \in C : key[q] > key[p]}) >= CyclicThreadNumPosts)}
<1>1. C \in SUBSET PostIDs
    BY DEF LiveReplies, PostsIn
<1>2. IsFiniteSet(C)
    BY <1>1, CountsAreFinite, FS_Subset
<1>3. key \in [C -> Nat]
    BY <1>1, BoundsAssumption DEF PostIDs
<1>4. \A p, q \in C : key[p] = key[q] => p = q
    OBVIOUS
<1>5. ASSUME NEW p \in C
      PROVE  {q \in C : key[q] > key[p]} = {q \in C : q > p}
    OBVIOUS
<1>6. LiveReplies(t) \ CyclicOverflow(t) = left
  <2>1. CyclicOverflow(t) = {p \in C : Cardinality({q \in C : q > p}) >= CyclicThreadNumPosts}
      BY DEF CyclicOverflow
  <2> QED BY <1>5, <2>1
<1> HIDE DEF key, C
<1>7. Cardinality(left) <= CyclicThreadNumPosts
    BY <1>2, <1>3, <1>4, FirstByKey, ConfigAssumption
<1> QED BY <1>6, <1>7

-----------------------------------------------------------------------------
(* The actions that add a debt, select, or pay. *)

\* A new reply is the debt of its request in its thread, and of no other thread.
LEMMA InsertReplyLimits ==
    ASSUME IInv, ForumInv, LimitInv, TypeInv', NEW r \in Requests, InsertReply(r)
    PROVE  LimitInv'
<1>r. /\ req \in [Requests -> Locals] /\ pc \in [Requests -> Steps] /\ posts \in [PostIDs -> PostRow]
      /\ threads \in [ThreadIDs -> ThreadRow] /\ nextPost \in Nat \ {0} /\ nextThread \in Int
    BY BoundsAssumption DEF IInv, TypeInv, TypeOK
<1> DEFINE t == req[r].thread
           row == [state |-> "live", thread |-> t, top |-> FALSE]
<1>1. /\ t # 0 /\ nextPost <= MaxPostID /\ pc[r] = "insert"
      /\ posts' = [posts EXCEPT ![nextPost] = row]
      /\ nextPost' = nextPost + 1 /\ nextThread' = nextThread /\ owed' = owed
      /\ req' = [req EXCEPT ![r].post = nextPost]
      /\ pc' = [pc EXCEPT ![r] = IF req[r].upload = NoUpload THEN "cyclic" ELSE "attach"]
    BY DEF InsertReply, At, Goto, history
<1>2. PICK bump \in {nextPost, threads[t].bump} : threads' = [threads EXCEPT ![t].bump = bump]
    BY DEF InsertReply
<1>3. /\ OthersKept(r) /\ pc'[r] \in {"cyclic", "attach"}
      /\ req'[r].thread = t /\ req'[r].post = nextPost
    BY <1>1, <1>r DEF OthersKept, Locals
<1>4. nextPost \in PostIDs /\ posts[nextPost].state = "none" /\ ~posts[nextPost].top
  <2>1. nextPost \in PostIDs
      BY <1>1, <1>r, BoundsAssumption DEF PostIDs
  <2> QED BY <2>1, <1>r DEF IInv, RowsInv, RowsBelowNext, OPsHaveThreads
<1>5. t < nextThread
    BY DEF ForumInv, ThreadsKnown
<1>6. ASSUME NEW s \in ThreadIDs
      PROVE  /\ threads'[s].state = threads[s].state /\ threads'[s].cyclic = threads[s].cyclic
             /\ threads'[s].stickied = threads[s].stickied
             /\ threads'[s].bump = IF s = t THEN bump ELSE threads[s].bump
    BY <1>2, <1>r DEF ThreadRow
<1>7. ASSUME NEW p \in PostIDs
      PROVE  posts'[p] = IF p = nextPost THEN row ELSE posts[p]
    BY <1>1, <1>r
<1> HIDE DEF t
<1>8. \A s, S : OwedFor(s, S) \subseteq OwedFor(s, S)'
    BY <1>1, <1>3, NothingOwed, OwedForKept
<1>9. BoardLimit'
  <2>1. \A q \in Requests : q \in Trimming' => q \in Trimming /\ req'[q].victims = req[q].victims
      BY <1>3 DEF Trimming, OthersKept
  <2>2. Counted' \subseteq Counted
      BY <1>6 DEF Counted, LiveThread
  <2>3. \A p \in PostIDs : posts[p].top => posts'[p].top
      BY <1>4, <1>7
  <2> QED BY <1>8, <2>1, <2>2, <2>3, BoardLimitKept DEF LimitInv
<1>10. ASSUME NEW s \in ThreadIDs
       PROVE  ReplyLimit(s)'
  <2>1. \A q \in Requests : q \in Pruning(s)' => q # r /\ q \in Pruning(s) /\ req'[q].todo = req[q].todo
      BY <1>3 DEF Pruning, OthersKept
  <2>2. PostsIn({s}) \subseteq PostsIn({s})'
      BY <1>4, <1>7 DEF PostsIn
  <2>3. CASE s # t
    <3>1. LiveReplies(s)' \subseteq LiveReplies(s)
        BY <2>3, <1>7 DEF LiveReplies, PostsIn, LivePost
    <3> QED BY <1>6, <1>8, <2>1, <2>2, <3>1, ReplyLimitKept DEF LimitInv
  <2>4. CASE s = t
    <3> SUFFICES ASSUME threads[s].cyclic, NEW S \in SUBSET Pruning(s)'
                 PROVE  Cardinality(RepliesLeft(s, S)') <= CyclicThreadNumPosts + Cardinality(ReplyDebts(s, S)')
        BY <1>6 DEF ReplyLimit
    <3>1. S \in SUBSET Pruning(s) /\ r \notin S /\ \A q \in S : req'[q].todo = req[q].todo
        BY <2>1 DEF Pruning
    <3>2. RepliesLeft(s, S)' \subseteq RepliesLeft(s, S) \cup {nextPost}
      <4>1. LiveReplies(s)' \subseteq LiveReplies(s) \cup {nextPost}
          BY <1>7 DEF LiveReplies, PostsIn, LivePost
      <4> QED BY <3>1, <4>1 DEF RepliesLeft
    <3>3. ReplyDebts(s, S) \cup {nextPost} \subseteq ReplyDebts(s, S)'
      <4>1. Owes(r)'
          BY <1>3, <1>r DEF Owes
      <4>2. nextPost \in OwedFor(s, S)'
          BY <4>1, <2>4, <1>3, <1>4, <3>1 DEF OwedFor, Debt
      <4>3. nextPost \in PostsIn({s})'
          BY <1>4, <1>7, <2>4 DEF PostsIn
      <4> QED BY <4>2, <4>3, <1>8, <2>2 DEF ReplyDebts
    <3>4. nextPost \notin ReplyDebts(s, S)
        BY <1>4 DEF ReplyDebts, PostsIn
    <3>5. Cardinality(RepliesLeft(s, S)) <= CyclicThreadNumPosts + Cardinality(ReplyDebts(s, S))
        BY <3>1 DEF LimitInv, ReplyLimit
    <3> QED BY <3>2, <3>3, <3>4, <3>5, CountsAreFinite, LimitGrows, ConfigAssumption
  <2> QED BY <2>3, <2>4
<1>11. BumpsDiffer'
  <2>1. ASSUME NEW u \in ThreadIDs, threads[u].state # "none"
        PROVE  threads[u].bump \in Nat /\ threads[u].bump < nextPost
      BY <2>1, <1>r, BoundsAssumption DEF LimitInv, BumpsDiffer, ThreadRow
  <2>2. \A u \in ThreadIDs : threads'[u].state # "none" => threads'[u].bump < nextPost'
      BY <2>1, <1>1, <1>2, <1>6, <1>r
  <2>3. \A u, v \in ThreadIDs :
          /\ threads'[u].state # "none" /\ threads'[v].state # "none"
          /\ threads'[u].bump = threads'[v].bump
          => u = v
      BY <2>1, <1>2, <1>6 DEF LimitInv, BumpsDiffer
  <2> QED BY <2>2, <2>3 DEF BumpsDiffer
<1>12. PostsKnowThreads'
    BY <1>1, <1>5, <1>7 DEF LimitInv, PostsKnowThreads
<1>13. ASSUME NEW q \in Requests
       PROVE  PrunesDeleted(q)'
  <2>1. CASE q = r
      BY <2>1, <1>3 DEF PrunesDeleted
  <2>2. CASE q # r /\ pc[q] = "pruneFile"
    <3>1. pc'[q] = pc[q] /\ req'[q] = req[q] /\ NextToPrune(q)' = NextToPrune(q)
        BY <2>2, <1>3 DEF OthersKept, NextToPrune
    <3>2. NextToPrune(q) \in PostIDs /\ posts[NextToPrune(q)].state = "deleted"
        BY <2>2, <1>r, NextToPruneInTodo DEF LimitInv, PrunesDeleted, Locals
    <3>3. posts'[NextToPrune(q)] = posts[NextToPrune(q)]
        BY <3>2, <1>4, <1>7
    <3> QED BY <3>1, <3>2, <3>3 DEF PrunesDeleted
  <2>3. CASE q # r /\ pc[q] # "pruneFile"
      BY <2>3, <1>3 DEF PrunesDeleted, OthersKept
  <2> QED BY <2>1, <2>2, <2>3
<1> QED BY <1>9, <1>10, <1>11, <1>12, <1>13 DEF LimitInv

\* A new thread is the debt of its request.
LEMMA InsertThreadLimits ==
    ASSUME IInv, ForumInv, LimitInv, TypeInv', NEW r \in Requests, InsertThread(r)
    PROVE  LimitInv'
<1>r. /\ req \in [Requests -> Locals] /\ pc \in [Requests -> Steps] /\ posts \in [PostIDs -> PostRow]
      /\ threads \in [ThreadIDs -> ThreadRow] /\ nextPost \in Nat \ {0} /\ nextThread \in Nat \ {0}
    BY BoundsAssumption DEF IInv, TypeInv, TypeOK
<1> DEFINE row == [state |-> "live", thread |-> nextThread, top |-> TRUE]
<1>1. /\ req[r].thread = 0 /\ nextPost <= MaxPostID /\ nextThread <= MaxThreadID /\ pc[r] = "insert"
      /\ posts' = [posts EXCEPT ![nextPost] = row]
      /\ nextPost' = nextPost + 1 /\ nextThread' = nextThread + 1 /\ owed' = owed
      /\ req' = [req EXCEPT ![r].post = nextPost]
      /\ pc' = [pc EXCEPT ![r] = IF req[r].upload = NoUpload THEN "cyclic" ELSE "attach"]
    BY DEF InsertThread, At, Goto, history
<1>2. PICK kind \in ThreadKinds :
        threads' = [threads EXCEPT ![nextThread] =
                      [state |-> "live", cyclic |-> kind.cyclic, stickied |-> kind.stickied,
                       locked |-> kind.locked, bump |-> nextPost]]
    BY DEF InsertThread
<1>3. /\ OthersKept(r) /\ pc'[r] \in {"cyclic", "attach"}
      /\ req'[r].thread = 0 /\ req'[r].post = nextPost
    BY <1>1, <1>r DEF OthersKept, Locals
<1>4. nextPost \in PostIDs /\ posts[nextPost].state = "none" /\ ~posts[nextPost].top
  <2>1. nextPost \in PostIDs
      BY <1>1, <1>r, BoundsAssumption DEF PostIDs
  <2> QED BY <2>1, <1>r DEF IInv, RowsInv, RowsBelowNext, OPsHaveThreads
<1>5. ASSUME NEW s \in ThreadIDs, s # nextThread
      PROVE  threads'[s] = threads[s]
    BY <1>2, <1>5, <1>r
<1>6. nextThread \in ThreadIDs => threads'[nextThread].bump = nextPost
    BY <1>2, <1>r
<1>7. ASSUME NEW p \in PostIDs
      PROVE  posts'[p] = IF p = nextPost THEN row ELSE posts[p]
    BY <1>1, <1>r
<1>8. \A s, S : OwedFor(s, S) \subseteq OwedFor(s, S)'
    BY <1>1, <1>3, NothingOwed, OwedForKept
<1>9. BoardLimit'
  <2> SUFFICES ASSUME NEW S \in SUBSET Trimming'
               PROVE  Cardinality(ThreadsLeft(S)') <= MaxThreads + Cardinality(ThreadDebts(S)')
      BY DEF BoardLimit
  <2>1. S \in SUBSET Trimming /\ r \notin S /\ \A q \in S : req'[q].victims = req[q].victims
      BY <1>3 DEF Trimming, OthersKept
  <2>2. ThreadsLeft(S)' \subseteq ThreadsLeft(S) \cup {nextThread}
    <3>1. Counted' \subseteq Counted \cup {nextThread}
        BY <1>5 DEF Counted, LiveThread
    <3> QED BY <2>1, <3>1 DEF ThreadsLeft
  <2>3. ThreadDebts(S) \cup {nextPost} \subseteq ThreadDebts(S)'
    <3>1. Owes(r)'
        BY <1>3, <1>r DEF Owes
    <3>2. nextPost \in OwedFor(0, S)'
        BY <3>1, <1>3, <1>4, <2>1 DEF OwedFor, Debt
    <3>3. \A p \in PostIDs : posts[p].top => posts'[p].top
        BY <1>4, <1>7
    <3>4. posts'[nextPost].top
        BY <1>4, <1>7
    <3> QED BY <3>2, <3>3, <3>4, <1>8 DEF ThreadDebts, OwedFor
  <2>4. nextPost \notin ThreadDebts(S)
      BY <1>4 DEF ThreadDebts
  <2>5. Cardinality(ThreadsLeft(S)) <= MaxThreads + Cardinality(ThreadDebts(S))
      BY <2>1 DEF LimitInv, BoardLimit
  <2> QED BY <2>2, <2>3, <2>4, <2>5, CountsAreFinite, LimitGrows, ConfigAssumption
<1>10. ASSUME NEW s \in ThreadIDs
       PROVE  ReplyLimit(s)'
  <2>1. CASE s # nextThread
    <3>1. \A q \in Requests : q \in Pruning(s)' => q \in Pruning(s) /\ req'[q].todo = req[q].todo
        BY <1>3 DEF Pruning, OthersKept
    <3>2. PostsIn({s}) \subseteq PostsIn({s})'
        BY <1>4, <1>7 DEF PostsIn
    <3>3. LiveReplies(s)' \subseteq LiveReplies(s)
        BY <2>1, <1>7 DEF LiveReplies, PostsIn, LivePost
    <3> QED BY <1>5, <1>8, <2>1, <3>1, <3>2, <3>3, ReplyLimitKept DEF LimitInv
  <2>2. CASE s = nextThread
    <3>1. LiveReplies(s)' = {}
        BY <2>2, <1>7, <1>r DEF LiveReplies, PostsIn, LivePost, LimitInv, PostsKnowThreads
    <3>2. ASSUME NEW S
          PROVE  Cardinality(RepliesLeft(s, S)') <= CyclicThreadNumPosts + Cardinality(ReplyDebts(s, S)')
      <4>1. RepliesLeft(s, S)' \subseteq {}
          BY <3>1 DEF RepliesLeft
      <4>2. Cardinality({}) <= CyclicThreadNumPosts
          BY FS_EmptySet, ConfigAssumption
      <4> QED BY <4>1, <4>2, FS_EmptySet, CountsAreFinite, LimitHolds, ConfigAssumption
    <3> QED BY <3>2 DEF ReplyLimit
  <2> QED BY <2>1, <2>2
<1>11. BumpsDiffer'
  <2>1. ASSUME NEW u \in ThreadIDs, threads[u].state # "none"
        PROVE  threads[u].bump \in Nat /\ threads[u].bump < nextPost
      BY <2>1, <1>r, BoundsAssumption DEF LimitInv, BumpsDiffer, ThreadRow
  <2>2. \A u \in ThreadIDs : threads'[u].state # "none" => threads'[u].bump < nextPost'
      BY <2>1, <1>1, <1>5, <1>6, <1>r
  <2>3. \A u, v \in ThreadIDs :
          /\ threads'[u].state # "none" /\ threads'[v].state # "none"
          /\ threads'[u].bump = threads'[v].bump
          => u = v
      BY <2>1, <1>5, <1>6 DEF LimitInv, BumpsDiffer
  <2> QED BY <2>2, <2>3 DEF BumpsDiffer
<1>12. PostsKnowThreads'
  <2> SUFFICES ASSUME NEW p \in PostIDs, posts'[p].state # "none"
               PROVE  posts'[p].thread < nextThread + 1
      BY <1>1 DEF PostsKnowThreads
  <2>1. CASE p = nextPost
      BY <2>1, <1>7, <1>r
  <2>2. CASE p # nextPost
    <3>1. posts[p].thread < nextThread /\ posts[p].thread \in Int
        BY <2>2, <1>7, <1>r, BoundsAssumption DEF LimitInv, PostsKnowThreads, PostRow
    <3> QED BY <3>1, <2>2, <1>7, <1>r
  <2> QED BY <2>1, <2>2
<1>13. ASSUME NEW q \in Requests
       PROVE  PrunesDeleted(q)'
  <2>1. CASE q = r
      BY <2>1, <1>3 DEF PrunesDeleted
  <2>2. CASE q # r /\ pc[q] = "pruneFile"
    <3>1. pc'[q] = pc[q] /\ req'[q] = req[q] /\ NextToPrune(q)' = NextToPrune(q)
        BY <2>2, <1>3 DEF OthersKept, NextToPrune
    <3>2. NextToPrune(q) \in PostIDs /\ posts[NextToPrune(q)].state = "deleted"
        BY <2>2, <1>r, NextToPruneInTodo DEF LimitInv, PrunesDeleted, Locals
    <3>3. posts'[NextToPrune(q)] = posts[NextToPrune(q)]
        BY <3>2, <1>4, <1>7
    <3> QED BY <3>1, <3>2, <3>3 DEF PrunesDeleted
  <2>3. CASE q # r /\ pc[q] # "pruneFile"
      BY <2>3, <1>3 DEF PrunesDeleted, OthersKept
  <2> QED BY <2>1, <2>2, <2>3
<1> QED BY <1>9, <1>10, <1>11, <1>12, <1>13 DEF LimitInv

\* The step of r leaves what the other requests prune deleted.
LEMMA PrunesOthersKept ==
    ASSUME IInv, LimitInv, TypeInv', RowsStay, NEW r \in Requests, OthersKept(r), PrunesDeleted(r)'
    PROVE  \A q \in Requests : PrunesDeleted(q)'
<1> SUFFICES ASSUME NEW q \in Requests, q # r
             PROVE  PrunesDeleted(q)'
    OBVIOUS
<1> QED BY PrunesKept DEF OthersKept

\* The SELECT of CyclicPostsToBePruned pays for what its request does not delete later.
LEMMA CyclicCheckLimits ==
    ASSUME IInv, ForumInv, LimitInv, TypeInv', NEW r \in Requests, CyclicCheck(r)
    PROVE  LimitInv'
<1>r. req \in [Requests -> Locals] /\ pc \in [Requests -> Steps]
    BY DEF IInv, TypeInv, TypeOK
<1> DEFINE t == req[r].thread
           P == IF t # 0 /\ threads[t].cyclic THEN CyclicOverflow(t) ELSE {}
           names == [p \in PostIDs |-> IF p \in P THEN files[p] ELSE NoUpload]
<1>1. /\ UNCHANGED <<posts, threads, nextPost, nextThread>> /\ owed' = owed /\ pc[r] = "cyclic"
      /\ IF P = {} THEN GotoBuild(r)
         ELSE req' = [req EXCEPT ![r].todo = P, ![r].names = names] /\ Goto(r, "prune")
    BY DEF CyclicCheck, At, tables, history
<1>2. RowsStay
    BY <1>1, UnchangedStep
<1>3. P # {} => t # 0
    OBVIOUS
<1> HIDE DEF P
<1>4. /\ OthersKept(r) /\ req'[r].thread = t /\ req'[r].post = req[r].post
      /\ P = {} => pc'[r] = "trim"
      /\ P # {} => pc'[r] = "prune" /\ req'[r].todo = P
  <2>1. CASE P = {}
    <3>1. /\ OthersKept(r) /\ pc'[r] = "trim"
          /\ req'[r] = [NoLocals EXCEPT !.thread = t, !.post = req[r].post]
        BY <2>1, <1>1, <1>r DEF GotoBuild, Goto, OthersKept
    <3> QED BY <2>1, <3>1 DEF NoLocals
  <2>2. CASE P # {}
      BY <2>2, <1>1, <1>r DEF Goto, OthersKept, Locals
  <2> QED BY <2>1, <2>2
<1>5. ASSUME NEW s, s # t \/ t = 0 \/ P # {}
      PROVE  \A S : OwedFor(s, S) \subseteq OwedFor(s, S)'
  <2>1. DebtKept(r, s)
      BY <1>1, <1>3, <1>4, <1>5 DEF DebtKept, Debt, Owes
  <2> QED BY <2>1, <1>1, <1>4, OwedForKept
<1>6. BoardLimit'
  <2>1. \A S : OwedFor(0, S) \subseteq OwedFor(0, S)'
      BY <1>5
  <2>2. \A q \in Requests : q \in Trimming' => q \in Trimming /\ req'[q].victims = req[q].victims
      BY <1>4 DEF Trimming, OthersKept
  <2> QED BY <1>2, <2>1, <2>2, CountedStay, BoardLimitKept DEF LimitInv
<1>7. ASSUME NEW s \in ThreadIDs, s # t
      PROVE  ReplyLimit(s)'
  <2>1. \A q \in Requests : q \in Pruning(s)' => q \in Pruning(s) /\ req'[q].todo = req[q].todo
      BY <1>4, <1>7 DEF Pruning, OthersKept
  <2> QED BY <1>2, <1>5, <1>7, <2>1, CountedStay, ReplyLimitKept DEF LimitInv
<1>8. ASSUME NEW s \in ThreadIDs, s = t
      PROVE  ReplyLimit(s)'
  <2> SUFFICES ASSUME threads[s].cyclic, NEW S \in SUBSET Pruning(s)'
               PROVE  Cardinality(RepliesLeft(s, S)') <= CyclicThreadNumPosts + Cardinality(ReplyDebts(s, S)')
      BY <1>1 DEF ReplyLimit
  <2>1. LiveReplies(s)' = LiveReplies(s) /\ PostsIn({s})' = PostsIn({s})
      BY <1>1 DEF LiveReplies, PostsIn, LivePost
  <2>2. \A q \in S \ {r} : q \in Pruning(s) /\ req'[q].todo = req[q].todo
      BY <1>4 DEF Pruning, OthersKept
  <2>3. CASE r \in S \/ P = {}
    <3>1. P = CyclicOverflow(s)
        BY <1>8 DEF P, ThreadIDs
    <3>2. r \in S => req'[r].todo = P
        BY <1>4 DEF Pruning
    <3>3. RepliesLeft(s, S)' \subseteq LiveReplies(s) \ P
        BY <2>1, <2>3, <3>2 DEF RepliesLeft
    <3>4. LiveReplies(s) \ P \in SUBSET PostIDs
        BY DEF LiveReplies, PostsIn
    <3>5. IsFiniteSet(LiveReplies(s) \ P)
        BY <3>4, CountsAreFinite, FS_Subset
    <3>6. Cardinality(LiveReplies(s) \ P) <= CyclicThreadNumPosts
        BY <3>1, OverflowLeavesLimit
    <3> QED BY <3>3, <3>5, <3>6, CountsAreFinite, LimitHolds, ConfigAssumption
  <2>4. CASE r \notin S /\ P # {}
    <3>1. S \in SUBSET Pruning(s) /\ \A q \in S : req'[q].todo = req[q].todo
        BY <2>2, <2>4
    <3>2. RepliesLeft(s, S)' \subseteq RepliesLeft(s, S)
        BY <2>1, <3>1 DEF RepliesLeft
    <3>3. ReplyDebts(s, S) \subseteq ReplyDebts(s, S)'
        BY <2>1, <2>4, <1>5 DEF ReplyDebts
    <3>4. Cardinality(RepliesLeft(s, S)) <= CyclicThreadNumPosts + Cardinality(ReplyDebts(s, S))
        BY <3>1 DEF LimitInv, ReplyLimit
    <3> QED BY <3>2, <3>3, <3>4, CountsAreFinite, LimitShrinks, ConfigAssumption
  <2> QED BY <2>3, <2>4
<1>9. PrunesDeleted(r)'
    BY <1>4 DEF PrunesDeleted
<1> QED BY <1>2, <1>4, <1>6, <1>7, <1>8, <1>9, OrderKept, PrunesOthersKept DEF LimitInv

\* A request that panics because its thread has no live reply left owes nothing.
LEMMA CyclicCheckPanicsLimits ==
    ASSUME IInv, ForumInv, LimitInv, TypeInv', NEW r \in Requests, CyclicCheckPanics(r)
    PROVE  LimitInv'
<1>r. req \in [Requests -> Locals] /\ pc \in [Requests -> Steps]
    BY DEF IInv, TypeInv, TypeOK
<1> DEFINE t == req[r].thread
<1>1. /\ UNCHANGED <<posts, threads, nextPost, nextThread>> /\ owed' = owed /\ pc[r] = "cyclic"
      /\ t # 0 /\ LiveReplies(t) = {} /\ OthersKept(r) /\ pc'[r] = "idle"
    BY <1>r DEF CyclicCheckPanics, At, Finish, OthersKept, tables, history
<1>2. RowsStay
    BY <1>1, UnchangedStep
<1>3. ASSUME NEW s, s # t
      PROVE  \A S : OwedFor(s, S) \subseteq OwedFor(s, S)'
  <2>1. DebtKept(r, s)
      BY <1>3 DEF DebtKept, Debt
  <2> QED BY <2>1, <1>1, OwedForKept
<1>4. BoardLimit'
  <2>1. \A S : OwedFor(0, S) \subseteq OwedFor(0, S)'
      BY <1>1, <1>3
  <2>2. \A q \in Requests : q \in Trimming' => q \in Trimming /\ req'[q].victims = req[q].victims
      BY <1>1 DEF Trimming, OthersKept
  <2> QED BY <1>2, <2>1, <2>2, CountedStay, BoardLimitKept DEF LimitInv
<1>5. ASSUME NEW s \in ThreadIDs, s # t
      PROVE  ReplyLimit(s)'
  <2>1. \A q \in Requests : q \in Pruning(s)' => q \in Pruning(s) /\ req'[q].todo = req[q].todo
      BY <1>1 DEF Pruning, OthersKept
  <2> QED BY <1>2, <1>3, <1>5, <2>1, CountedStay, ReplyLimitKept DEF LimitInv
<1>6. ASSUME NEW s \in ThreadIDs, s = t
      PROVE  ReplyLimit(s)'
  <2> SUFFICES ASSUME NEW S
               PROVE  Cardinality(RepliesLeft(s, S)') <= CyclicThreadNumPosts + Cardinality(ReplyDebts(s, S)')
      BY DEF ReplyLimit
  <2>1. RepliesLeft(s, S)' \subseteq {}
      BY <1>1, <1>6 DEF RepliesLeft, LiveReplies, PostsIn, LivePost
  <2>2. Cardinality({}) <= CyclicThreadNumPosts
      BY FS_EmptySet, ConfigAssumption
  <2> QED BY <2>1, <2>2, FS_EmptySet, CountsAreFinite, LimitHolds, ConfigAssumption
<1>7. PrunesDeleted(r)'
    BY <1>1 DEF PrunesDeleted
<1> QED BY <1>1, <1>2, <1>4, <1>5, <1>6, <1>7, OrderKept, PrunesOthersKept DEF LimitInv

\* p.Delete() of the loop over the replies to be pruned.
LEMMA PrunePostLimits ==
    ASSUME IInv, ForumInv, LimitInv, TypeInv', NEW r \in Requests, PrunePost(r)
    PROVE  LimitInv'
<1>r. req \in [Requests -> Locals] /\ pc \in [Requests -> Steps] /\ posts \in [PostIDs -> PostRow]
    BY DEF IInv, TypeInv, TypeOK
<1>1. /\ pc[r] = "prune" /\ OthersKept(r) /\ req' = req /\ pc'[r] = "pruneFile" /\ owed' = owed
      /\ posts' = PostsMarkedDeleted({NextToPrune(r)})
      /\ UNCHANGED <<threads, nextPost, nextThread>>
    BY <1>r DEF PrunePost, At, Goto, OthersKept, history
<1>2. NextToPrune(r) < nextPost /\ ~posts[NextToPrune(r)].top /\ NextToPrune(r) \in PostIDs
    BY <1>1, <1>r, NextToPruneInTodo DEF IInv, ControlInv, PrunesReplies, Locals
<1>3. RowsStay
    BY <1>1, <1>2, MarkReplyStep
<1>4. \A s, S : OwedFor(s, S) \subseteq OwedFor(s, S)'
  <2>1. \A s : DebtKept(r, s)
      BY <1>1 DEF DebtKept, Debt, Owes
  <2> QED BY <2>1, <1>1, OwedForKept
<1>5. BoardLimit'
  <2>1. \A q \in Requests : q \in Trimming' => q \in Trimming /\ req'[q].victims = req[q].victims
      BY <1>1 DEF Trimming, OthersKept
  <2> QED BY <1>3, <1>4, <2>1, CountedStay, BoardLimitKept DEF LimitInv
<1>6. ASSUME NEW s \in ThreadIDs
      PROVE  ReplyLimit(s)'
  <2>1. \A q \in Requests : q \in Pruning(s)' => q \in Pruning(s) /\ req'[q].todo = req[q].todo
      BY <1>1 DEF Pruning, OthersKept
  <2> QED BY <1>3, <1>4, <2>1, CountedStay, ReplyLimitKept DEF LimitInv
<1>7. PrunesDeleted(r)'
  <2>1. NextToPrune(r)' = NextToPrune(r)
      BY <1>1 DEF NextToPrune
  <2>2. posts'[NextToPrune(r)].state = "deleted"
      BY <1>1, <1>2, <1>r DEF PostsMarkedDeleted, PostRow
  <2> QED BY <2>1, <2>2 DEF PrunesDeleted
<1> QED BY <1>1, <1>3, <1>5, <1>6, <1>7, OrderKept, PrunesOthersKept DEF LimitInv

\* The end of a round: the request forgets a reply that is deleted, and after the last one
\* that it owes anything.
LEMMA PruneFileLimits ==
    ASSUME IInv, ForumInv, LimitInv, TypeInv', NEW r \in Requests, PruneFile(r)
    PROVE  LimitInv'
<1>r. req \in [Requests -> Locals] /\ pc \in [Requests -> Steps] /\ posts \in [PostIDs -> PostRow]
    BY DEF IInv, TypeInv, TypeOK
<1> DEFINE t == req[r].thread
           p == NextToPrune(r)
           rest == req[r].todo \ {p}
<1>1. /\ UNCHANGED <<posts, threads, nextPost, nextThread>> /\ owed' = owed /\ pc[r] = "pruneFile"
      /\ IF rest = {} THEN GotoBuild(r)
         ELSE Goto(r, "prune") /\ req' = [req EXCEPT ![r].todo = rest]
    BY DEF PruneFile, At, tables, history
<1>2. RowsStay
    BY <1>1, UnchangedStep
<1>3. posts[p].state = "deleted"
    BY <1>1 DEF LimitInv, PrunesDeleted
<1> HIDE DEF p
<1>4. /\ OthersKept(r) /\ req'[r].thread = t /\ req'[r].post = req[r].post
      /\ rest = {} => pc'[r] = "trim"
      /\ rest # {} => pc'[r] = "prune" /\ req'[r].todo = rest
  <2>1. CASE rest = {}
    <3>1. /\ OthersKept(r) /\ pc'[r] = "trim"
          /\ req'[r] = [NoLocals EXCEPT !.thread = t, !.post = req[r].post]
        BY <2>1, <1>1, <1>r DEF GotoBuild, Goto, OthersKept
    <3> QED BY <2>1, <3>1 DEF NoLocals
  <2>2. CASE rest # {}
      BY <2>2, <1>1, <1>r DEF Goto, OthersKept, Locals
  <2> QED BY <2>1, <2>2
<1>5. ASSUME NEW s, s # t \/ t = 0 \/ rest # {}
      PROVE  \A S : OwedFor(s, S) \subseteq OwedFor(s, S)'
  <2>1. DebtKept(r, s)
      BY <1>1, <1>4, <1>5 DEF DebtKept, Debt, Owes
  <2> QED BY <2>1, <1>1, <1>4, OwedForKept
<1>6. BoardLimit'
  <2>1. \A S : OwedFor(0, S) \subseteq OwedFor(0, S)'
      BY <1>5
  <2>2. \A q \in Requests : q \in Trimming' => q \in Trimming /\ req'[q].victims = req[q].victims
      BY <1>4 DEF Trimming, OthersKept
  <2> QED BY <1>2, <2>1, <2>2, CountedStay, BoardLimitKept DEF LimitInv
<1>7. ASSUME NEW s \in ThreadIDs
      PROVE  /\ LiveReplies(s)' = LiveReplies(s) /\ PostsIn({s})' = PostsIn({s})
             /\ req[r].todo \cap LiveReplies(s) \subseteq rest
    BY <1>1, <1>3 DEF LiveReplies, PostsIn, LivePost
<1>8. ASSUME NEW s \in ThreadIDs, s # t \/ rest # {}
      PROVE  ReplyLimit(s)'
  <2>1. ASSUME NEW q \in Requests, q \in Pruning(s)'
        PROVE  q \in Pruning(s) /\ req[q].todo \cap LiveReplies(s)' \subseteq req'[q].todo
    <3>1. CASE q = r
        BY <2>1, <3>1, <1>1, <1>4, <1>7, <1>8 DEF Pruning
    <3>2. CASE q # r
        BY <2>1, <3>2, <1>4 DEF Pruning, OthersKept
    <3> QED BY <3>1, <3>2
  <2> QED BY <1>2, <1>5, <1>8, <2>1, CountedStay, ReplyLimitKept DEF LimitInv
<1>9. ASSUME NEW s \in ThreadIDs, s = t, rest = {}
      PROVE  ReplyLimit(s)'
  <2> SUFFICES ASSUME threads[s].cyclic, NEW S \in SUBSET Pruning(s)'
               PROVE  Cardinality(RepliesLeft(s, S)') <= CyclicThreadNumPosts + Cardinality(ReplyDebts(s, S)')
      BY <1>1 DEF ReplyLimit
  <2>1. r \notin S /\ \A q \in S : q \in Pruning(s) /\ req'[q].todo = req[q].todo
      BY <1>4, <1>9 DEF Pruning, OthersKept
  <2>2. S \cup {r} \in SUBSET Pruning(s)
      BY <2>1, <1>1, <1>9 DEF Pruning
  <2>3. RepliesLeft(s, S)' \subseteq RepliesLeft(s, S \cup {r})
    <3>1. ASSUME NEW x \in RepliesLeft(s, S)'
          PROVE  x \in LiveReplies(s)' /\ \A q \in S : x \notin req'[q].todo
        BY DEF RepliesLeft
    <3>2. ASSUME NEW x \in RepliesLeft(s, S)', NEW q \in S \cup {r}
          PROVE  x \notin req[q].todo
      <4>1. CASE q = r
          BY <3>1, <4>1, <1>7, <1>9
      <4>2. CASE q # r
          BY <3>1, <4>2, <2>1
      <4> QED BY <4>1, <4>2
    <3>3. LiveReplies(s)' = LiveReplies(s)
        BY <1>7
    <3> QED BY <3>1, <3>2, <3>3 DEF RepliesLeft
  <2>4. ReplyDebts(s, S \cup {r}) \subseteq ReplyDebts(s, S)'
      BY <1>1, <1>4, <1>7 DEF ReplyDebts, OwedFor, Debt, Owes, OthersKept
  <2>5. Cardinality(RepliesLeft(s, S \cup {r})) <= CyclicThreadNumPosts + Cardinality(ReplyDebts(s, S \cup {r}))
      BY <2>2 DEF LimitInv, ReplyLimit
  <2> QED BY <2>3, <2>4, <2>5, CountsAreFinite, LimitShrinks, ConfigAssumption
<1>10. PrunesDeleted(r)'
    BY <1>4 DEF PrunesDeleted
<1> QED BY <1>2, <1>4, <1>6, <1>8, <1>9, <1>10, OrderKept, PrunesOthersKept DEF LimitInv

\* The SELECT of DeleteOldThreads pays for what its request does not delete later.
LEMMA SelectOldThreadsLimits ==
    ASSUME IInv, ForumInv, LimitInv, TypeInv', NEW r \in Requests, SelectOldThreads(r)
    PROVE  LimitInv'
<1>r. req \in [Requests -> Locals] /\ pc \in [Requests -> Steps]
    BY DEF IInv, TypeInv, TypeOK
<1> DEFINE next == IF TrimmedThreads = {} THEN "tops" ELSE "trimMark"
<1>1. /\ UNCHANGED <<posts, threads, nextPost, nextThread>> /\ owed' = owed /\ pc[r] = "trim"
      /\ req' = [req EXCEPT ![r].victims = TrimmedThreads] /\ pc' = [pc EXCEPT ![r] = next]
    BY DEF SelectOldThreads, At, Goto, tables, history
<1>2. RowsStay
    BY <1>1, UnchangedStep
<1>4. /\ OthersKept(r) /\ req'[r].thread = req[r].thread /\ req'[r].post = req[r].post
      /\ pc'[r] = next /\ req'[r].victims = TrimmedThreads
    BY <1>1, <1>r DEF OthersKept, Locals
<1>5. ASSUME NEW s, s # 0 \/ TrimmedThreads # {}
      PROVE  \A S : OwedFor(s, S) \subseteq OwedFor(s, S)'
  <2>1. DebtKept(r, s)
      BY <1>1, <1>4, <1>5 DEF DebtKept, Debt, Owes
  <2> QED BY <2>1, <1>1, <1>4, OwedForKept
<1>6. BoardLimit'
  <2> SUFFICES ASSUME NEW S \in SUBSET Trimming'
               PROVE  Cardinality(ThreadsLeft(S)') <= MaxThreads + Cardinality(ThreadDebts(S)')
      BY DEF BoardLimit
  <2>1. Counted' = Counted
      BY <1>1 DEF Counted, LiveThread
  <2>2. \A q \in S \ {r} : q \in Trimming /\ req'[q].victims = req[q].victims
      BY <1>4 DEF Trimming, OthersKept
  <2>3. CASE r \in S \/ TrimmedThreads = {}
    <3>1. ThreadsLeft(S)' \subseteq Counted \ TrimmedThreads
        BY <2>1, <2>3, <1>4 DEF ThreadsLeft
    <3>2. Counted \ TrimmedThreads \in SUBSET ThreadIDs
        BY DEF Counted
    <3>3. IsFiniteSet(Counted \ TrimmedThreads)
        BY <3>2, CountsAreFinite, FS_Subset
    <3> QED BY <3>1, <3>3, TrimmedLeavesLimit, CountsAreFinite, LimitHolds, ConfigAssumption
  <2>4. CASE r \notin S /\ TrimmedThreads # {}
    <3>1. S \in SUBSET Trimming /\ \A q \in S : req'[q].victims = req[q].victims
        BY <2>2, <2>4
    <3>2. ThreadsLeft(S)' \subseteq ThreadsLeft(S)
        BY <2>1, <3>1 DEF ThreadsLeft
    <3>3. ThreadDebts(S) \subseteq ThreadDebts(S)'
        BY <1>1, <1>5, <2>4 DEF ThreadDebts
    <3>4. Cardinality(ThreadsLeft(S)) <= MaxThreads + Cardinality(ThreadDebts(S))
        BY <3>1 DEF LimitInv, BoardLimit
    <3> QED BY <3>2, <3>3, <3>4, CountsAreFinite, LimitShrinks, ConfigAssumption
  <2> QED BY <2>3, <2>4
<1>7. ASSUME NEW s \in ThreadIDs
      PROVE  ReplyLimit(s)'
  <2>1. \A q \in Requests : q \in Pruning(s)' => q \in Pruning(s) /\ req'[q].todo = req[q].todo
      BY <1>4 DEF Pruning, OthersKept
  <2>2. s # 0
      BY DEF ThreadIDs
  <2> QED BY <1>2, <1>5, <2>1, <2>2, CountedStay, ReplyLimitKept DEF LimitInv
<1>9. PrunesDeleted(r)'
    BY <1>4 DEF PrunesDeleted
<1> QED BY <1>2, <1>4, <1>6, <1>7, <1>9, OrderKept, PrunesOthersKept DEF LimitInv

\* The transaction of DeleteOldThreads: the threads are gone, and so is the debt.
LEMMA DeleteOldThreadsLimits ==
    ASSUME IInv, ForumInv, LimitInv, TypeInv', NEW r \in Requests, DeleteOldThreads(r)
    PROVE  LimitInv'
<1>r. req \in [Requests -> Locals] /\ pc \in [Requests -> Steps] /\ threads \in [ThreadIDs -> ThreadRow]
    BY DEF IInv, TypeInv, TypeOK
<1> DEFINE T == req[r].victims
           P == PostsIn(T)
<1>1. /\ posts' = PostsMarkedDeleted(PostsIn(T)) /\ threads' = ThreadsMarkedDeleted(T)
      /\ UNCHANGED <<nextPost, nextThread>> /\ owed' = owed /\ pc[r] = "trimMark"
      /\ req' = [req EXCEPT ![r].todo = P] /\ pc' = [pc EXCEPT ![r] = "clean"]
    BY DEF DeleteOldThreads, At, Goto, history
<1>2. RowsStay
  <2>1. \A t \in ThreadIDs : t \in T => t < nextThread
      BY DEF ForumInv, ThreadsKnown
  <2> QED BY <1>1, <2>1, MarkThreadsStep
<1>4. /\ OthersKept(r) /\ req'[r].thread = req[r].thread /\ req'[r].post = req[r].post
      /\ pc'[r] = "clean"
    BY <1>1, <1>r DEF OthersKept, Locals
<1>5. ASSUME NEW s \in ThreadIDs
      PROVE  \A S : OwedFor(s, S) \subseteq OwedFor(s, S)'
  <2>1. DebtKept(r, s)
      BY <1>1 DEF DebtKept, Debt, Owes, ThreadIDs
  <2> QED BY <2>1, <1>1, <1>4, OwedForKept
<1>6. BoardLimit'
  <2> SUFFICES ASSUME NEW S \in SUBSET Trimming'
               PROVE  Cardinality(ThreadsLeft(S)') <= MaxThreads + Cardinality(ThreadDebts(S)')
      BY DEF BoardLimit
  <2>1. r \notin S /\ \A q \in S : q \in Trimming /\ req'[q].victims = req[q].victims
      BY <1>4 DEF Trimming, OthersKept
  <2>2. S \cup {r} \in SUBSET Trimming
      BY <2>1, <1>1 DEF Trimming
  <2>3. Counted' \subseteq Counted \ T
    <3>1. \A t \in T : t \in ThreadIDs => threads'[t].state = "deleted"
        BY <1>1, <1>r DEF ThreadsMarkedDeleted, ThreadRow
    <3>2. Counted' \subseteq Counted
        BY <1>2, CountedStay
    <3> QED BY <3>1, <3>2 DEF Counted, LiveThread
  <2>4. ThreadsLeft(S)' \subseteq ThreadsLeft(S \cup {r})
      BY <2>1, <2>3 DEF ThreadsLeft
  <2>5. ThreadDebts(S \cup {r}) \subseteq ThreadDebts(S)'
    <3>1. OwedFor(0, S \cup {r}) \subseteq OwedFor(0, S)'
        BY <1>1, <1>4 DEF OwedFor, Debt, Owes, OthersKept
    <3> QED BY <3>1, <1>2, CountedStay DEF ThreadDebts, OwedFor
  <2>6. Cardinality(ThreadsLeft(S \cup {r})) <= MaxThreads + Cardinality(ThreadDebts(S \cup {r}))
      BY <2>2 DEF LimitInv, BoardLimit
  <2> QED BY <2>4, <2>5, <2>6, CountsAreFinite, LimitShrinks, ConfigAssumption
<1>7. ASSUME NEW s \in ThreadIDs
      PROVE  ReplyLimit(s)'
  <2>1. \A q \in Requests : q \in Pruning(s)' => q \in Pruning(s) /\ req'[q].todo = req[q].todo
      BY <1>4 DEF Pruning, OthersKept
  <2> QED BY <1>2, <1>5, <2>1, CountedStay, ReplyLimitKept DEF LimitInv
<1>9. PrunesDeleted(r)'
    BY <1>4 DEF PrunesDeleted
<1> QED BY <1>2, <1>4, <1>6, <1>7, <1>9, OrderKept, PrunesOthersKept DEF LimitInv

-----------------------------------------------------------------------------
(* Every action keeps LimitInv. *)

\* pkg/posting/post.go keeps LimitInv.
LEMMA MakePostLimits ==
    ASSUME IInv, ForumInv, LimitInv, TypeInv', NEW r \in Requests, MakePostNext(r)
    PROVE  LimitInv'
<1> USE DEF At, tables, disk, history
<1>r. req \in [Requests -> Locals] /\ pc \in [Requests -> Steps]
    BY DEF IInv, TypeInv, TypeOK
<1>1. CASE \/ StartPost(r) \/ SaveUpload(r) \/ SaveUploadFails(r) \/ PassFilter(r)
           \/ RejectByFilter(r) \/ FilteringFails(r) \/ InsertPostFails(r)
  <2>1. /\ pc[r] \in {"idle", "save", "filter", "insert"} /\ owed' = owed
        /\ pc'[r] \in {"idle", "save", "filter", "insert"}
      BY <1>1, <1>r DEF StartPost, SaveUpload, SaveUploadFails, PassFilter, RejectByFilter,
                        FilteringFails, InsertPostFails, Goto, Finish
  <2>2. RowsStay /\ OthersKept(r)
    <3>1. CASE InsertPostFails(r)
      <4>1. Finish(r) /\ UNCHANGED <<posts, threads, nextPost, nextThread>>
          BY <3>1 DEF InsertPostFails
      <4> QED BY <4>1, UnchangedStep, ForumFinish
    <3>2. CASE ~InsertPostFails(r)
      <4>1. pc[r] # "insert"
          BY <1>1, <3>2 DEF StartPost, SaveUpload, SaveUploadFails, PassFilter, RejectByFilter,
                            FilteringFails
      <4> QED BY <4>1, MakePostForum DEF InsertReply, InsertThread
    <3> QED BY <3>1, <3>2
  <2>3. \A t : DebtKept(r, t)
      BY <2>1, NothingOwed
  <2> QED BY <2>1, <2>2, <2>3, LimitsKept
<1>2. CASE InsertReply(r)
    BY <1>2, InsertReplyLimits
<1>3. CASE InsertThread(r)
    BY <1>3, InsertThreadLimits
<1>4. CASE AttachFile(r) \/ TakeOwnershipFails(r)
  <2>1. pc[r] # "insert" /\ pc'[r] \in {"chown", "cyclic"} /\ req'[r] = req[r] /\ owed' = owed
      BY <1>4, <1>r DEF AttachFile, TakeOwnershipFails, Goto
  <2>2. RowsStay /\ OthersKept(r)
      BY <2>1, MakePostForum DEF InsertReply, InsertThread
  <2>3. \A t : DebtKept(r, t)
      BY <2>1, GoesOnOwing
  <2> QED BY <2>1, <2>2, <2>3, LimitsKept
<1>5. CASE AttachFileFails(r)
  <2>1. pc[r] # "insert" /\ pc'[r] = "idle" /\ owed' = owed \cup Owing({r})
      BY <1>5, <1>r DEF AttachFileFails, Finish
  <2>2. RowsStay /\ OthersKept(r)
      BY <2>1, MakePostForum DEF InsertReply, InsertThread
  <2>3. \A t : DebtKept(r, t)
      BY <2>1, LeavesDebt
  <2> QED BY <2>1, <2>2, <2>3, LimitsKept
<1>6. CASE CyclicCheck(r)
    BY <1>6, CyclicCheckLimits
<1>7. CASE CyclicCheckPanics(r)
    BY <1>7, CyclicCheckPanicsLimits
<1>8. CASE PrunePost(r)
    BY <1>8, PrunePostLimits
<1>9. CASE PruneFile(r)
    BY <1>9, PruneFileLimits
<1> QED BY <1>1, <1>2, <1>3, <1>4, <1>5, <1>6, <1>7, <1>8, <1>9 DEF MakePostNext

\* cmd/gochan/deleteposts.go keeps LimitInv: what somebody deletes is no longer counted.
LEMMA DeletePostsLimits ==
    ASSUME IInv, ForumInv, LimitInv, TypeInv', NEW r \in Requests, DeletePostsNext(r)
    PROVE  LimitInv'
<1>r. pc \in [Requests -> Steps]
    BY DEF IInv, TypeInv, TypeOK
<1>1. /\ pc[r] \in {"idle", "removeFiles", "deleteRows", "mark"} /\ owed' = owed
      /\ pc'[r] \in {"idle", "removeFiles", "deleteRows", "mark", "trim"}
    BY <1>r DEF DeletePostsNext, StartDelete, RemoveFiles, RemoveFilesFails, FilesRemoved, DeleteRows,
                MarkPostsAsDeleted, At, Goto, GotoBuild, Finish, history
<1>2. RowsStay /\ OthersKept(r)
    BY DeletePostsForum
<1>3. \A t : DebtKept(r, t)
    BY <1>1, NothingOwed
<1> QED BY <1>1, <1>2, <1>3, LimitsKept

\* A process that died prunes nothing, all its requests have left their debts.
LEMMA DieLimits ==
    ASSUME IInv, ForumInv, LimitInv, TypeInv', RowsStay, Die
    PROVE  LimitInv'
<1>1. /\ \A q \in Requests : pc'[q] = "idle"
      /\ owed' = owed \cup Owing(Requests)
    BY DEF Die
<1>2. \A s, S : OwedFor(s, S) \subseteq OwedFor(s, S)'
    BY <1>1 DEF OwedFor, Debt, Owing
<1>3. BoardLimit'
  <2>1. \A q \in Requests : q \in Trimming' => q \in Trimming /\ req'[q].victims = req[q].victims
      BY <1>1 DEF Trimming
  <2> QED BY <1>2, <2>1, CountedStay, BoardLimitKept DEF LimitInv
<1>4. ASSUME NEW s \in ThreadIDs
      PROVE  ReplyLimit(s)'
  <2>1. \A q \in Requests : q \in Pruning(s)' => q \in Pruning(s) /\ req'[q].todo = req[q].todo
      BY <1>1 DEF Pruning
  <2> QED BY <1>2, <2>1, CountedStay, ReplyLimitKept DEF LimitInv
<1>5. \A q \in Requests : PrunesDeleted(q)'
    BY <1>1 DEF PrunesDeleted
<1> QED BY <1>3, <1>4, <1>5, OrderKept DEF LimitInv

\* pkg/building/boards.go keeps LimitInv.
LEMMA BuildBoardLimits ==
    ASSUME IInv, ForumInv, LimitInv, TypeInv', NEW r \in Requests, BuildBoardNext(r)
    PROVE  LimitInv'
<1> USE DEF At, tables, disk, history
<1>r. pc \in [Requests -> Steps]
    BY DEF IInv, TypeInv, TypeOK
<1>1. CASE SelectOldThreads(r)
    BY <1>1, SelectOldThreadsLimits
<1>2. CASE DeleteOldThreads(r)
    BY <1>2, DeleteOldThreadsLimits
<1>3. CASE BuildThreadPagesPanics(r)
  <2>1. Die /\ UNCHANGED <<posts, threads, nextPost, nextThread>>
      BY <1>3 DEF BuildThreadPagesPanics
  <2> QED BY <2>1, UnchangedStep, DieLimits
<1>4. CASE ~(SelectOldThreads(r) \/ DeleteOldThreads(r) \/ BuildThreadPagesPanics(r))
  <2>1. /\ pc[r] \in {"clean", "tops", "pages"} /\ owed' = owed
        /\ pc'[r] \in {"idle", "clean", "tops", "pages"}
      BY <1>4, <1>r DEF BuildBoardNext, CleanPost, CleanPostFails, PostsCleaned, SelectTopPosts,
                        BuildThreadPages, BoardBuilt, Goto, Finish
  <2>2. RowsStay /\ OthersKept(r)
      BY <1>4, BuildBoardForum
  <2>3. \A t : DebtKept(r, t)
      BY <2>1, NothingOwed
  <2> QED BY <2>1, <2>2, <2>3, LimitsKept
<1> QED BY <1>1, <1>2, <1>3, <1>4

\* The server trims the board before it serves requests.
LEMMA StartupLimits ==
    ASSUME IInv, ForumInv, LimitInv, TypeInv', Startup
    PROVE  LimitInv'
<1>1. /\ posts' = PostsMarkedDeleted(PostsIn(TrimmedThreads))
      /\ threads' = ThreadsMarkedDeleted(TrimmedThreads)
      /\ UNCHANGED <<nextPost, nextThread, req, pc, owed>>
    BY DEF Startup, history
<1>2. RowsStay
    BY <1>1, TrimmedExist, MarkThreadsStep
<1>3. \A s, S : OwedFor(s, S)' = OwedFor(s, S)
    BY <1>1 DEF OwedFor, Debt, Owes
<1>4. BoardLimit'
  <2>1. \A q \in Requests : q \in Trimming' => q \in Trimming /\ req'[q].victims = req[q].victims
      BY <1>1 DEF Trimming
  <2> QED BY <1>2, <1>3, <2>1, CountedStay, BoardLimitKept DEF LimitInv
<1>5. ASSUME NEW s \in ThreadIDs
      PROVE  ReplyLimit(s)'
  <2>1. \A q \in Requests : q \in Pruning(s)' => q \in Pruning(s) /\ req'[q].todo = req[q].todo
      BY <1>1 DEF Pruning
  <2> QED BY <1>2, <1>3, <2>1, CountedStay, ReplyLimitKept DEF LimitInv
<1>6. \A q \in Requests : PrunesDeleted(q)'
    BY <1>1, <1>2, PrunesKept
<1> QED BY <1>2, <1>4, <1>5, <1>6, OrderKept DEF LimitInv

\* LimitInv is inductive, relative to the invariants of ImageBoardProofs and ForumProofs.
LEMMA LimitInvInductive ==
    IInv /\ ForumInv /\ LimitInv /\ [Next]_vars => LimitInv'
<1> SUFFICES ASSUME IInv, ForumInv, LimitInv, [Next]_vars
             PROVE  LimitInv'
    OBVIOUS
<1>t. TypeInv'
    BY TypeInvInductive DEF IInv
<1>1. CASE \E r \in Requests : RequestNext(r)
  <2>1. PICK r \in Requests : RequestNext(r)
      BY <1>1
  <2>2. CASE QueryFails(r)
    <3>1. /\ Finish(r) /\ UNCHANGED <<posts, threads, nextPost, nextThread>>
          /\ owed' = owed \cup Owing({r}) /\ pc'[r] = "idle"
        BY <2>2 DEF QueryFails, Finish, tables, IInv, TypeInv, TypeOK
    <3>2. RowsStay /\ OthersKept(r)
        BY <1>t, <3>1, UnchangedStep, ForumFinish
    <3>3. \A t : DebtKept(r, t)
        BY <3>1, LeavesDebt
    <3> QED BY <1>t, <3>1, <3>2, <3>3, LimitsKept
  <2> QED BY <1>t, <2>1, <2>2, MakePostLimits, DeletePostsLimits, BuildBoardLimits DEF RequestNext
<1>2. CASE Crash
    BY <1>t, <1>2, UnchangedStep, DieLimits DEF Crash, tables
<1>3. CASE Startup
    BY <1>t, <1>3, StartupLimits
<1>4. CASE UNCHANGED vars
  <2>1. UNCHANGED <<posts, threads, nextPost, nextThread, req, pc, owed>>
      BY <1>4 DEF vars, tables, history
  <2> QED BY <2>1 DEF LimitInv, BoardLimit, ThreadsLeft, ThreadDebts, Trimming, OwedFor, Debt, Owes,
                      Counted, LiveThread, ReplyLimit, RepliesLeft, ReplyDebts, Pruning, LiveReplies,
                      PostsIn, LivePost, BumpsDiffer, PostsKnowThreads, PrunesDeleted, NextToPrune
<1> QED BY <1>1, <1>2, <1>3, <1>4 DEF Next

\* An empty board is within its limits.
LEMMA LimitInvInit == Init => LimitInv
<1> SUFFICES ASSUME Init PROVE LimitInv
    OBVIOUS
<1>1. /\ \A p \in PostIDs : posts[p].state = "none"
      /\ \A t \in ThreadIDs : threads[t].state = "none"
      /\ \A r \in Requests : pc[r] = "idle"
    BY DEF Init, NoPost, NoThread
<1>2. Cardinality({}) = 0
    BY FS_EmptySet
<1>3. BoardLimit
  <2> SUFFICES ASSUME NEW S
               PROVE  Cardinality(ThreadsLeft(S)) <= MaxThreads + Cardinality(ThreadDebts(S))
      BY DEF BoardLimit
  <2>1. ThreadsLeft(S) \subseteq {}
      BY <1>1 DEF ThreadsLeft, Counted, LiveThread
  <2> QED BY <1>2, <2>1, FS_EmptySet, CountsAreFinite, LimitHolds, ConfigAssumption
<1>4. ASSUME NEW s \in ThreadIDs
      PROVE  ReplyLimit(s)
  <2> SUFFICES ASSUME NEW S
               PROVE  Cardinality(RepliesLeft(s, S)) <= CyclicThreadNumPosts + Cardinality(ReplyDebts(s, S))
      BY DEF ReplyLimit
  <2>1. RepliesLeft(s, S) \subseteq {}
      BY <1>1 DEF RepliesLeft, LiveReplies, PostsIn
  <2> QED BY <1>2, <2>1, FS_EmptySet, CountsAreFinite, LimitHolds, ConfigAssumption
<1>5. BumpsDiffer /\ PostsKnowThreads /\ \A r \in Requests : PrunesDeleted(r)
    BY <1>1 DEF BumpsDiffer, PostsKnowThreads, PrunesDeleted
<1> QED BY <1>3, <1>4, <1>5 DEF LimitInv

-----------------------------------------------------------------------------
(* The limits as the board's administrator reads them. *)

\* Each debt is that of a request, or of one that has ended.
LEMMA DebtsAreRequests ==
    ASSUME IInv, NEW t, NEW O, NEW D, O \in SUBSET PostIDs,
           D \subseteq {p \in PostIDs : p \in O \/ \E r \in Requests : Debt(r, t, p)}
    PROVE  Cardinality(D) <= Cardinality({r \in Requests : Owes(r) /\ req[r].thread = t}) + Cardinality(O)
<1> DEFINE R == {r \in Requests : Owes(r) /\ req[r].thread = t}
           post == [r \in R |-> req[r].post]
           paid == {post[r] : r \in R}
<1>1. IsFiniteSet(R)
  <2>1. R \in SUBSET Requests
      OBVIOUS
  <2> QED BY <2>1, RequestsAssumption, FS_Subset
<1>2. post \in [R -> Int]
    BY BoundsAssumption DEF IInv, TypeInv, TypeOK, Locals
<1>3. D \subseteq paid \cup O
    BY DEF Debt
<1> HIDE DEF R, post
<1>4. IsFiniteSet(paid) /\ Cardinality(paid) <= Cardinality(R)
    BY <1>1, <1>2, ImageBound
<1>5. IsFiniteSet(O)
    BY CountsAreFinite, FS_Subset
<1> HIDE DEF paid
<1>6. /\ IsFiniteSet(paid \cup O)
      /\ Cardinality(paid \cup O) = Cardinality(paid) + Cardinality(O) - Cardinality(paid \cap O)
    BY <1>4, <1>5, FS_Union
<1>7. Cardinality(D) <= Cardinality(paid \cup O) /\ IsFiniteSet(D)
    BY <1>3, <1>6, FS_Subset
<1>8. paid \cap O \in SUBSET O
    OBVIOUS
<1>9. IsFiniteSet(paid \cap O)
    BY <1>5, <1>8, FS_Subset
<1>10. /\ Cardinality(D) \in Nat /\ Cardinality(paid) \in Nat /\ Cardinality(O) \in Nat
       /\ Cardinality(R) \in Nat /\ Cardinality(paid \cap O) \in Nat /\ Cardinality(paid \cup O) \in Nat
    BY <1>1, <1>4, <1>5, <1>6, <1>7, <1>9, FS_CardinalityType
<1>11. Cardinality(D) <= Cardinality(R) + Cardinality(O)
    BY <1>4, <1>6, <1>7, <1>10
<1> QED BY <1>11 DEF R

\* The invariants say what the runs check: no request has deleted what it selected yet.
LEMMA LimitInvImplies ==
    ASSUME IInv, LimitInv
    PROVE  ThreadLimit /\ CyclicBound
<1>1. ThreadLimit
  <2> DEFINE R == {r \in Requests : Owes(r) /\ req[r].thread = 0}
             O == {p \in owed : posts[p].top}
  <2>1. Cardinality(Counted) <= MaxThreads + Cardinality(ThreadDebts({}))
    <3>1. ThreadsLeft({}) = Counted
        BY DEF ThreadsLeft
    <3> QED BY <3>1 DEF LimitInv, BoardLimit
  <2>2. O \in SUBSET PostIDs
      BY DEF IInv, TypeInv, TypeOK
  <2>3. ThreadDebts({}) \subseteq {p \in PostIDs : p \in O \/ \E r \in Requests : Debt(r, 0, p)}
      BY DEF ThreadDebts, OwedFor
  <2>4. Cardinality(ThreadDebts({})) <= Cardinality(R) + Cardinality(O)
    <3> HIDE DEF O
    <3> QED BY <2>2, <2>3, DebtsAreRequests
  <2>5. IsFiniteSet(Counted)
    <3>1. Counted \in SUBSET ThreadIDs
        BY DEF Counted
    <3> QED BY <3>1, CountsAreFinite, FS_Subset
  <2>6. IsFiniteSet(R) /\ IsFiniteSet(O)
    <3>1. R \in SUBSET Requests
        OBVIOUS
    <3> QED BY <3>1, <2>2, CountsAreFinite, RequestsAssumption, FS_Subset
  <2>7. /\ Cardinality(Counted) \in Nat /\ Cardinality(ThreadDebts({})) \in Nat
        /\ Cardinality(R) \in Nat /\ Cardinality(O) \in Nat
      BY <2>5, <2>6, CountsAreFinite, FS_CardinalityType
  <2>8. Cardinality(Counted) <= MaxThreads + Cardinality(R) + Cardinality(O)
      BY <2>1, <2>4, <2>7, ConfigAssumption
  <2> QED BY <2>8 DEF ThreadLimit, Counted
<1>2. ASSUME NEW t \in ThreadIDs, threads[t].cyclic
      PROVE  Cardinality(LiveReplies(t)) <= CyclicThreadNumPosts
                + Cardinality({r \in Requests : Owes(r) /\ req[r].thread = t})
                + Cardinality(owed \cap PostsIn({t}))
  <2> DEFINE R == {r \in Requests : Owes(r) /\ req[r].thread = t}
             O == owed \cap PostsIn({t})
  <2>1. Cardinality(LiveReplies(t)) <= CyclicThreadNumPosts + Cardinality(ReplyDebts(t, {}))
    <3>1. RepliesLeft(t, {}) = LiveReplies(t)
        BY DEF RepliesLeft
    <3> QED BY <1>2, <3>1 DEF LimitInv, ReplyLimit
  <2>2. O \in SUBSET PostIDs
      BY DEF IInv, TypeInv, TypeOK
  <2>3. ReplyDebts(t, {}) \subseteq {p \in PostIDs : p \in O \/ \E r \in Requests : Debt(r, t, p)}
      BY DEF ReplyDebts, OwedFor
  <2>4. Cardinality(ReplyDebts(t, {})) <= Cardinality(R) + Cardinality(O)
    <3> HIDE DEF O
    <3> QED BY <2>2, <2>3, DebtsAreRequests
  <2>5. IsFiniteSet(LiveReplies(t))
    <3>1. LiveReplies(t) \in SUBSET PostIDs
        BY DEF LiveReplies, PostsIn
    <3> QED BY <3>1, CountsAreFinite, FS_Subset
  <2>6. IsFiniteSet(R) /\ IsFiniteSet(O)
    <3>1. R \in SUBSET Requests
        OBVIOUS
    <3> QED BY <3>1, <2>2, CountsAreFinite, RequestsAssumption, FS_Subset
  <2>7. /\ Cardinality(LiveReplies(t)) \in Nat /\ Cardinality(ReplyDebts(t, {})) \in Nat
        /\ Cardinality(R) \in Nat /\ Cardinality(O) \in Nat
      BY <2>5, <2>6, CountsAreFinite, FS_CardinalityType
  <2> QED BY <2>1, <2>4, <2>7, ConfigAssumption
<1> QED BY <1>1, <1>2 DEF CyclicBound

\* What every theorem below rests on.
LEMMA LimitInvCorrect == Spec => [](IInv /\ LimitInv)
<1>1. Init => IInv /\ ForumInv /\ LimitInv
    BY IInvInit, ForumInvInit, LimitInvInit
<1>2. IInv /\ ForumInv /\ LimitInv /\ [Next]_vars => IInv' /\ ForumInv' /\ LimitInv'
    BY IInvInductive, ForumInductive, LimitInvInductive
<1> QED BY <1>1, <1>2, PTL DEF Spec

\* MaxThreads holds on every board, but for one thread for each request that inserted one and
\* has not trimmed the board yet, or that failed or died before it could: requests that trim
\* at the same time, each on what it read before, never leave more.
THEOREM ThreadLimitCorrect == Spec => []ThreadLimit
<1>1. IInv /\ LimitInv => ThreadLimit
    BY LimitInvImplies
<1> QED BY <1>1, LimitInvCorrect, PTL

\* The same for CyclicThreadNumPosts in a cyclic thread and the requests that prune it.
THEOREM CyclicBoundCorrect == Spec => []CyclicBound
<1>1. IInv /\ LimitInv => CyclicBound
    BY LimitInvImplies
<1> QED BY <1>1, LimitInvCorrect, PTL
===============================================================================
