---------------------- MODULE PagesAndConnectionsProofs -----------------------
(***************************************************************************)
(* Two modules that share no variable.  The pool of database connections:   *)
(* no more connections are in use than the configuration allows, and the    *)
(* transactions that wait without a deadline for a second connection never  *)
(* hold all of them.  The second follows from the first: the request that   *)
(* would complete the circle still has the connection on which its query    *)
(* was prepared.  The pages of a board: what they say of a thread makes     *)
(* sense, though each figure comes from a query of its own; and what a      *)
(* build that nobody disturbs writes is exact, thread by thread.            *)
(***************************************************************************)
EXTENDS ConnectionPool, BoardPages, FiniteSetTheorems, FunctionTheorems, SequenceTheorems,
    WellFoundedInduction, TLAPS

-----------------------------------------------------------------------------
(* The connections. *)

\* The transactions that hold a connection and wait for another one without a deadline.
Stuck == {r \in InTransaction : poolPc[r] \in Waiting /\ ~HasDeadline(r)}

PcTypeOK == poolPc \in [Requests -> PoolSteps] /\ call \in [Requests -> Calls]

\* The inductive invariant.
PoolInv ==
    /\ PcTypeOK
    /\ InUse <= MaxConns
    /\ DefaultTimeout => Cardinality(Stuck) < MaxConns

\* The three sets PoolInv counts are finite, their cardinalities are numbers.
LEMMA CountsAreNumbers ==
    /\ IsFiniteSet(InTransaction) /\ Cardinality(InTransaction) \in Nat
    /\ IsFiniteSet(InQuery) /\ Cardinality(InQuery) \in Nat
    /\ IsFiniteSet(Stuck) /\ Cardinality(Stuck) \in Nat
    /\ Cardinality(Stuck) <= Cardinality(InTransaction)
  <1>1. InTransaction \in SUBSET Requests /\ InQuery \in SUBSET Requests
    BY DEF InTransaction, InQuery
  <1>2. Stuck \in SUBSET InTransaction
    BY DEF Stuck
  <1>3. IsFiniteSet(Requests)
    BY RequestsAssumption
  <1>4. IsFiniteSet(InTransaction) /\ IsFiniteSet(InQuery)
    BY <1>1, <1>3, FS_Subset
  <1>5. IsFiniteSet(Stuck) /\ Cardinality(Stuck) <= Cardinality(InTransaction)
    BY <1>2, <1>4, FS_Subset
  <1> QED
    BY <1>4, <1>5, FS_CardinalityType

\* A step that adds to none of the three sets keeps their bounds.
LEMMA FewerHold ==
    ASSUME PoolInv, InTransaction' \subseteq InTransaction, InQuery' \subseteq InQuery,
           DefaultTimeout => Stuck' \subseteq Stuck
    PROVE  InUse' <= MaxConns /\ (DefaultTimeout => Cardinality(Stuck') < MaxConns)
  <1>1. Cardinality(InTransaction') <= Cardinality(InTransaction) /\ Cardinality(InTransaction') \in Nat
    BY CountsAreNumbers, FS_Subset, FS_CardinalityType
  <1>2. Cardinality(InQuery') <= Cardinality(InQuery) /\ Cardinality(InQuery') \in Nat
    BY CountsAreNumbers, FS_Subset, FS_CardinalityType
  <1>3. DefaultTimeout => Cardinality(Stuck') <= Cardinality(Stuck) /\ Cardinality(Stuck') \in Nat
    BY CountsAreNumbers, FS_Subset, FS_CardinalityType
  <1>4. InUse <= MaxConns /\ (DefaultTimeout => Cardinality(Stuck) < MaxConns) /\ MaxConns \in Nat
    BY PoolAssumption DEF PoolInv
  <1>5. Cardinality(InTransaction') + Cardinality(InQuery') <= MaxConns
    BY <1>1, <1>2, <1>4, CountsAreNumbers DEF InUse
  <1>6. InUse' = Cardinality(InTransaction') + Cardinality(InQuery')
    BY DEF InUse
  <1>7. DefaultTimeout => Cardinality(Stuck') < MaxConns
    BY <1>3, <1>4, CountsAreNumbers
  <1> QED
    BY <1>5, <1>6, <1>7

\* A request that takes a free connection keeps the bounds: it holds one more, and waits for none.
LEMMA OneTakes ==
    ASSUME PoolInv, Free, NEW r \in Requests,
           \/ InTransaction' \subseteq InTransaction \cup {r} /\ InQuery' \subseteq InQuery
           \/ InTransaction' \subseteq InTransaction /\ InQuery' \subseteq InQuery \cup {r},
           DefaultTimeout => Stuck' \subseteq Stuck
    PROVE  InUse' <= MaxConns /\ (DefaultTimeout => Cardinality(Stuck') < MaxConns)
  <1> DEFINE T == InTransaction
             Q == InQuery
  <1>1. /\ IsFiniteSet(T) /\ IsFiniteSet(Q) /\ Cardinality(T) \in Nat /\ Cardinality(Q) \in Nat
        /\ IsFiniteSet(Stuck) /\ Cardinality(Stuck) \in Nat
    BY CountsAreNumbers
  <1>2. /\ IsFiniteSet(T \cup {r}) /\ Cardinality(T \cup {r}) \in Nat
        /\ Cardinality(T \cup {r}) <= Cardinality(T) + 1
    <2>1. IsFiniteSet(T \cup {r})
      BY <1>1, FS_AddElement
    <2>2. Cardinality(T \cup {r}) = IF r \in T THEN Cardinality(T) ELSE Cardinality(T) + 1
      BY <1>1, FS_AddElement
    <2> QED
      BY <1>1, <2>1, <2>2, FS_CardinalityType
  <1>3. /\ IsFiniteSet(Q \cup {r}) /\ Cardinality(Q \cup {r}) \in Nat
        /\ Cardinality(Q \cup {r}) <= Cardinality(Q) + 1
    <2>1. IsFiniteSet(Q \cup {r})
      BY <1>1, FS_AddElement
    <2>2. Cardinality(Q \cup {r}) = IF r \in Q THEN Cardinality(Q) ELSE Cardinality(Q) + 1
      BY <1>1, FS_AddElement
    <2> QED
      BY <1>1, <2>1, <2>2, FS_CardinalityType
  <1>4. InUse < MaxConns /\ InUse = Cardinality(T) + Cardinality(Q) /\ MaxConns \in Nat
    BY PoolAssumption DEF Free, InUse
  <1>5. InUse' = Cardinality(InTransaction') + Cardinality(InQuery')
    BY DEF InUse
  <1>6. InUse' <= MaxConns
    <2>1. CASE InTransaction' \subseteq T \cup {r} /\ InQuery' \subseteq Q
      <3>1. Cardinality(InTransaction') <= Cardinality(T \cup {r}) /\ Cardinality(InTransaction') \in Nat
        BY <1>2, <2>1, FS_Subset, FS_CardinalityType
      <3>2. Cardinality(InQuery') <= Cardinality(Q) /\ Cardinality(InQuery') \in Nat
        BY <1>1, <2>1, FS_Subset, FS_CardinalityType
      <3> QED
        BY <1>1, <1>2, <1>4, <1>5, <3>1, <3>2
    <2>2. CASE InTransaction' \subseteq T /\ InQuery' \subseteq Q \cup {r}
      <3>1. Cardinality(InTransaction') <= Cardinality(T) /\ Cardinality(InTransaction') \in Nat
        BY <1>1, <2>2, FS_Subset, FS_CardinalityType
      <3>2. Cardinality(InQuery') <= Cardinality(Q \cup {r}) /\ Cardinality(InQuery') \in Nat
        BY <1>3, <2>2, FS_Subset, FS_CardinalityType
      <3> QED
        BY <1>1, <1>3, <1>4, <1>5, <3>1, <3>2
    <2> QED
      BY <2>1, <2>2
  <1>7. DefaultTimeout => Cardinality(Stuck') <= Cardinality(Stuck) /\ Cardinality(Stuck') \in Nat
    BY <1>1, FS_Subset, FS_CardinalityType
  <1>8. DefaultTimeout => Cardinality(Stuck') < MaxConns
    BY <1>1, <1>4, <1>7 DEF PoolInv
  <1> QED
    BY <1>6, <1>8

\* Whatever step a request goes to, another request holds and waits for what it did before.
LEMMA OthersStay ==
    ASSUME PcTypeOK, NEW r \in Requests, NEW step \in PoolSteps, PoolGoto(r, step)
    PROVE  /\ PcTypeOK'
           /\ \A q \in Requests : poolPc'[q] = IF q = r THEN step ELSE poolPc[q]
           /\ call' = call
           /\ \A q \in Requests \ {r} : HasDeadline(q)' = HasDeadline(q)
  BY DEF PcTypeOK, PoolGoto, HasDeadline

\* The circle never closes: when the query of r is prepared, the connection for the preparation is
\* put back, which no other transaction holds.
LEMMA PreparedKeepsPool ==
    ASSUME PoolInv, NEW r \in Requests, Prepared(r)
    PROVE  PoolInv'
  <1>1. poolPc[r] = "preparing" /\ PoolGoto(r, "run") /\ PcTypeOK
    BY DEF Prepared, PoolInv
  <1>2. /\ PcTypeOK' /\ call' = call
        /\ \A q \in Requests : poolPc'[q] = IF q = r THEN "run" ELSE poolPc[q]
        /\ \A q \in Requests \ {r} : HasDeadline(q)' = HasDeadline(q)
    BY <1>1, OthersStay DEF PoolSteps, Waiting
  <1>3. InTransaction' = InTransaction /\ InQuery' \subseteq InQuery
    BY <1>1, <1>2 DEF InTransaction, InQuery
  <1>4. r \in InQuery
    BY <1>1 DEF InQuery
  <1>5. /\ IsFiniteSet(InTransaction) /\ Cardinality(InTransaction) \in Nat
        /\ IsFiniteSet(InQuery) /\ Cardinality(InQuery) \in Nat
    BY CountsAreNumbers
  <1>6. Cardinality(InQuery) >= 1
    BY <1>4, <1>5, FS_EmptySet
  <1>7. Cardinality(InQuery') <= Cardinality(InQuery) /\ Cardinality(InQuery') \in Nat
    BY <1>3, <1>5, FS_Subset, FS_CardinalityType
  <1>8. InUse = Cardinality(InTransaction) + Cardinality(InQuery) /\ InUse <= MaxConns /\ MaxConns \in Nat
    BY PoolAssumption DEF InUse, PoolInv
  <1>9. Stuck' \subseteq InTransaction
    BY <1>3 DEF Stuck
  <1>10. Cardinality(Stuck') <= Cardinality(InTransaction) /\ Cardinality(Stuck') \in Nat
    BY <1>5, <1>9, FS_Subset, FS_CardinalityType
  <1>11. Cardinality(Stuck') < MaxConns
    BY <1>5, <1>6, <1>8, <1>10
  <1>12. InUse' <= MaxConns
    <2>1. InUse' = Cardinality(InTransaction') + Cardinality(InQuery')
      BY DEF InUse
    <2> QED
      BY <1>3, <1>5, <1>7, <1>8, <2>1
  <1> QED
    BY <1>2, <1>11, <1>12 DEF PoolInv

\* Every step of the pool keeps the invariant.
LEMMA PoolStep ==
    ASSUME PoolInv, PoolNext
    PROVE  PoolInv'
  <1>1. PICK r \in Requests : StartCall(r) \/ TakeConnection(r) \/ FinishStep(r)
    BY DEF PoolNext
  <1>t. PcTypeOK
    BY DEF PoolInv
  <1>2. CASE StartCall(r)
    <2>1. PICK c \in Calls :
             /\ poolPc[r] = "idle" /\ call' = [call EXCEPT ![r] = c]
             /\ poolPc' = [poolPc EXCEPT ![r] = IF c \in Transactions THEN "begin" ELSE "prepare"]
      BY <1>2 DEF StartCall
    <2>2. PcTypeOK'
      BY <1>t, <2>1 DEF PcTypeOK, PoolSteps, Waiting
    <2>3. /\ \A q \in Requests \ {r} : poolPc'[q] = poolPc[q] /\ call'[q] = call[q]
          /\ call'[r] = c /\ poolPc'[r] \in {"begin", "prepare"}
          /\ c \in Transactions => poolPc'[r] = "begin"
      BY <1>t, <2>1 DEF PcTypeOK
    <2>4. InTransaction' \subseteq InTransaction /\ InQuery' \subseteq InQuery
      BY <2>3 DEF InTransaction, InQuery
    <2>5. \A q \in Requests \ {r} : HasDeadline(q)' = HasDeadline(q)
      BY <2>3 DEF HasDeadline
    <2>6. r \notin InTransaction'
      BY <2>3 DEF InTransaction
    <2>7. Stuck' \subseteq Stuck
      BY <2>3, <2>4, <2>5, <2>6 DEF Stuck, InTransaction
    <2> QED
      BY <2>2, <2>4, <2>7, FewerHold DEF PoolInv
  <1>3. CASE BeginTx(r)
    <2>1. poolPc[r] = "begin" /\ Free /\ PoolGoto(r, "prepare")
      BY <1>3 DEF BeginTx
    <2>2. /\ PcTypeOK' /\ call' = call
          /\ \A q \in Requests : poolPc'[q] = IF q = r THEN "prepare" ELSE poolPc[q]
          /\ \A q \in Requests \ {r} : HasDeadline(q)' = HasDeadline(q)
      BY <1>t, <2>1, OthersStay DEF PoolSteps, Waiting
    <2>3. InTransaction' \subseteq InTransaction \cup {r} /\ InQuery' \subseteq InQuery
      BY <2>2 DEF InTransaction, InQuery
    <2>4. DefaultTimeout => HasDeadline(r)'
      BY <2>2 DEF HasDeadline, PrepareHasDeadline
    <2>5. DefaultTimeout => Stuck' \subseteq Stuck
      BY <2>2, <2>3, <2>4 DEF Stuck, InTransaction
    <2> QED
      BY <2>1, <2>2, <2>3, <2>5, OneTakes DEF PoolInv
  <1>4. CASE Prepare(r) \/ Run(r)
    <2>1. PICK step \in {"preparing", "running"} :
             Free /\ PoolGoto(r, step) /\ poolPc[r] \in {"prepare", "run"}
      BY <1>4 DEF Prepare, Run
    <2>2. /\ PcTypeOK' /\ call' = call
          /\ \A q \in Requests : poolPc'[q] = IF q = r THEN step ELSE poolPc[q]
          /\ \A q \in Requests \ {r} : HasDeadline(q)' = HasDeadline(q)
      BY <1>t, <2>1, OthersStay DEF PoolSteps, Waiting
    <2>3. InTransaction' \subseteq InTransaction /\ InQuery' \subseteq InQuery \cup {r}
      BY <2>1, <2>2 DEF InTransaction, InQuery
    <2>4. Stuck' \subseteq Stuck
      BY <2>2, <2>3 DEF Stuck, InTransaction, Waiting
    <2> QED
      BY <2>1, <2>2, <2>3, <2>4, OneTakes DEF PoolInv
  <1>5. CASE Prepared(r)
    BY <1>5, PreparedKeepsPool
  <1>6. CASE Ran(r) \/ Commit(r) \/ DeadlineExceeded(r) \/ QueryError(r)
    <2>1. PICK step \in {"idle", "statements"} :
             /\ PoolGoto(r, step)
             /\ step = "statements" => poolPc[r] = "running"
      BY <1>6 DEF Ran, Commit, DeadlineExceeded, QueryError
    <2>2. /\ PcTypeOK' /\ call' = call
          /\ \A q \in Requests : poolPc'[q] = IF q = r THEN step ELSE poolPc[q]
          /\ \A q \in Requests \ {r} : HasDeadline(q)' = HasDeadline(q)
      BY <1>t, <2>1, OthersStay DEF PoolSteps, Waiting
    <2>3. InTransaction' \subseteq InTransaction /\ InQuery' \subseteq InQuery
      BY <2>1, <2>2 DEF InTransaction, InQuery
    <2>4. Stuck' \subseteq Stuck
      BY <2>2, <2>3 DEF Stuck, InTransaction, Waiting
    <2> QED
      BY <2>2, <2>3, <2>4, FewerHold DEF PoolInv
  <1> QED
    BY <1>1, <1>2, <1>3, <1>4, <1>5, <1>6 DEF TakeConnection, FinishStep

\* At first no request holds or waits for anything.
LEMMA PoolStart ==
    ASSUME PoolInit
    PROVE  PoolInv
  <1>1. PcTypeOK
    BY DEF PoolInit, PcTypeOK, PoolSteps, Calls
  <1>2. InTransaction = {} /\ InQuery = {}
    BY DEF PoolInit, InTransaction, InQuery
  <1>3. Stuck = {}
    BY <1>2 DEF Stuck
  <1> QED
    BY <1>1, <1>2, <1>3, FS_EmptySet, PoolAssumption DEF PoolInv, InUse

\* PoolInv is an invariant, with and without a default timeout.
LEMMA PoolInvariant == PoolSpec => []PoolInv
  <1>1. PoolInit => PoolInv
    BY PoolStart
  <1>2. PoolInv /\ [PoolNext]_poolVars => PoolInv'
    <2> SUFFICES ASSUME PoolInv, [PoolNext]_poolVars
                 PROVE  PoolInv'
      OBVIOUS
    <2>1. CASE UNCHANGED poolVars
      <3>1. UNCHANGED <<poolPc, call>>
        BY <2>1 DEF poolVars
      <3>2. InTransaction' = InTransaction /\ InQuery' = InQuery
        BY <3>1 DEF InTransaction, InQuery
      <3>3. \A r \in Requests : HasDeadline(r)' = HasDeadline(r)
        BY <3>1 DEF HasDeadline
      <3>4. Stuck' = Stuck
        BY <3>1, <3>2, <3>3 DEF Stuck, InTransaction
      <3> QED
        BY <3>1, <3>2, <3>4 DEF PoolInv, PcTypeOK, InUse
    <2>2. CASE PoolNext
      BY <2>2, PoolStep
    <2> QED
      BY <2>1, <2>2
  <1> QED
    BY <1>1, <1>2, PTL DEF PoolSpec

\* The steps of every request, and never more connections in use than DBMaxOpenConnections.
THEOREM PoolTypeCorrect == PoolSpec => []PoolTypeOK
  <1>1. PoolInv => PoolTypeOK
    BY DEF PoolInv, PcTypeOK, PoolTypeOK
  <1> QED
    BY <1>1, PoolInvariant, PTL

\* With the default timeout transactions never hold all connections while each of them waits for
\* one more without a deadline, for any number of requests and connections.
THEOREM NoCircularWaitCorrect ==
    ASSUME DefaultTimeout = TRUE
    PROVE  PoolSpec => []NoCircularWait
  <1>1. PoolInv => NoCircularWait
    BY DEF PoolInv, NoCircularWait, Stuck
  <1> QED
    BY <1>1, PoolInvariant, PTL

-----------------------------------------------------------------------------
(* The pages of a board. *)

PostNumbers == ReplyNumbers \cup {OP}

\* What a page says of a thread, if it makes sense.
SensibleEntries ==
    {e \in [thread : Discussions, posts : SUBSET PostNumbers, omittedPosts : Int, omittedImages : Int] :
       /\ e.omittedPosts >= 0 /\ e.omittedImages >= 0
       /\ OP \in e.posts /\ Cardinality(e.posts) <= RepliesOnBoardPage[e.thread] + 1}

\* The threads of one page.
PageThreads == {s \in Seq(SensibleEntries) : Len(s) <= ThreadsPerPage}
FilledPages == [num : Nat, threads : PageThreads]
WrittenPages == [there : BOOLEAN, threads : PageThreads, next : BOOLEAN]
BuildLocals == [listed : Seq(Discussions), count : Nat, posts : SUBSET PostNumbers, rest : Seq(Nat),
                entries : Seq(SensibleEntries), pages : Seq(FilledPages)]

\* What the build has read so far: while it collects entries, rest are threads of the board, and
\* the posts it has just read are those of a thread with its OP.
Collecting(pc, b) ==
    /\ pc \in {"replyCount", "posts", "uploads"} => b.rest \in Seq(Discussions) /\ b.rest # <<>>
    /\ pc = "uploads" => OP \in b.posts

BoardOK ==
    /\ open \subseteq Discussions
    /\ replies \in [Discussions -> SUBSET ReplyNumbers]
    /\ images \in [Discussions -> SUBSET PostNumbers]
    /\ changes \in 0..MaxChanges
    /\ disturbed \subseteq Requests
BuildOK ==
    /\ buildPc \in [Requests -> BuildSteps]
    /\ build \in [Requests -> BuildLocals]
    /\ \A r \in Requests : Collecting(buildPc[r], build[r])
PagesInv == BoardOK /\ BuildOK /\ boardPages \in [PageNumbers -> WrittenPages]

\* Posts and threads are finitely many numbers.
LEMMA FinitePosts ==
    /\ PostNumbers \subseteq Nat /\ IsFiniteSet(PostNumbers)
    /\ Discussions \subseteq Nat /\ IsFiniteSet(Discussions)
    /\ RepliesOnBoardPage \in [Discussions -> Nat] /\ ThreadsPerPage \in Nat \ {0}
  <1>1. IsFiniteSet(ReplyNumbers) /\ IsFiniteSet(Discussions)
    BY FinitePagesAssumption
  <1>2. IsFiniteSet(PostNumbers)
    BY <1>1, FS_AddElement DEF PostNumbers
  <1>3. /\ Discussions \subseteq Nat /\ ReplyNumbers \subseteq Nat
        /\ RepliesOnBoardPage \in [Discussions -> Nat] /\ ThreadsPerPage \in Nat \ {0}
    BY PagesAssumption
  <1> QED
    BY <1>1, <1>2, <1>3 DEF PostNumbers, OP

\* Of some numbers one is the least.
LEMMA LeastNumber ==
    ASSUME NEW S \in SUBSET Nat, S # {}
    PROVE  \E m \in S : \A k \in S : m <= k
  <1> DEFINE less == {ss \in Nat \X Nat : ss[1] < ss[2]}
  <1>1. IsWellFoundedOn(less, Nat)
    BY NatLessThanWellFounded, Zenon DEF OpToRel
  <1> HIDE DEF less
  <1>2. PICK m \in S : \A k \in S : ~(<<k, m>> \in less)
    BY <1>1, WFMin
  <1>3. ASSUME NEW k \in S
        PROVE  m <= k
    <2>1. m \in Nat /\ k \in Nat
      OBVIOUS
    <2>2. k < m => <<k, m>> \in less
      BY <2>1 DEF less
    <2> QED
      BY <2>1, <2>2, <1>2
  <1> QED
    BY <1>3

\* The last n replies of a thread are n at most: above the first of them there are fewer than n.
LEMMA LastRepliesBound ==
    ASSUME NEW P \in SUBSET PostNumbers, NEW n \in Nat
    PROVE  /\ LastReplies(P, n) \subseteq P /\ IsFiniteSet(LastReplies(P, n))
           /\ Cardinality(LastReplies(P, n)) <= n
  <1> DEFINE L == LastReplies(P, n)
             Above(p) == {q \in P : q > p}
  <1>1. L \subseteq P /\ P \subseteq Nat /\ IsFiniteSet(P)
    BY FinitePosts, FS_Subset DEF LastReplies
  <1>2. IsFiniteSet(L)
    BY <1>1, FS_Subset
  <1>3. CASE L = {}
    <2>1. Cardinality(L) = 0
      BY <1>3, FS_EmptySet
    <2> QED
      BY <1>1, <1>2, <2>1
  <1>4. CASE L # {}
    <2>1. PICK m \in L : \A k \in L : m <= k
      <3>1. L \in SUBSET Nat
        BY <1>1
      <3> HIDE DEF L
      <3> QED
        BY <3>1, <1>4, LeastNumber
    <2>2. Cardinality(Above(m)) < n
      BY <2>1 DEF LastReplies
    <2>3. L \ {m} \subseteq Above(m)
      <3>1. ASSUME NEW k \in L, k # m PROVE k > m
        <4>1. k \in Nat /\ m \in Nat /\ m <= k
          BY <2>1, <1>1
        <4> HIDE DEF L
        <4> QED
          BY <3>1, <4>1
      <3> QED
        BY <3>1, <1>1
    <2> HIDE DEF L
    <2>4. IsFiniteSet(Above(m))
      BY <1>1, FS_Subset
    <2>5. Cardinality(L \ {m}) <= Cardinality(Above(m))
      BY <2>3, <2>4, FS_Subset
    <2>6. Cardinality(L \ {m}) = Cardinality(L) - 1
      BY <1>2, <2>1, FS_RemoveElement
    <2>7. Cardinality(L) \in Nat /\ Cardinality(Above(m)) \in Nat
      BY <1>2, <2>4, FS_CardinalityType
    <2>8. Cardinality(L) <= n
      BY <2>2, <2>5, <2>6, <2>7
    <2> QED
      BY <1>1, <1>2, <2>8 DEF L
  <1> QED
    BY <1>3, <1>4

\* Entry makes sense of figures that were read one after the other, whatever they are: the posts
\* shown are at most those configured and the OP, and fewer than the count when some are omitted.
LEMMA EntryMakesSense ==
    ASSUME NEW t \in Discussions, NEW count \in Nat, NEW P \in SUBSET PostNumbers, OP \in P,
           NEW uploads \in SUBSET PostNumbers
    PROVE  Entry(t, count, P, uploads) \in SensibleEntries
  <1> DEFINE max == RepliesOnBoardPage[t]
             shown == IF Cardinality(P) > max THEN {OP} \cup LastReplies(P, max) ELSE P
             omits == count > max
             omittedPosts == IF omits THEN count - Cardinality(shown) + 1 ELSE 0
             omittedImages == IF omits THEN Cardinality(uploads) - Cardinality(uploads \cap shown) ELSE 0
  <1>1. max \in Nat
    BY FinitePosts
  <1>2. IsFiniteSet(P) /\ IsFiniteSet(uploads) /\ Cardinality(P) \in Nat
    BY FinitePosts, FS_Subset, FS_CardinalityType
  <1>3. shown \in SUBSET P /\ OP \in shown /\ Cardinality(shown) <= max + 1
    <2>1. CASE Cardinality(P) > max
      <3>1. /\ LastReplies(P, max) \subseteq P /\ IsFiniteSet(LastReplies(P, max))
            /\ Cardinality(LastReplies(P, max)) <= max
        BY <1>1, LastRepliesBound
      <3>2. Cardinality(LastReplies(P, max)) \in Nat
        BY <3>1, FS_CardinalityType
      <3> HIDE DEF max
      <3>3. Cardinality(LastReplies(P, max) \cup {OP}) <= max + 1
        <4>1. Cardinality(LastReplies(P, max) \cup {OP})
                 \in {Cardinality(LastReplies(P, max)), Cardinality(LastReplies(P, max)) + 1}
          BY <3>1, FS_AddElement
        <4> QED
          BY <1>1, <3>1, <3>2, <4>1
      <3>4. shown = LastReplies(P, max) \cup {OP}
        BY <2>1
      <3> QED
        BY <3>1, <3>3, <3>4
    <2>2. CASE ~(Cardinality(P) > max)
      <3>1. shown = P
        BY <2>2
      <3> QED
        BY <1>1, <1>2, <2>2, <3>1
    <2> QED
      BY <2>1, <2>2
  <1> HIDE DEF max, shown
  <1>4. Cardinality(shown) \in Nat
    BY <1>2, <1>3, FS_Subset, FS_CardinalityType
  <1>5. omittedPosts \in Int /\ omittedPosts >= 0
    BY <1>1, <1>3, <1>4
  <1>6. omittedImages \in Int /\ omittedImages >= 0
    <2>1. /\ IsFiniteSet(uploads \cap shown)
          /\ Cardinality(uploads \cap shown) <= Cardinality(uploads)
      BY <1>2, FS_Subset
    <2>2. Cardinality(uploads \cap shown) \in Nat /\ Cardinality(uploads) \in Nat
      BY <2>1, <1>2, FS_CardinalityType
    <2> QED
      BY <2>1, <2>2
  <1>7. Entry(t, count, P, uploads) = [thread |-> t, posts |-> shown, omittedPosts |-> omittedPosts,
                                       omittedImages |-> omittedImages]
    BY DEF Entry, shown, max
  <1> HIDE DEF omittedPosts, omittedImages
  <1>8. shown \in SUBSET PostNumbers
    BY <1>3
  <1> QED
    BY <1>3, <1>5, <1>6, <1>7, <1>8 DEF SensibleEntries, max

\* The threads of a query are in their order: each set of them has one enumeration that increases.
LEMMA OrderExists ==
    ASSUME NEW T \in SUBSET Discussions
    PROVE  \E s \in [1..Cardinality(T) -> T] : \A i, j \in 1..Cardinality(T) : i < j => s[i] < s[j]
  <1> DEFINE Ordered(U) == \E s \in [1..Cardinality(U) -> U] :
                             \A i, j \in 1..Cardinality(U) : i < j => s[i] < s[j]
             Bad == {n \in Nat : \E U \in SUBSET Discussions : Cardinality(U) = n /\ ~Ordered(U)}
  <1>1. \A U \in SUBSET Discussions : U \subseteq Nat /\ IsFiniteSet(U) /\ Cardinality(U) \in Nat
    BY FinitePosts, FS_Subset, FS_CardinalityType
  <1>2. ASSUME Bad # {} PROVE FALSE
    <2>1. PICK n \in Bad : \A k \in Bad : n <= k
      <3>1. Bad \in SUBSET Nat
        OBVIOUS
      <3> HIDE DEF Bad
      <3> QED
        BY <3>1, <1>2, LeastNumber
    <2>2. n \in Nat
      OBVIOUS
    <2>3. PICK U \in SUBSET Discussions : Cardinality(U) = n /\ ~Ordered(U)
      OBVIOUS
    <2>4. U # {}
      <3>1. ASSUME U = {} PROVE FALSE
        <4>1. Cardinality(U) = 0
          BY <3>1, FS_EmptySet
        <4>2. 1..Cardinality(U) = {}
          BY <4>1
        <4>3. [i \in {} |-> i] \in [1..Cardinality(U) -> U]
          BY <4>2
        <4>4. Ordered(U)
          BY <4>2, <4>3
        <4> QED
          BY <4>4, <2>3
      <3> QED
        BY <3>1
    <2>5. PICK m \in U : \A k \in U : m <= k
      BY <1>1, <2>4, LeastNumber
    <2> DEFINE V == U \ {m}
    <2>6. V \in SUBSET Discussions /\ Cardinality(V) = n - 1 /\ n - 1 \in Nat
      <3>1. Cardinality(V) = n - 1
        BY <1>1, <2>3, FS_RemoveElement
      <3>2. Cardinality(V) \in Nat
        BY <1>1
      <3> QED
        BY <3>1, <3>2
    <2>7. Ordered(V)
      <3>1. n - 1 \notin Bad
        <4> HIDE DEF Bad
        <4> QED
          BY <2>1, <2>2
      <3> QED
        BY <3>1, <2>6
    <2>8. PICK s \in [1..(n - 1) -> V] : \A i, j \in 1..(n - 1) : i < j => s[i] < s[j]
      BY <2>6, <2>7
    <2> DEFINE longer == [i \in 1..n |-> IF i = 1 THEN m ELSE s[i - 1]]
    <2>9. longer \in [1..n -> U]
      BY <2>2, <2>8
    <2>10. ASSUME NEW i \in 1..n, NEW j \in 1..n, i < j PROVE longer[i] < longer[j]
      <3>1. /\ j - 1 \in 1..(n - 1) /\ longer[j] = s[j - 1] /\ s[j - 1] \in V
        BY <2>2, <2>8, <2>10
      <3>2. s[j - 1] \in Nat /\ m \in Nat /\ m # s[j - 1] /\ m <= s[j - 1]
        BY <1>1, <2>5, <3>1
      <3>3. CASE i = 1
        BY <3>1, <3>2, <3>3
      <3>4. CASE i # 1
        <4>1. i - 1 \in 1..(n - 1) /\ longer[i] = s[i - 1] /\ i - 1 < j - 1
          BY <2>2, <2>10, <3>4
        <4> QED
          BY <2>8, <3>1, <4>1
      <3> QED
        BY <3>3, <3>4
    <2> HIDE DEF longer
    <2>11. Ordered(U)
      BY <2>3, <2>9, <2>10
    <2> QED
      BY <2>3, <2>11
  <1> QED
    BY <1>1, <1>2

\* GetThreads returns a list of the threads that are there.
LEMMA InOrderIsList ==
    ASSUME NEW T \in SUBSET Discussions
    PROVE  InOrder(T) \in Seq(Discussions) /\ (InOrder(T) = <<>> <=> T = {})
  <1>1. IsFiniteSet(T) /\ Cardinality(T) \in Nat
    BY FinitePosts, FS_Subset, FS_CardinalityType
  <1>2. InOrder(T) \in [1..Cardinality(T) -> T]
    BY OrderExists, Zenon DEF InOrder
  <1>3. InOrder(T) \in Seq(Discussions) /\ Len(InOrder(T)) = Cardinality(T)
    <2>1. InOrder(T) \in [1..Cardinality(T) -> Discussions]
      BY <1>2
    <2> QED
      BY <1>1, <2>1
  <1>4. Cardinality(T) = 0 <=> T = {}
    BY <1>1, FS_EmptySet
  <1> QED
    BY <1>3, <1>4

\* fillPages makes pages of ThreadsPerPage threads at most.
LEMMA FillPagesType ==
    ASSUME NEW entries \in Seq(SensibleEntries)
    PROVE  FillPages(entries) \in Seq(FilledPages)
  <1> DEFINE full == Len(entries) \div ThreadsPerPage
             remainder == Len(entries) % ThreadsPerPage
             Page(i) == SubSeq(entries, (i - 1) * ThreadsPerPage + 1, i * ThreadsPerPage)
             fullPages == [i \in 1..full |-> [num |-> i, threads |-> Page(i)]]
             last == SubSeq(entries, Len(entries) - remainder + 1, Len(entries))
  <1>1. ThreadsPerPage \in Nat \ {0} /\ Len(entries) \in Nat
    BY FinitePosts
  <1>2. /\ full \in Nat /\ remainder \in 0..(ThreadsPerPage - 1)
        /\ Len(entries) = full * ThreadsPerPage + remainder
    BY <1>1
  <1> HIDE DEF full, remainder
  <1>3. ASSUME NEW i \in 1..full PROVE Page(i) \in PageThreads
    <2> DEFINE from == (i - 1) * ThreadsPerPage + 1
               to == i * ThreadsPerPage
    <2>1. i * ThreadsPerPage <= full * ThreadsPerPage /\ (i - 1) * ThreadsPerPage >= 0
      BY <1>1, <1>2
    <2>2. to \in Int /\ from \in Int /\ to - from + 1 = ThreadsPerPage
      BY <1>1, <1>2
    <2>3. 1 <= from /\ to <= Len(entries)
      BY <1>1, <1>2, <2>1
    <2> HIDE DEF from, to
    <2>4. \A k \in from..to : entries[k] \in SensibleEntries
      BY <1>1, <2>2, <2>3
    <2>5. SubSeq(entries, from, to) \in Seq(SensibleEntries)
          /\ Len(SubSeq(entries, from, to)) = IF from <= to THEN to - from + 1 ELSE 0
      BY <2>2, <2>4, SubSeqProperties
    <2>6. Len(SubSeq(entries, from, to)) <= ThreadsPerPage
      BY <1>1, <2>2, <2>5
    <2> QED
      BY <2>5, <2>6 DEF PageThreads, from, to
  <1>4. last \in PageThreads
    <2> DEFINE from == Len(entries) - remainder + 1
               to == Len(entries)
    <2>1. to \in Int /\ from \in Int /\ to - from + 1 = remainder /\ 1 <= from
      <3>1. full * ThreadsPerPage >= 0 /\ full * ThreadsPerPage \in Int
        BY <1>1, <1>2
      <3> QED
        BY <1>1, <1>2, <3>1
    <2> HIDE DEF from
    <2>2. \A k \in from..to : entries[k] \in SensibleEntries
      BY <1>1, <2>1
    <2>3. SubSeq(entries, from, to) \in Seq(SensibleEntries)
          /\ Len(SubSeq(entries, from, to)) = IF from <= to THEN to - from + 1 ELSE 0
      BY <2>1, <2>2, SubSeqProperties
    <2>4. Len(SubSeq(entries, from, to)) <= ThreadsPerPage
      BY <1>1, <1>2, <2>1, <2>3
    <2> QED
      BY <2>3, <2>4 DEF PageThreads, from
  <1> HIDE DEF Page, last
  <1>5. fullPages \in Seq(FilledPages)
    <2>1. fullPages \in [1..full -> FilledPages]
      BY <1>2, <1>3 DEF FilledPages
    <2> QED
      BY <1>2, <2>1
  <1> DEFINE rest == [num |-> IF full = 0 THEN 1 ELSE full, threads |-> last]
  <1>6. rest \in FilledPages
    BY <1>2, <1>4 DEF FilledPages
  <1>7. FillPages(entries) = IF remainder = 0 THEN fullPages ELSE Append(fullPages, rest)
    BY DEF FillPages, full, remainder, Page, last
  <1> HIDE DEF fullPages, rest
  <1>8. Append(fullPages, rest) \in Seq(FilledPages)
    BY <1>5, <1>6, AppendProperties
  <1> QED
    BY <1>5, <1>7, <1>8

-----------------------------------------------------------------------------
(* Every step keeps the invariant. *)

\* A step of the build of one request keeps the invariant when what it holds afterwards has its
\* type and goes with the step that is next.
LEMMA BuildKept ==
    ASSUME PagesInv, NEW r \in Requests, NEW step \in BuildSteps, NEW new \in BuildLocals,
           buildPc' = [buildPc EXCEPT ![r] = step], build' = [build EXCEPT ![r] = new],
           Collecting(step, new), boardPages' \in [PageNumbers -> WrittenPages],
           UNCHANGED <<open, replies, images, changes>>, disturbed' \subseteq Requests
    PROVE  PagesInv'
  <1>1. buildPc' \in [Requests -> BuildSteps] /\ build' \in [Requests -> BuildLocals]
    BY DEF PagesInv, BuildOK
  <1>2. ASSUME NEW q \in Requests PROVE Collecting(buildPc'[q], build'[q])
    BY DEF PagesInv, BuildOK
  <1>3. BoardOK'
    BY DEF PagesInv, BoardOK
  <1> QED
    BY <1>1, <1>2, <1>3 DEF PagesInv, BuildOK

\* What a request has read before its build.
LEMMA NoBuildType == NoBuild \in BuildLocals /\ Collecting("idle", NoBuild)
  <1>1. <<>> \in Seq(Discussions) /\ <<>> \in Seq(Nat) /\ <<>> \in Seq(SensibleEntries)
        /\ <<>> \in Seq(FilledPages)
    OBVIOUS
  <1> QED
    BY <1>1 DEF NoBuild, BuildLocals, Collecting

\* An empty page is a page.
LEMMA NoPageType == [NoPage EXCEPT !.there = TRUE] \in WrittenPages /\ NoPage \in WrittenPages
  <1>1. <<>> \in Seq(SensibleEntries) /\ Len(<<>>) = 0
    OBVIOUS
  <1>2. <<>> \in PageThreads
    BY <1>1, FinitePosts DEF PageThreads
  <1> QED
    BY <1>2 DEF NoPage, WrittenPages

\* A build ends with what it held forgotten.
LEMMA BuildEnds ==
    ASSUME PagesInv, NEW r \in Requests, BuildDone(r), boardPages' \in [PageNumbers -> WrittenPages],
           UNCHANGED <<open, replies, images, changes>>, disturbed' \subseteq Requests
    PROVE  PagesInv'
  <1>1. "idle" \in BuildSteps
    BY DEF BuildSteps
  <1> QED
    BY <1>1, NoBuildType, BuildKept DEF BuildDone, BuildGoto

\* A step on which the build reads nothing and collects nothing.
LEMMA BuildGoesOn ==
    ASSUME PagesInv, NEW r \in Requests, NEW step \in BuildSteps \ {"replyCount", "posts", "uploads"},
           BuildGoto(r, step), UNCHANGED <<open, replies, images, changes, disturbed, build>>,
           boardPages' \in [PageNumbers -> WrittenPages]
    PROVE  PagesInv'
  <1>1. build[r] \in BuildLocals /\ build' = [build EXCEPT ![r] = build[r]]
    BY DEF PagesInv, BuildOK
  <1>2. PICK new : new = build[r]
    OBVIOUS
  <1>3. new \in BuildLocals /\ build' = [build EXCEPT ![r] = new] /\ Collecting(step, new)
    BY <1>1, <1>2 DEF Collecting
  <1>4. disturbed' \subseteq Requests
    BY DEF PagesInv, BoardOK
  <1> QED
    BY <1>3, <1>4, BuildKept DEF BuildGoto

\* Other requests post and delete.
LEMMA OthersChangeTheBoard ==
    ASSUME PagesInv, NEW t \in Discussions, NEW p \in ReplyNumbers, NEW withFile \in BOOLEAN,
           AddReply(t, p, withFile) \/ RemoveReply(t, p)
    PROVE  PagesInv'
  <1>1. UNCHANGED <<boardPages, buildPc, build>>
    BY DEF AddReply, RemoveReply, BoardChanges
  <1>2. disturbed' \subseteq Requests
    BY DEF AddReply, RemoveReply, BoardChanges, PagesInv, BoardOK, Builders
  <1>3. changes' \in 0..MaxChanges
    BY PagesAssumption DEF AddReply, RemoveReply, BoardChanges, PagesInv, BoardOK
  <1>4. /\ open' \subseteq Discussions /\ replies' \in [Discussions -> SUBSET ReplyNumbers]
        /\ images' \in [Discussions -> SUBSET PostNumbers]
    BY DEF AddReply, RemoveReply, PagesInv, BoardOK, PostNumbers
  <1> QED
    BY <1>1, <1>2, <1>3, <1>4 DEF PagesInv, BoardOK, BuildOK

\* A thread is deleted, whether it had replies or not.
LEMMA ThreadRemovedKeeps ==
    ASSUME PagesInv, NEW t \in Discussions, RemoveThread(t)
    PROVE  PagesInv'
  <1>1. UNCHANGED <<boardPages, buildPc, build, replies, images>> /\ open' \subseteq Discussions
    BY DEF RemoveThread, BoardChanges, PagesInv, BoardOK
  <1>2. disturbed' \subseteq Requests
    BY DEF RemoveThread, BoardChanges, PagesInv, BoardOK, Builders
  <1>3. changes' \in 0..MaxChanges
    BY PagesAssumption DEF RemoveThread, BoardChanges, PagesInv, BoardOK
  <1> QED
    BY <1>1, <1>2, <1>3 DEF PagesInv, BoardOK, BuildOK

\* board.GetThreads
LEMMA StartPagesKeeps ==
    ASSUME PagesInv, NEW r \in Requests, StartPages(r)
    PROVE  PagesInv'
  <1> DEFINE list == InOrder(open)
             step == IF open = {} THEN "clean" ELSE "replyCount"
             new == [NoBuild EXCEPT !.listed = list, !.rest = list]
  <1>1. open \in SUBSET Discussions
    BY DEF PagesInv, BoardOK
  <1>2. list \in Seq(Discussions) /\ (list = <<>> <=> open = {})
    BY <1>1, InOrderIsList
  <1>3. list \in Seq(Nat)
    BY <1>2, FinitePosts, SeqMonotonic
  <1> PICK c, n : c = step /\ n = new
    OBVIOUS
  <1>4. n \in BuildLocals /\ n.rest = list
    BY <1>2, <1>3, NoBuildType DEF BuildLocals
  <1>5. c \in BuildSteps /\ Collecting(c, n)
    BY <1>2, <1>4 DEF BuildSteps, Collecting
  <1>6. buildPc' = [buildPc EXCEPT ![r] = c] /\ build' = [build EXCEPT ![r] = n]
    BY DEF StartPages, BuildGoto
  <1>7. boardPages' \in [PageNumbers -> WrittenPages] /\ disturbed' \subseteq Requests
        /\ UNCHANGED <<open, replies, images, changes>>
    BY DEF StartPages, PagesInv, BoardOK, Builders
  <1> QED
    BY <1>4, <1>5, <1>6, <1>7, BuildKept

\* thread.GetReplyCount, getThreadPosts and thread.GetUploads
LEMMA ReadsKeep ==
    ASSUME PagesInv, NEW r \in Requests, ReadReplyCount(r) \/ ReadPosts(r) \/ ReadUploads(r)
    PROVE  PagesInv'
  <1> PICK b : b = build[r]
    OBVIOUS
  <1> PICK t : t = Head(b.rest)
    OBVIOUS
  <1> PICK rest : rest = Tail(b.rest)
    OBVIOUS
  <1>1. b \in BuildLocals /\ buildPc[r] \in {"replyCount", "posts", "uploads"} /\ Collecting(buildPc[r], b)
        /\ build \in [Requests -> BuildLocals]
    BY DEF PagesInv, BuildOK, ReadReplyCount, ReadPosts, ReadUploads
  <1>2. b.rest \in Seq(Discussions) /\ b.rest # <<>>
    BY <1>1 DEF Collecting
  <1>3. t \in Discussions /\ rest \in Seq(Discussions)
    BY <1>2, HeadTailProperties
  <1>4. rest \in Seq(Nat)
    BY <1>3, FinitePosts, SeqMonotonic
  <1>5. boardPages' \in [PageNumbers -> WrittenPages] /\ disturbed' \subseteq Requests
        /\ UNCHANGED <<open, replies, images, changes>>
    BY DEF ReadReplyCount, ReadPosts, ReadUploads, PagesInv, BoardOK
  <1> PICK next : next = IF rest = <<>> THEN "clean" ELSE "replyCount"
    OBVIOUS
  <1>6. next \in BuildSteps /\ "posts" \in BuildSteps /\ "uploads" \in BuildSteps
    BY DEF BuildSteps
  <1>7. replies[t] \in SUBSET ReplyNumbers /\ images[t] \in SUBSET PostNumbers
    BY <1>3 DEF PagesInv, BoardOK
  <1>8. CASE ReadReplyCount(r)
    <2> PICK count : count = Cardinality(replies[t])
      OBVIOUS
    <2>1. count \in Nat
      <3>1. IsFiniteSet(replies[t])
        BY <1>7, FinitePagesAssumption, FS_Subset
      <3> QED
        BY <3>1, FS_CardinalityType
    <2> DEFINE new == [b EXCEPT !.count = count]
    <2>2. new \in BuildLocals /\ new.rest = b.rest
      BY <1>1, <2>1 DEF BuildLocals
    <2>3. build' = [build EXCEPT ![r] = new] /\ buildPc' = [buildPc EXCEPT ![r] = "posts"]
      BY <1>1, <1>8 DEF ReadReplyCount, BuildGoto
    <2> HIDE DEF new
    <2>4. Collecting("posts", new)
      BY <1>2, <2>2 DEF Collecting
    <2> QED
      BY <1>5, <1>6, <2>2, <2>3, <2>4, BuildKept
  <1>9. CASE ReadPosts(r)
    <2> PICK P : P = ThreadPosts(t)
      OBVIOUS
    <2>1. P \in SUBSET PostNumbers /\ (P # {} => OP \in P)
      BY <1>7 DEF ThreadPosts, PostNumbers
    <2>2. CASE P = {}
      <3> DEFINE new == [b EXCEPT !.rest = rest]
      <3>1. new \in BuildLocals /\ new.rest = rest
        BY <1>1, <1>4 DEF BuildLocals
      <3>2. build' = [build EXCEPT ![r] = new] /\ buildPc' = [buildPc EXCEPT ![r] = next]
        BY <1>1, <1>9, <2>2 DEF ReadPosts, BuildGoto
      <3> HIDE DEF new
      <3>3. Collecting(next, new)
        BY <1>3, <3>1 DEF Collecting
      <3> QED
        BY <1>5, <1>6, <3>1, <3>2, <3>3, BuildKept
    <2>3. CASE P # {}
      <3> DEFINE new == [b EXCEPT !.posts = P]
      <3>1. new \in BuildLocals /\ new.rest = b.rest /\ new.posts = P
        BY <1>1, <2>1 DEF BuildLocals
      <3>2. build' = [build EXCEPT ![r] = new] /\ buildPc' = [buildPc EXCEPT ![r] = "uploads"]
        BY <1>1, <1>9, <2>3 DEF ReadPosts, BuildGoto
      <3> HIDE DEF new
      <3>3. Collecting("uploads", new)
        BY <1>2, <2>1, <2>3, <3>1 DEF Collecting
      <3> QED
        BY <1>5, <1>6, <3>1, <3>2, <3>3, BuildKept
    <2> QED
      BY <2>2, <2>3
  <1>10. CASE ReadUploads(r)
    <2> PICK e : e = Entry(t, b.count, b.posts, images[t])
      OBVIOUS
    <2>1. b.count \in Nat /\ b.posts \in SUBSET PostNumbers /\ b.entries \in Seq(SensibleEntries)
      BY <1>1 DEF BuildLocals
    <2>2. OP \in b.posts
      BY <1>1, <1>10 DEF Collecting, ReadUploads
    <2>3. e \in SensibleEntries
      BY <1>3, <1>7, <2>1, <2>2, EntryMakesSense
    <2> PICK entries : entries = Append(b.entries, e)
      OBVIOUS
    <2>4. entries \in Seq(SensibleEntries)
      BY <2>1, <2>3, AppendProperties
    <2> DEFINE new == [b EXCEPT !.rest = rest, !.entries = entries]
    <2>5. new \in BuildLocals /\ new.rest = rest
      BY <1>1, <1>4, <2>4 DEF BuildLocals
    <2>6. build' = [build EXCEPT ![r] = new] /\ buildPc' = [buildPc EXCEPT ![r] = next]
      BY <1>1, <1>10 DEF ReadUploads, BuildGoto, BuildLocals
    <2> HIDE DEF new
    <2>7. Collecting(next, new)
      BY <1>3, <2>5 DEF Collecting
    <2> QED
      BY <1>5, <1>6, <2>5, <2>6, <2>7, BuildKept
  <1> QED
    BY <1>8, <1>9, <1>10

\* DeleteMatchingFiles, then fillPages
LEMMA CleanPagesKeeps ==
    ASSUME PagesInv, NEW r \in Requests, CleanPages(r)
    PROVE  PagesInv'
  <1> PICK b : b = build[r]
    OBVIOUS
  <1>1. b \in BuildLocals /\ build \in [Requests -> BuildLocals]
    BY DEF PagesInv, BuildOK
  <1>2. boardPages' \in [PageNumbers -> WrittenPages]
    BY NoPageType DEF CleanPages, NoPage
  <1>3. UNCHANGED <<open, replies, images, changes, disturbed>> /\ disturbed' \subseteq Requests
    BY DEF CleanPages, PagesInv, BoardOK
  <1>4. CASE b.listed = <<>>
    <2>1. BuildGoto(r, "frontPage") /\ UNCHANGED build
      BY <1>4 DEF CleanPages
    <2>2. "frontPage" \in BuildSteps \ {"replyCount", "posts", "uploads"}
      BY DEF BuildSteps
    <2> QED
      BY <1>2, <1>3, <2>1, <2>2, BuildGoesOn
  <1>5. CASE b.listed # <<>>
    <2> PICK pages : pages = FillPages(b.entries)
      OBVIOUS
    <2>1. pages \in Seq(FilledPages)
      BY <1>1, FillPagesType DEF BuildLocals
    <2> DEFINE new == [b EXCEPT !.pages = pages]
    <2>2. new \in BuildLocals
      BY <1>1, <2>1 DEF BuildLocals
    <2>3. build' = [build EXCEPT ![r] = new] /\ buildPc' = [buildPc EXCEPT ![r] = "page"]
      BY <1>1, <1>5 DEF CleanPages, BuildGoto
    <2> HIDE DEF new
    <2>4. "page" \in BuildSteps /\ Collecting("page", new)
      BY DEF BuildSteps, Collecting
    <2> QED
      BY <1>2, <1>3, <2>2, <2>3, <2>4, BuildKept
  <1> QED
    BY <1>4, <1>5

\* One page is written.
LEMMA WritePageKeeps ==
    ASSUME PagesInv, NEW r \in Requests, NEW n \in PageNumbers, WritePage(r, n)
    PROVE  PagesInv'
  <1> PICK b : b = build[r]
    OBVIOUS
  <1>1. b \in BuildLocals /\ build \in [Requests -> BuildLocals] /\ buildPc \in [Requests -> BuildSteps]
        /\ buildPc[r] = "page"
    BY DEF PagesInv, BuildOK, WritePage
  <1>2. n \in Nat /\ n > 0 /\ n <= Len(b.pages)
    BY DEF WritePage, PageNumbers
  <1>3. b.pages[n].threads \in PageThreads
    <2>1. b.pages \in Seq(FilledPages)
      BY <1>1 DEF BuildLocals
    <2>2. b.pages[n] \in FilledPages
      BY <1>2, <2>1
    <2> QED
      BY <2>2 DEF FilledPages
  <1>4. boardPages' \in [PageNumbers -> WrittenPages]
    <2> PICK numPages : numPages = (Len(b.listed) + ThreadsPerPage - 1) \div ThreadsPerPage
      OBVIOUS
    <2> DEFINE page == [there |-> TRUE, threads |-> b.pages[n].threads, next |-> n < numPages]
    <2>1. page \in WrittenPages
      BY <1>3 DEF WrittenPages
    <2>2. boardPages' = [boardPages EXCEPT ![n] = page]
      BY DEF WritePage
    <2> HIDE DEF page
    <2> QED
      BY <2>1, <2>2 DEF PagesInv
  <1> PICK rest : rest = Append(b.rest, n)
    OBVIOUS
  <1>5. rest \in Seq(Nat)
    BY <1>1, <1>2, AppendProperties DEF BuildLocals
  <1> DEFINE new == [b EXCEPT !.rest = rest]
  <1>6. new \in BuildLocals
    BY <1>1, <1>5 DEF BuildLocals
  <1>7. build' = [build EXCEPT ![r] = new]
    BY <1>1 DEF WritePage
  <1>8. buildPc' = [buildPc EXCEPT ![r] = "page"] /\ "page" \in BuildSteps
    BY <1>1 DEF WritePage, BuildSteps
  <1>9. UNCHANGED <<open, replies, images, changes>> /\ disturbed' \subseteq Requests
    BY DEF WritePage, PagesInv, BoardOK
  <1> HIDE DEF new
  <1>10. Collecting("page", new)
    BY DEF Collecting
  <1> QED
    BY <1>4, <1>6, <1>7, <1>8, <1>9, <1>10, BuildKept

\* A page that cannot be opened leaves the pages as they are.
LEMMA SkipPageKeeps ==
    ASSUME PagesInv, NEW r \in Requests, SkipPage(r)
    PROVE  PagesInv'
  <1> PICK b : b = build[r]
    OBVIOUS
  <1>1. b \in BuildLocals /\ build \in [Requests -> BuildLocals] /\ buildPc \in [Requests -> BuildSteps]
        /\ buildPc[r] = "page"
    BY DEF PagesInv, BuildOK, SkipPage
  <1> PICK rest : rest = Append(b.rest, Len(b.rest) + 1)
    OBVIOUS
  <1>2. b.rest \in Seq(Nat) /\ Len(b.rest) + 1 \in Nat
    BY <1>1 DEF BuildLocals
  <1>3. rest \in Seq(Nat)
    BY <1>2, AppendProperties
  <1> DEFINE new == [b EXCEPT !.rest = rest]
  <1>4. new \in BuildLocals
    BY <1>1, <1>3 DEF BuildLocals
  <1>5. build' = [build EXCEPT ![r] = new]
    <2>1. build' = [build EXCEPT ![r].rest = Append(@, Len(@) + 1)]
      BY DEF SkipPage
    <2> QED
      BY <1>1, <2>1
  <1>6. buildPc' = [buildPc EXCEPT ![r] = "page"] /\ "page" \in BuildSteps
    BY <1>1 DEF SkipPage, BuildSteps
  <1>7. /\ UNCHANGED <<open, replies, images, changes>> /\ disturbed' \subseteq Requests
        /\ boardPages' \in [PageNumbers -> WrittenPages]
    BY DEF SkipPage, PagesInv, BoardOK
  <1> HIDE DEF new
  <1>8. Collecting("page", new)
    BY DEF Collecting
  <1> QED
    BY <1>4, <1>5, <1>6, <1>7, <1>8, BuildKept

\* The catalog and the front page do not concern the pages of the board.
LEMMA CatalogKeeps ==
    ASSUME PagesInv, NEW r \in Requests,
           \/ WriteCatalogJSON(r) \/ OpenFrontPage(r) \/ WriteFrontPage(r) \/ OpenCatalog(r)
           \/ WriteCatalog(r) \/ BuildFails(r)
    PROVE  PagesInv'
  <1>1. boardPages' \in [PageNumbers -> WrittenPages] /\ UNCHANGED <<open, replies, images, changes>>
        /\ disturbed' \subseteq Requests
    BY DEF WriteCatalogJSON, OpenFrontPage, WriteFrontPage, OpenCatalog, WriteCatalog, BuildFails,
           PagesInv, BoardOK
  <1>2. CASE BuildDone(r)
    BY <1>1, <1>2, BuildEnds
  <1>3. CASE ~BuildDone(r)
    <2>1. PICK step \in {"frontPage", "writeFront", "catalog", "writeCatalog"} :
            BuildGoto(r, step) /\ UNCHANGED <<build, disturbed>>
      BY <1>3 DEF WriteCatalogJSON, OpenFrontPage, WriteFrontPage, OpenCatalog, WriteCatalog, BuildFails
    <2>2. step \in BuildSteps \ {"replyCount", "posts", "uploads"}
      BY DEF BuildSteps
    <2> QED
      BY <1>1, <2>1, <2>2, BuildGoesOn
  <1> QED
    BY <1>2, <1>3

\* The invariant holds throughout.
LEMMA PagesInvariant == PagesSpec => []PagesInv
  <1>1. PagesInit => PagesInv
    <2> SUFFICES ASSUME PagesInit PROVE PagesInv
      OBVIOUS
    <2>1. boardPages \in [PageNumbers -> WrittenPages]
      BY NoPageType DEF PagesInit
    <2>2. BoardOK
      BY PagesAssumption DEF PagesInit, BoardOK, PostNumbers
    <2>3. BuildOK
      BY NoBuildType DEF PagesInit, BuildOK, BuildSteps
    <2> QED
      BY <2>1, <2>2, <2>3 DEF PagesInv
  <1>2. PagesInv /\ [PagesNext]_pageVars => PagesInv'
    <2> SUFFICES ASSUME PagesInv, [PagesNext]_pageVars PROVE PagesInv'
      OBVIOUS
    <2>1. CASE \E t \in Discussions, p \in ReplyNumbers :
                  RemoveReply(t, p) \/ \E withFile \in BOOLEAN : AddReply(t, p, withFile)
      BY <2>1, OthersChangeTheBoard
    <2>2. ASSUME NEW t \in Discussions, RemoveThread(t) PROVE PagesInv'
      BY <2>2, ThreadRemovedKeeps
    <2>3. ASSUME NEW r \in Requests,
                 \/ StartPages(r) \/ ReadReplyCount(r) \/ ReadPosts(r) \/ ReadUploads(r)
                 \/ CleanPages(r) \/ WriteCatalogJSON(r)
                 \/ SkipPage(r) \/ \E n \in PageNumbers : WritePage(r, n)
                 \/ OpenFrontPage(r) \/ WriteFrontPage(r) \/ OpenCatalog(r) \/ WriteCatalog(r)
                 \/ BuildFails(r)
          PROVE  PagesInv'
      BY <2>3, StartPagesKeeps, ReadsKeep, CleanPagesKeeps, WritePageKeeps, SkipPageKeeps,
         CatalogKeeps
    <2>4. CASE UNCHANGED pageVars
      <3>1. UNCHANGED <<open, replies, images, changes, disturbed, boardPages, buildPc, build>>
        BY <2>4 DEF pageVars
      <3> QED
        BY <3>1 DEF PagesInv, BoardOK, BuildOK
    <2> QED
      BY <2>1, <2>2, <2>3, <2>4 DEF PagesNext
  <1> QED
    BY <1>1, <1>2, PTL DEF PagesSpec

\* The board, its pages and what builds hold keep their types, and no page has more threads than it
\* may.
THEOREM PagesTypeCorrect == PagesSpec => []PagesTypeOK
  <1>1. PagesInv => PagesTypeOK
    <2> SUFFICES ASSUME PagesInv PROVE PagesTypeOK
      OBVIOUS
    <2>1. DOMAIN boardPages = PageNumbers
      BY DEF PagesInv
    <2>2. \A n \in PageNumbers : Len(boardPages[n].threads) <= ThreadsPerPage
      BY DEF PagesInv, WrittenPages, PageThreads
    <2> QED
      BY <2>1, <2>2 DEF PagesInv, BoardOK, BuildOK, PagesTypeOK, PostNumbers
  <1> QED
    BY <1>1, PagesInvariant, PTL

\* Whatever is posted and deleted between the queries of a build, and however many builds run at
\* once, no page shows a negative number of omitted posts or images, more replies than configured,
\* or a thread without its OP (BuildBoardPages).
THEOREM CountsMakeSenseCorrect == PagesSpec => []CountsMakeSense
  <1>1. PagesInv => CountsMakeSense
    <2> SUFFICES ASSUME PagesInv, NEW n \in PageNumbers, NEW e \in EntriesOn(n)
                 PROVE  /\ e.omittedPosts >= 0 /\ e.omittedImages >= 0
                        /\ OP \in e.posts /\ Cardinality(e.posts) <= RepliesOnBoardPage[e.thread] + 1
      BY DEF CountsMakeSense
    <2>1. boardPages[n].threads \in Seq(SensibleEntries)
      BY DEF PagesInv, WrittenPages, PageThreads
    <2>2. e \in SensibleEntries
      BY <2>1 DEF EntriesOn
    <2> QED
      BY <2>2 DEF SensibleEntries
  <1> QED
    BY <1>1, PagesInvariant, PTL

-----------------------------------------------------------------------------
(* A build that nothing disturbs. *)

\* A file belongs to a post that is there.
ImagesHavePosts == \A t \in Discussions : images[t] \subseteq {OP} \cup replies[t]

\* What a page is to say of thread t, and what page n is to be: the threads with the places
\* (n - 1) * ThreadsPerPage + 1 and so on in the list, as far as there are any.
ExactEntry(t) == Entry(t, Cardinality(replies[t]), ThreadPosts(t), images[t])
Place(n, i) == (n - 1) * ThreadsPerPage + i
PlacesOn(n, len) == {i \in 1..ThreadsPerPage : Place(n, i) <= len}
ExactPage(page, n) ==
    LET list == InOrder(open) IN
    /\ DOMAIN page.threads = PlacesOn(n, Len(list))
    /\ \A i \in PlacesOn(n, Len(list)) : page.threads[i] = ExactEntry(list[Place(n, i)])
    /\ page.next <=> Place(n + 1, 1) <= Len(list)
    /\ Place(n, 1) <= Len(list) => page.there

\* The build r is alone and what it has collected is exact.
ExactEntries(entries) == \A i \in 1..Len(entries) : entries[i] = ExactEntry(InOrder(open)[i])
Reading == {"replyCount", "posts", "uploads"}
ExactSoFar(pc, b) ==
    LET list == InOrder(open) IN
    /\ pc \in Reading \cup {"clean"} =>
          /\ b.listed = list /\ ExactEntries(b.entries)
          /\ Len(b.entries) + Len(b.rest) = Len(list)
          /\ \A i \in 1..Len(b.rest) : b.rest[i] = list[Len(b.entries) + i]
    /\ pc \in {"posts", "uploads"} => b.count = Cardinality(replies[Head(b.rest)])
    /\ pc = "uploads" => b.posts = ThreadPosts(Head(b.rest))
    /\ pc = "clean" => b.rest = <<>>
    /\ pc = "page" =>
          /\ b.listed = list /\ ExactEntries(b.entries)
          /\ Len(b.entries) = Len(list) /\ b.pages = FillPages(b.entries)
          /\ Len(b.rest) <= Len(b.pages)
          /\ \A n \in PageNumbers : IF n <= Len(b.rest) THEN ExactPage(boardPages[n], n) ELSE boardPages[n] = NoPage
    /\ pc = "frontPage" => \A n \in PageNumbers : ExactPage(boardPages[n], n)
ExactBuild(r) ==
    /\ \A q \in Requests : buildPc[q] # "idle" => q = r
    /\ ExactSoFar(buildPc[r], build[r])

ExactInv == ImagesHavePosts /\ \A r \in Requests \ disturbed : buildPc[r] # "idle" => ExactBuild(r)

\* The pages before a page have so many places.
LEMMA PlacesBefore ==
    ASSUME NEW n \in Nat \ {0}
    PROVE  (n - 1) * ThreadsPerPage \in Nat
  <1>1. n - 1 \in Nat
    OBVIOUS
  <1>2. ThreadsPerPage \in Nat
    BY FinitePosts
  <1>3. \A a, b \in Nat : a * b \in Nat
    OBVIOUS
  <1> QED
    BY <1>1, <1>2, <1>3, Zenon

\* The places of the pages do not overlap: each place of the list is on one page.
LEMMA OnePlace ==
    ASSUME NEW n \in Nat \ {0}, NEW m \in Nat \ {0}, NEW i \in 1..ThreadsPerPage,
           NEW j \in 1..ThreadsPerPage, Place(n, i) = Place(m, j)
    PROVE  n = m /\ i = j
  <1>1. ThreadsPerPage \in Nat \ {0}
    BY FinitePosts
  <1>2. ASSUME NEW a \in Nat \ {0}, NEW b \in Nat \ {0}, a < b
        PROVE  (a - 1) * ThreadsPerPage + ThreadsPerPage <= (b - 1) * ThreadsPerPage
    <2>1. PICK d \in Nat : (b - 1) = (a - 1) + 1 + d
      <3>1. b - a - 1 \in Nat /\ (b - 1) = (a - 1) + 1 + (b - a - 1)
        BY <1>2
      <3> QED
        BY <3>1
    <2>2. (b - 1) * ThreadsPerPage = (a - 1) * ThreadsPerPage + ThreadsPerPage + d * ThreadsPerPage
      BY <1>1, <2>1
    <2>3. d * ThreadsPerPage \in Nat /\ (a - 1) * ThreadsPerPage \in Nat
      BY <1>1
    <2> QED
      BY <1>1, <2>2, <2>3
  <1>3. (n - 1) * ThreadsPerPage \in Nat /\ (m - 1) * ThreadsPerPage \in Nat
    BY PlacesBefore
  <1>4. ~(n < m) /\ ~(m < n)
    BY <1>1, <1>2, <1>3 DEF Place
  <1>5. n = m
    BY <1>4
  <1> QED
    BY <1>1, <1>3, <1>5 DEF Place

\* Every place of a list is on a page, and the pages before it are full.
LEMMA PlaceExists ==
    ASSUME NEW k \in Nat \ {0}
    PROVE  \E n \in 1..k, i \in 1..ThreadsPerPage : k = Place(n, i)
  <1>1. ThreadsPerPage \in Nat \ {0}
    BY FinitePosts
  <1> PICK q : q = (k - 1) \div ThreadsPerPage
    OBVIOUS
  <1> PICK m : m = (k - 1) % ThreadsPerPage
    OBVIOUS
  <1>2. q \in Nat /\ m \in 0..(ThreadsPerPage - 1) /\ k - 1 = q * ThreadsPerPage + m
    BY <1>1
  <1>3. q <= q * ThreadsPerPage /\ q * ThreadsPerPage \in Nat
    BY <1>1, <1>2
  <1>4. q + 1 \in 1..k /\ m + 1 \in 1..ThreadsPerPage
    BY <1>1, <1>2, <1>3
  <1>5. k = Place(q + 1, m + 1)
    BY <1>1, <1>2, <1>3 DEF Place
  <1> QED
    BY <1>4, <1>5

\* fillPages fills one page after the other: place k of the list is on the page and at the position
\* that Place says, and there are as many pages as that takes.
LEMMA FillPagesExact ==
    ASSUME NEW entries \in Seq(SensibleEntries), NEW n \in Nat \ {0}
    PROVE  /\ n <= Len(FillPages(entries)) <=> Place(n, 1) <= Len(entries)
           /\ n <= Len(FillPages(entries)) =>
                 /\ DOMAIN FillPages(entries)[n].threads = PlacesOn(n, Len(entries))
                 /\ \A i \in PlacesOn(n, Len(entries)) :
                       FillPages(entries)[n].threads[i] = entries[Place(n, i)]
  <1> DEFINE full == Len(entries) \div ThreadsPerPage
             remainder == Len(entries) % ThreadsPerPage
             Page(i) == SubSeq(entries, (i - 1) * ThreadsPerPage + 1, i * ThreadsPerPage)
             fullPages == [i \in 1..full |-> [num |-> i, threads |-> Page(i)]]
             last == SubSeq(entries, Len(entries) - remainder + 1, Len(entries))
             rest == [num |-> IF full = 0 THEN 1 ELSE full, threads |-> last]
             FP == FillPages(entries)
  <1> PICK len : len = Len(entries)
    OBVIOUS
  <1>1. ThreadsPerPage \in Nat \ {0} /\ len \in Nat /\ Len(entries) = len
    BY FinitePosts
  <1>2. full \in Nat /\ remainder \in 0..(ThreadsPerPage - 1) /\ len = full * ThreadsPerPage + remainder
    BY <1>1
  <1>3. FP = IF remainder = 0 THEN fullPages ELSE Append(fullPages, rest)
    BY DEF FillPages
  <1> HIDE DEF full, remainder, rest, FP
  <1>4. /\ (n - 1) * ThreadsPerPage \in Nat /\ n * ThreadsPerPage = (n - 1) * ThreadsPerPage + ThreadsPerPage
        /\ full * ThreadsPerPage \in Nat
    BY <1>1, <1>2
  <1>5. fullPages \in Seq([num : Nat, threads : Seq(SensibleEntries)]) /\ Len(fullPages) = full
    <2>1. ASSUME NEW i \in 1..full PROVE Page(i) \in Seq(SensibleEntries)
      <3> DEFINE from == (i - 1) * ThreadsPerPage + 1
                 to == i * ThreadsPerPage
      <3>1. i * ThreadsPerPage <= full * ThreadsPerPage /\ (i - 1) * ThreadsPerPage >= 0
        BY <1>1, <1>2
      <3>2. from \in Int /\ to \in Int /\ 1 <= from /\ to <= len
        BY <1>1, <1>2, <3>1
      <3> HIDE DEF from, to
      <3>3. \A k \in from..to : entries[k] \in SensibleEntries
        BY <1>1, <3>2
      <3>4. SubSeq(entries, from, to) \in Seq(SensibleEntries)
        BY <3>2, <3>3, SubSeqProperties
      <3> QED
        BY <3>4 DEF from, to
    <2> HIDE DEF Page
    <2>2. fullPages \in [1..full -> [num : Nat, threads : Seq(SensibleEntries)]]
      BY <1>2, <2>1
    <2> QED
      BY <1>2, <2>2
  <1>6. last \in Seq(SensibleEntries) /\ DOMAIN last = 1..remainder
        /\ \A i \in 1..remainder : last[i] = entries[full * ThreadsPerPage + i]
    <2> DEFINE from == Len(entries) - remainder + 1
               to == Len(entries)
    <2>1. to \in Int /\ from \in Int /\ to - from + 1 = remainder /\ 1 <= from
          /\ from = full * ThreadsPerPage + 1 /\ to <= len
      BY <1>1, <1>2, <1>4
    <2> HIDE DEF from, to
    <2>2. \A k \in from..to : entries[k] \in SensibleEntries
      BY <1>1, <2>1
    <2>3. /\ SubSeq(entries, from, to) \in Seq(SensibleEntries)
          /\ Len(SubSeq(entries, from, to)) = IF from <= to THEN to - from + 1 ELSE 0
          /\ \A i \in 1..(to - from + 1) : SubSeq(entries, from, to)[i] = entries[from + i - 1]
      BY <2>1, <2>2, SubSeqProperties
    <2>4. Len(SubSeq(entries, from, to)) = remainder
      BY <1>2, <2>1, <2>3
    <2>5. \A i \in 1..remainder : SubSeq(entries, from, to)[i] = entries[full * ThreadsPerPage + i]
      <3>1. \A i \in 1..remainder : from + i - 1 = full * ThreadsPerPage + i
        BY <1>2, <1>4, <2>1
      <3> QED
        BY <2>1, <2>3, <3>1
    <2>6. SubSeq(entries, from, to) = last
      BY DEF from, to
    <2> QED
      BY <2>3, <2>4, <2>5, <2>6
  <1>7. rest \in [num : Nat, threads : Seq(SensibleEntries)] /\ rest.threads = last
    BY <1>2, <1>6 DEF rest
  <1>8. /\ Len(FP) = IF remainder = 0 THEN full ELSE full + 1
        /\ n <= full => FP[n] = [num |-> n, threads |-> Page(n)]
        /\ remainder # 0 /\ n = full + 1 => FP[n] = rest
    <2> HIDE DEF last, Page
    <2>1. n <= full => fullPages[n] = [num |-> n, threads |-> Page(n)]
      BY <1>2
    <2> HIDE DEF fullPages
    <2>2. /\ Len(Append(fullPages, rest)) = full + 1
          /\ \A i \in 1..full : Append(fullPages, rest)[i] = fullPages[i]
          /\ Append(fullPages, rest)[full + 1] = rest
      BY <1>5, <1>7, AppendProperties
    <2>3. n <= full => n \in 1..full
      BY <1>2
    <2> QED
      BY <1>3, <1>5, <2>1, <2>2, <2>3
  <1> HIDE DEF fullPages, last
  <1>9. CASE n <= full
    <2>1. n * ThreadsPerPage <= full * ThreadsPerPage
      BY <1>1, <1>2, <1>9
    <2> DEFINE before == n * ThreadsPerPage
               filled == full * ThreadsPerPage
    <2>13. before \in Int /\ filled \in Nat /\ before <= filled /\ len = filled + remainder /\ remainder \in Nat
      BY <1>1, <1>2, <1>4, <2>1
    <2> HIDE DEF before, filled
    <2>14. before <= len
      BY <2>13
    <2>2. n * ThreadsPerPage <= len
      BY <2>14 DEF before
    <2>3. Place(n, 1) <= len /\ n <= Len(FP)
      BY <1>1, <1>2, <1>4, <1>8, <1>9, <2>2 DEF Place
    <2>4. PlacesOn(n, len) = 1..ThreadsPerPage
      BY <1>1, <1>4, <2>2 DEF PlacesOn, Place
    <2> DEFINE from == (n - 1) * ThreadsPerPage + 1
               to == n * ThreadsPerPage
    <2>5. from \in Int /\ to \in Int /\ 1 <= from /\ to <= len /\ to - from + 1 = ThreadsPerPage
      BY <1>1, <1>4, <2>2
    <2>6. Page(n) = SubSeq(entries, from, to)
      OBVIOUS
    <2>7. \A i \in 1..ThreadsPerPage : from + i - 1 = Place(n, i)
      BY <1>1, <1>4 DEF Place
    <2> HIDE DEF from, to, Page
    <2>8. \A k \in from..to : entries[k] \in SensibleEntries
      BY <1>1, <2>5
    <2>9. /\ SubSeq(entries, from, to) \in Seq(SensibleEntries)
          /\ Len(SubSeq(entries, from, to)) = IF from <= to THEN to - from + 1 ELSE 0
          /\ \A i \in 1..(to - from + 1) : SubSeq(entries, from, to)[i] = entries[from + i - 1]
      BY <2>5, <2>8, SubSeqProperties
    <2>10. Len(Page(n)) = ThreadsPerPage /\ Page(n) \in Seq(SensibleEntries)
      BY <1>1, <2>5, <2>6, <2>9
    <2>11. \A i \in 1..ThreadsPerPage : Page(n)[i] = entries[Place(n, i)]
      BY <2>5, <2>6, <2>7, <2>9
    <2>12. FP[n].threads = Page(n)
      BY <1>8, <1>9
    <2> QED
      BY <1>1, <2>3, <2>4, <2>10, <2>11, <2>12 DEF FP
  <1>10. CASE n = full + 1
    <2>1. \A i \in 1..ThreadsPerPage : Place(n, i) = full * ThreadsPerPage + i
      BY <1>2, <1>10 DEF Place
    <2>2. PlacesOn(n, len) = 1..remainder
      BY <1>1, <1>2, <1>4, <2>1 DEF PlacesOn
    <2>3. Place(n, 1) <= len <=> remainder # 0
      <3>1. Place(n, 1) = full * ThreadsPerPage + 1
        BY <1>1, <2>1
      <3> QED
        BY <1>2, <1>4, <3>1
    <2>4. n <= Len(FP) <=> remainder # 0
      BY <1>2, <1>8, <1>10
    <2>5. \A i \in 1..remainder : last[i] = entries[Place(n, i)]
      <3>1. \A i \in 1..remainder : i \in 1..ThreadsPerPage
        BY <1>1, <1>2
      <3>2. \A i \in 1..remainder : Place(n, i) = full * ThreadsPerPage + i
        BY <2>1, <3>1
      <3> QED
        BY <1>6, <3>2
    <2> QED
      BY <1>1, <1>6, <1>7, <1>8, <1>10, <2>2, <2>3, <2>4, <2>5 DEF FP
  <1>11. CASE n > full + 1
    <2>1. PICK d \in Nat : n - 1 = full + 1 + d
      <3>1. n - 1 - full - 1 \in Nat /\ n - 1 = full + 1 + (n - 1 - full - 1)
        BY <1>2, <1>11
      <3> QED
        BY <3>1
    <2>2. (n - 1) * ThreadsPerPage = full * ThreadsPerPage + ThreadsPerPage + d * ThreadsPerPage
      BY <1>1, <1>2, <2>1
    <2>3. d * ThreadsPerPage \in Nat
      BY <1>1
    <2>4. ~(Place(n, 1) <= len)
      BY <1>1, <1>2, <1>4, <2>2, <2>3 DEF Place
    <2>5. ~(n <= Len(FP))
      BY <1>2, <1>8, <1>11
    <2> QED
      BY <1>1, <2>4, <2>5 DEF FP
  <1> QED
    BY <1>2, <1>9, <1>10, <1>11

\* The list of a query has each of the threads once, in order.
LEMMA InOrderExact ==
    ASSUME NEW T \in SUBSET Discussions
    PROVE  /\ InOrder(T) \in Seq(T) /\ Len(InOrder(T)) = Cardinality(T) /\ Cardinality(T) \in Nat
           /\ \A i, j \in 1..Cardinality(T) : i < j => InOrder(T)[i] < InOrder(T)[j]
           /\ \A i, j \in 1..Cardinality(T) : InOrder(T)[i] = InOrder(T)[j] => i = j
           /\ \A t \in T : \E k \in 1..Cardinality(T) : InOrder(T)[k] = t
  <1> PICK len : len = Cardinality(T)
    OBVIOUS
  <1> PICK list : list = InOrder(T)
    OBVIOUS
  <1>1. IsFiniteSet(T) /\ len \in Nat /\ T \subseteq Nat
    BY FinitePosts, FS_Subset, FS_CardinalityType
  <1>2. list \in [1..len -> T] /\ \A i, j \in 1..len : i < j => list[i] < list[j]
    BY OrderExists, Zenon DEF InOrder
  <1>3. list \in Seq(T) /\ Len(list) = len
    BY <1>1, <1>2
  <1>4. \A i, j \in 1..len : list[i] = list[j] => i = j
    <2> SUFFICES ASSUME NEW i \in 1..len, NEW j \in 1..len, list[i] = list[j] PROVE i = j
      OBVIOUS
    <2>1. list[i] \in Nat /\ list[j] \in Nat
      BY <1>1, <1>2
    <2> QED
      BY <1>1, <1>2, <2>1
  <1>5. list \in Injection(1..len, T)
    BY <1>2, <1>4, Fun_IsInj
  <1>6. Cardinality(1..len) = len
    BY <1>1, FS_Interval
  <1>7. list \in Surjection(1..len, T)
    BY <1>1, <1>5, <1>6, FS_Injection
  <1>8. \A t \in T : \E k \in 1..len : list[k] = t
    BY <1>7 DEF Surjection
  <1> QED
    BY <1>1, <1>2, <1>3, <1>4, <1>8

\* The numbers below a thread are those of the posts and of the images its page does not show, if
\* the replies, the posts and the uploads were read of the same thread.
LEMMA EntryIsExact ==
    ASSUME NEW t \in Discussions, NEW R \in SUBSET ReplyNumbers, NEW uploads \in SUBSET ({OP} \cup R)
    PROVE  LET e == Entry(t, Cardinality(R), {OP} \cup R, uploads) IN
           /\ e.omittedPosts = Cardinality(R \ e.posts)
           /\ e.omittedImages = Cardinality(uploads \ e.posts)
  <1> PICK e : e = Entry(t, Cardinality(R), {OP} \cup R, uploads)
    OBVIOUS
  <1> PICK max : max = RepliesOnBoardPage[t]
    OBVIOUS
  <1> PICK P : P = {OP} \cup R
    OBVIOUS
  <1> DEFINE LR == LastReplies(P, max)
  <1> PICK shown : shown = IF Cardinality(P) > max THEN {OP} \cup LR ELSE P
    OBVIOUS
  <1>1. max \in Nat
    BY FinitePosts
  <1>2. P \in SUBSET PostNumbers /\ OP \notin R /\ R = P \ {OP} /\ OP \in P
    BY PagesAssumption DEF PostNumbers, OP
  <1>3. IsFiniteSet(P) /\ IsFiniteSet(R) /\ Cardinality(P) \in Nat /\ Cardinality(R) \in Nat
        /\ Cardinality(P) = Cardinality(R) + 1
    <2>1. IsFiniteSet(P) /\ IsFiniteSet(R)
      BY <1>2, FinitePosts, FS_Subset
    <2>2. Cardinality(P \ {OP}) = Cardinality(P) - 1
      BY <1>2, <2>1, FS_RemoveElement
    <2>3. Cardinality(P) \in Nat /\ Cardinality(R) \in Nat
      BY <2>1, FS_CardinalityType
    <2>4. Cardinality(R) = Cardinality(P) - 1
      BY <1>2, <2>2
    <2> QED
      BY <2>1, <2>3, <2>4
  <1>4. LR \subseteq R
    BY <1>2 DEF LastReplies
  <1>5. shown \subseteq P /\ OP \in shown /\ shown = {OP} \cup (shown \cap R)
    BY <1>2, <1>4
  <1>6. IsFiniteSet(uploads) /\ IsFiniteSet(shown) /\ IsFiniteSet(shown \cap R)
    BY <1>2, <1>3, <1>5, FS_Subset
  <1>7. e.posts = shown
        /\ e.omittedPosts = (IF Cardinality(R) > max THEN Cardinality(R) - Cardinality(shown) + 1 ELSE 0)
        /\ e.omittedImages = (IF Cardinality(R) > max
                             THEN Cardinality(uploads) - Cardinality(uploads \cap shown) ELSE 0)
    BY DEF Entry
  <1>8. CASE Cardinality(R) > max
    <2>1. Cardinality(shown) = Cardinality(shown \cap R) + 1 /\ Cardinality(shown \cap R) \in Nat
      <3>1. OP \notin (shown \cap R) /\ shown = (shown \cap R) \cup {OP}
        BY <1>2, <1>5
      <3> PICK S : S = shown \cap R
        OBVIOUS
      <3>2. Cardinality(S \cup {OP}) = Cardinality(S) + 1
        BY <1>6, <3>1, FS_AddElement
      <3> QED
        BY <1>6, <3>1, <3>2, FS_CardinalityType
    <2>2. Cardinality(R \ shown) = Cardinality(R) - Cardinality(R \cap shown)
      BY <1>3, FS_Difference
    <2>3. Cardinality(uploads \ shown) = Cardinality(uploads) - Cardinality(uploads \cap shown)
      BY <1>6, FS_Difference
    <2>4. R \cap shown = shown \cap R
      OBVIOUS
    <2>5. Cardinality(R \ e.posts) = Cardinality(R) - Cardinality(shown \cap R)
          /\ e.omittedPosts = Cardinality(R) - Cardinality(shown) + 1
      BY <1>7, <1>8, <2>2, <2>4
    <2>6. Cardinality(uploads \ e.posts) = e.omittedImages
      BY <1>7, <1>8, <2>3
    <2> QED
      BY <1>3, <2>1, <2>5, <2>6
  <1>9. CASE ~(Cardinality(R) > max)
    <2>1. R \subseteq shown
      <3> SUFFICES ASSUME NEW p \in R PROVE p \in shown
        OBVIOUS
      <3> PICK above : above = {q \in P : q > p}
        OBVIOUS
      <3>1. above \subseteq R
        <4>1. OP \notin above
          BY <1>2, PagesAssumption DEF OP
        <4> QED
          BY <1>2, <4>1
      <3>2. p \notin above /\ p # OP
        BY <1>2, PagesAssumption
      <3>3. Cardinality(above) < Cardinality(R)
        BY <1>3, <3>1, <3>2, FS_Subset, FS_CardinalityType
      <3>4. Cardinality(above) < max
        BY <1>1, <1>3, <1>9, <3>1, <3>3, FS_Subset, FS_CardinalityType
      <3>5. p \in LR
        BY <1>2, <3>2, <3>4 DEF LastReplies
      <3> QED
        BY <1>2, <3>5
    <2>2. R \ shown = {} /\ uploads \ shown = {}
      BY <1>5, <2>1
    <2> QED
      BY <1>7, <1>9, <2>2, FS_EmptySet
  <1> QED
    BY <1>8, <1>9

\* What the board should look like depends on its threads, replies and images only.
LEMMA SameBoard ==
    ASSUME UNCHANGED <<open, replies, images>>
    PROVE  /\ InOrder(open)' = InOrder(open)
           /\ \A t : ThreadPosts(t)' = ThreadPosts(t) /\ ExactEntry(t)' = ExactEntry(t)
           /\ \A entries : ExactEntries(entries)' <=> ExactEntries(entries)
           /\ \A page, n : ExactPage(page, n)' <=> ExactPage(page, n)
  <1>1. InOrder(open)' = InOrder(open)
    OBVIOUS
  <1>2. \A t : ThreadPosts(t)' = ThreadPosts(t)
    BY DEF ThreadPosts
  <1>3. \A t : ExactEntry(t)' = ExactEntry(t)
    BY <1>2 DEF ExactEntry
  <1>4. \A entries : ExactEntries(entries)' <=> ExactEntries(entries)
    BY <1>1, <1>3 DEF ExactEntries
  <1>5. \A page, n : ExactPage(page, n)' <=> ExactPage(page, n)
    BY <1>1, <1>3 DEF ExactPage
  <1> QED
    BY <1>1, <1>2, <1>3, <1>4, <1>5

\* A step of one build disturbs no other: had there been another, neither would count as undisturbed.
LEMMA AloneKeeps ==
    ASSUME PagesInv, ExactInv, NEW r \in Requests, buildPc[r] # "idle", NEW step, NEW new,
           buildPc' = [buildPc EXCEPT ![r] = step], build' = [build EXCEPT ![r] = new],
           UNCHANGED <<open, replies, images>>, disturbed \subseteq disturbed',
           ExactBuild(r) /\ step # "idle" => ExactSoFar(step, new)'
    PROVE  ExactInv'
  <1>1. ImagesHavePosts'
    BY DEF ExactInv, ImagesHavePosts
  <1>2. ASSUME NEW q \in Requests \ disturbed', buildPc'[q] # "idle" PROVE ExactBuild(q)'
    <2>1. buildPc[q] # "idle"
      BY <1>2 DEF PagesInv, BuildOK
    <2>2. ExactBuild(q)
      BY <1>2, <2>1 DEF ExactInv
    <2>3. q = r
      BY <2>2 DEF ExactBuild
    <2>4. buildPc'[r] = step /\ build'[r] = new
      BY DEF PagesInv, BuildOK
    <2>5. \A p \in Requests : buildPc'[p] # "idle" => p = r
      BY <2>2, <2>3 DEF ExactBuild, PagesInv, BuildOK
    <2>6. ExactSoFar(step, new)'
      BY <1>2, <2>2, <2>3, <2>4
    <2> QED
      BY <2>3, <2>4, <2>5, <2>6 DEF ExactBuild
  <1> QED
    BY <1>1, <1>2 DEF ExactInv

\* A post or a deletion disturbs every build, and takes the file of a reply with the reply.
LEMMA ChangeKeepsExact ==
    ASSUME PagesInv, ExactInv, NEW t \in Discussions, NEW p \in ReplyNumbers, NEW withFile \in BOOLEAN,
           AddReply(t, p, withFile) \/ RemoveReply(t, p) \/ RemoveThread(t)
    PROVE  ExactInv'
  <1>1. \A r \in Requests \ disturbed' : buildPc'[r] = "idle"
    BY DEF AddReply, RemoveReply, RemoveThread, BoardChanges, Builders
  <1>2. ImagesHavePosts'
    <2>1. replies \in [Discussions -> SUBSET ReplyNumbers] /\ images \in [Discussions -> SUBSET PostNumbers]
      BY DEF PagesInv, BoardOK
    <2>2. OP \notin ReplyNumbers
      BY PagesAssumption DEF OP
    <2>3. CASE AddReply(t, p, withFile)
      BY <2>1, <2>3 DEF AddReply, ExactInv, ImagesHavePosts
    <2>4. CASE RemoveReply(t, p)
      BY <2>1, <2>2, <2>4 DEF RemoveReply, ExactInv, ImagesHavePosts
    <2>5. CASE RemoveThread(t)
      BY <2>5 DEF RemoveThread, ExactInv, ImagesHavePosts
    <2> QED
      BY <2>3, <2>4, <2>5
  <1> QED
    BY <1>1, <1>2 DEF ExactInv

\* A build that starts alone has read nothing but the list.
LEMMA StartPagesIsExact ==
    ASSUME PagesInv, ExactInv, NEW r \in Requests, StartPages(r)
    PROVE  ExactInv'
  <1> PICK list : list = InOrder(open)
    OBVIOUS
  <1>1. open \in SUBSET Discussions
    BY DEF PagesInv, BoardOK
  <1>2. list \in Seq(Discussions) /\ (list = <<>> <=> open = {}) /\ Len(list) \in Nat
    BY <1>1, InOrderIsList
  <1>3. ImagesHavePosts'
    BY DEF ExactInv, ImagesHavePosts, StartPages
  <1>4. ASSUME NEW q \in Requests \ disturbed', buildPc'[q] # "idle" PROVE ExactBuild(q)'
    <2>1. Builders = {} /\ q = r
      BY <1>4 DEF StartPages, BuildGoto, Builders, PagesInv, BuildOK
    <2>2. \A p \in Requests : buildPc'[p] # "idle" => p = r
      BY <2>1 DEF StartPages, BuildGoto, Builders, PagesInv, BuildOK
    <2>3. build'[r] = [NoBuild EXCEPT !.listed = list, !.rest = list]
      BY DEF StartPages, PagesInv, BuildOK
    <2>4. buildPc'[r] = IF open = {} THEN "clean" ELSE "replyCount"
      BY DEF StartPages, BuildGoto, PagesInv, BuildOK
    <2>5. /\ build'[r].listed = list /\ build'[r].rest = list /\ build'[r].entries = <<>>
      BY <2>3 DEF NoBuild
    <2>6. InOrder(open)' = list
      BY DEF StartPages
    <2>7. ExactEntries(<<>>)'
      BY DEF ExactEntries
    <2>8. ExactSoFar(buildPc[r], build[r])'
      BY <1>2, <2>4, <2>5, <2>6, <2>7 DEF ExactSoFar, Reading
    <2> QED
      BY <2>1, <2>2, <2>8 DEF ExactBuild
  <1> QED
    BY <1>3, <1>4 DEF ExactInv

\* What a build collects while it is alone is exact: the threads it has not reached are the rest of
\* the list, each of them is there, and its replies, posts and images are read of the same state.
LEMMA ReadsAreExact ==
    ASSUME PagesInv, ExactInv, NEW r \in Requests, ReadReplyCount(r) \/ ReadPosts(r) \/ ReadUploads(r)
    PROVE  ExactInv'
  <1> PICK b : b = build[r]
    OBVIOUS
  <1> PICK list : list = InOrder(open)
    OBVIOUS
  <1>1. b \in BuildLocals /\ buildPc[r] \in Reading /\ build \in [Requests -> BuildLocals]
        /\ buildPc \in [Requests -> BuildSteps]
    BY DEF PagesInv, BuildOK, ReadReplyCount, ReadPosts, ReadUploads, Reading
  <1>2. b.rest \in Seq(Discussions) /\ b.rest # <<>> /\ b.entries \in Seq(SensibleEntries)
    BY <1>1 DEF Reading, PagesInv, BuildOK, Collecting, BuildLocals
  <1>3. open \in SUBSET Discussions
    BY DEF PagesInv, BoardOK
  <1>4. list \in Seq(open) /\ Len(list) \in Nat
    BY <1>3, InOrderExact
  <1>5. UNCHANGED <<open, replies, images, disturbed, boardPages>> /\ buildPc[r] # "idle"
    BY DEF ReadReplyCount, ReadPosts, ReadUploads
  <1>11. PICK t : t = Head(b.rest)
    OBVIOUS
  <1>12. PICK rest : rest = Tail(b.rest)
    OBVIOUS
  <1>13. PICK done : done = Len(b.entries)
    OBVIOUS
  <1>14. PICK left : left = Len(b.rest)
    OBVIOUS
  <1>15. PICK len : len = Len(list)
    OBVIOUS
  <1>6. /\ t = b.rest[1] /\ rest \in Seq(Discussions) /\ Len(rest) = left - 1 /\ left \in Nat /\ left > 0
        /\ \A i \in 1..Len(rest) : rest[i] = b.rest[i + 1]
    BY <1>2, <1>11, <1>12, <1>14, HeadTailProperties
  <1>16. done \in Nat /\ len \in Nat
    BY <1>2, <1>4, <1>13, <1>15
  <1>17. PICK next : next = IF rest = <<>> THEN "clean" ELSE "replyCount"
    OBVIOUS
  <1>7. ASSUME ExactBuild(r)
        PROVE  /\ b.listed = list /\ ExactEntries(b.entries)
               /\ done + left = len
               /\ \A i \in 1..left : b.rest[i] = list[done + i]
               /\ buildPc[r] \in {"posts", "uploads"} => b.count = Cardinality(replies[t])
               /\ buildPc[r] = "uploads" => b.posts = ThreadPosts(t)
               /\ t \in open /\ t = list[done + 1]
    <2>1. ExactSoFar(buildPc[r], b)
      BY <1>7 DEF ExactBuild
    <2>2. /\ b.listed = list /\ ExactEntries(b.entries)
          /\ done + left = len
          /\ \A i \in 1..left : b.rest[i] = list[done + i]
          /\ buildPc[r] \in {"posts", "uploads"} => b.count = Cardinality(replies[t])
          /\ buildPc[r] = "uploads" => b.posts = ThreadPosts(t)
      BY <1>1, <1>11, <1>13, <1>14, <1>15, <2>1 DEF ExactSoFar, Reading
    <2>3. done + 1 \in 1..len
      BY <1>6, <1>16, <2>2
    <2>4. t = list[done + 1]
      <3>1. 1 \in 1..left
        BY <1>6
      <3> QED
        BY <1>6, <2>2, <3>1
    <2>5. t \in open
      BY <1>4, <1>15, <2>3, <2>4
    <2> QED
      BY <2>2, <2>4, <2>5
  <1>8. CASE ReadReplyCount(r)
    <2> PICK count : count = Cardinality(replies[t])
      OBVIOUS
    <2> PICK new : new = [b EXCEPT !.count = count]
      OBVIOUS
    <2>1. new.rest = b.rest /\ new.listed = b.listed /\ new.entries = b.entries /\ new.count = count
      BY <1>1 DEF BuildLocals
    <2>2. build' = [build EXCEPT ![r] = new] /\ buildPc' = [buildPc EXCEPT ![r] = "posts"]
      BY <1>1, <1>8, <1>11 DEF ReadReplyCount, BuildGoto
    <2>3. ASSUME ExactBuild(r) PROVE ExactSoFar("posts", new)'
      BY <1>5, <1>7, <1>11, <1>13, <1>14, <1>15, <2>1, <2>3, SameBoard DEF ExactSoFar, Reading
    <2> QED
      BY <1>5, <2>2, <2>3, AloneKeeps
  <1>9. CASE ReadPosts(r)
    <2> PICK P : P = ThreadPosts(t)
      OBVIOUS
    <2>1. CASE P = {}
      <3>1. ~ExactBuild(r)
        BY <1>7, <2>1 DEF ThreadPosts
      <3> PICK new : new = [b EXCEPT !.rest = rest]
        OBVIOUS
      <3>2. build' = [build EXCEPT ![r] = new] /\ buildPc' = [buildPc EXCEPT ![r] = next]
        BY <1>1, <1>9, <1>11, <1>12, <1>17, <2>1 DEF ReadPosts, BuildGoto
      <3> QED
        BY <1>5, <3>1, <3>2, AloneKeeps
    <2>2. CASE P # {}
      <3> PICK new : new = [b EXCEPT !.posts = P]
        OBVIOUS
      <3>1. new.rest = b.rest /\ new.listed = b.listed /\ new.entries = b.entries /\ new.count = b.count
            /\ new.posts = P
        BY <1>1 DEF BuildLocals
      <3>2. build' = [build EXCEPT ![r] = new] /\ buildPc' = [buildPc EXCEPT ![r] = "uploads"]
        BY <1>1, <1>9, <1>11, <2>2 DEF ReadPosts, BuildGoto
      <3>3. buildPc[r] = "posts"
        BY <1>9 DEF ReadPosts
      <3>4. ASSUME ExactBuild(r) PROVE ExactSoFar("uploads", new)'
        BY <1>5, <1>7, <1>11, <1>13, <1>14, <1>15, <3>1, <3>3, <3>4, SameBoard DEF ExactSoFar, Reading
      <3> QED
        BY <1>5, <3>2, <3>4, AloneKeeps
    <2> QED
      BY <2>1, <2>2
  <1>10. CASE ReadUploads(r)
    <2>7. PICK e : e = Entry(t, b.count, b.posts, images[t])
      OBVIOUS
    <2>8. PICK entries : entries = Append(b.entries, e)
      OBVIOUS
    <2> PICK new : new = [b EXCEPT !.rest = rest, !.entries = entries]
      OBVIOUS
    <2>1. new.rest = rest /\ new.listed = b.listed /\ new.entries = entries
      BY <1>1 DEF BuildLocals
    <2>2. build' = [build EXCEPT ![r] = new] /\ buildPc' = [buildPc EXCEPT ![r] = next]
      BY <1>1, <1>10, <1>11, <1>12, <1>17, <2>7, <2>8 DEF ReadUploads, BuildGoto, BuildLocals
    <2>3. buildPc[r] = "uploads"
      BY <1>10 DEF ReadUploads
    <2>4. e \in SensibleEntries
      <3>1. t \in Discussions
        BY <1>2, <1>11, HeadTailProperties
      <3>2. images[t] \in SUBSET PostNumbers
        BY <3>1 DEF PagesInv, BoardOK
      <3>3. b.count \in Nat /\ b.posts \in SUBSET PostNumbers
        BY <1>1 DEF BuildLocals
      <3>4. OP \in b.posts
        BY <2>3 DEF PagesInv, BuildOK, Collecting
      <3> QED
        BY <3>1, <3>2, <3>3, <3>4, <2>7, EntryMakesSense
    <2>5. /\ Len(entries) = done + 1
          /\ \A i \in 1..done : entries[i] = b.entries[i]
          /\ entries[done + 1] = e
      BY <1>2, <1>13, <2>4, <2>8, AppendProperties
    <2>6. ASSUME ExactBuild(r) PROVE ExactSoFar(next, new)'
      <3>1. e = ExactEntry(t)
        BY <1>7, <2>3, <2>6, <2>7 DEF ExactEntry
      <3>2. ExactEntries(entries)
        <4> SUFFICES ASSUME NEW i \in 1..Len(entries) PROVE entries[i] = ExactEntry(list[i])
          BY DEF ExactEntries
        <4>1. CASE i \in 1..done
          BY <1>7, <1>13, <2>5, <2>6, <4>1 DEF ExactEntries
        <4>2. CASE i = done + 1
          BY <1>7, <2>5, <2>6, <3>1, <4>2
        <4> QED
          BY <1>16, <2>5, <4>1, <4>2
      <3>3. Len(entries) + Len(rest) = Len(list)
        BY <1>6, <1>7, <1>15, <1>16, <2>5, <2>6
      <3>4. ASSUME NEW i \in 1..Len(rest) PROVE rest[i] = list[Len(entries) + i]
        <4>1. Len(rest) = left - 1 /\ left \in Nat /\ Len(entries) = done + 1 /\ done \in Nat
          BY <1>6, <1>16, <2>5
        <4>2. i \in Int /\ 1 <= i /\ i <= left - 1
          BY <4>1
        <4>3. i + 1 \in 1..left /\ done + (i + 1) = Len(entries) + i
          BY <4>1, <4>2
        <4> QED
          BY <1>6, <1>7, <2>6, <4>3
      <3>5. next \in {"clean", "replyCount"} /\ (next = "clean" => rest = <<>>)
        BY <1>17
      <3>6. InOrder(open)' = list /\ ExactEntries(entries)' /\ b.listed = list
        BY <1>5, <1>7, <2>6, <3>2, SameBoard
      <3> QED
        BY <2>1, <3>3, <3>4, <3>5, <3>6 DEF ExactSoFar, Reading
    <2> QED
      BY <1>5, <2>2, <2>6, AloneKeeps
  <1> QED
    BY <1>8, <1>9, <1>10

\* A page that nobody wrote is what the page should be if its first place is past the list.
LEMMA PagePastTheList ==
    ASSUME NEW n \in Nat \ {0}, NEW page, page.threads = <<>>, page.next = FALSE,
           Len(InOrder(open)) \in Nat, Place(n, 1) > Len(InOrder(open))
    PROVE  ExactPage(page, n)
  <1> PICK len : len = Len(InOrder(open))
    OBVIOUS
  <1>1. ThreadsPerPage \in Nat \ {0} /\ len \in Nat /\ (n - 1) * ThreadsPerPage \in Nat
    BY FinitePosts, PlacesBefore
  <1>2. n * ThreadsPerPage = (n - 1) * ThreadsPerPage + ThreadsPerPage
    BY <1>1
  <1> PICK before : before = (n - 1) * ThreadsPerPage
    OBVIOUS
  <1>3. \A i \in 1..ThreadsPerPage : Place(n, i) = before + i
    BY DEF Place
  <1>4. Place(n, 1) = before + 1 /\ Place(n + 1, 1) = before + ThreadsPerPage + 1
    BY <1>1, <1>2 DEF Place
  <1>5. PlacesOn(n, len) = {}
    BY <1>1, <1>3, <1>4 DEF PlacesOn
  <1>6. ~(Place(n, 1) <= len) /\ ~(Place(n + 1, 1) <= len)
    BY <1>1, <1>4
  <1>7. DOMAIN page.threads = {}
    OBVIOUS
  <1> QED
    BY <1>5, <1>6, <1>7 DEF ExactPage

\* The number of pages, as it is computed for the links, is such that a page has a next one as long
\* as there are threads for it.
LEMMA NextPage ==
    ASSUME NEW n \in Nat \ {0}, NEW len \in Nat
    PROVE  n < (len + ThreadsPerPage - 1) \div ThreadsPerPage <=> Place(n + 1, 1) <= len
  <1>1. ThreadsPerPage \in Nat \ {0}
    BY FinitePosts
  <1> PICK q : q = (len + ThreadsPerPage - 1) \div ThreadsPerPage
    OBVIOUS
  <1> PICK m : m = (len + ThreadsPerPage - 1) % ThreadsPerPage
    OBVIOUS
  <1>2. q \in Nat /\ m \in 0..(ThreadsPerPage - 1) /\ len + ThreadsPerPage - 1 = q * ThreadsPerPage + m
    BY <1>1
  <1>3. n * ThreadsPerPage \in Nat /\ q * ThreadsPerPage \in Nat /\ Place(n + 1, 1) = n * ThreadsPerPage + 1
    BY <1>1, <1>2 DEF Place
  <1>4. CASE n < q
    <2>1. PICK d \in Nat : q = n + 1 + d
      <3>1. q - n - 1 \in Nat /\ q = n + 1 + (q - n - 1)
        BY <1>2, <1>4
      <3> QED
        BY <3>1
    <2>2. q * ThreadsPerPage = n * ThreadsPerPage + ThreadsPerPage + d * ThreadsPerPage
          /\ d * ThreadsPerPage \in Nat
      BY <1>1, <2>1
    <2> QED
      BY <1>1, <1>2, <1>3, <1>4, <2>2
  <1>5. CASE ~(n < q)
    <2>1. PICK d \in Nat : n = q + d
      <3>1. n - q \in Nat /\ n = q + (n - q)
        BY <1>2, <1>5
      <3> QED
        BY <3>1
    <2>2. n * ThreadsPerPage = q * ThreadsPerPage + d * ThreadsPerPage /\ d * ThreadsPerPage \in Nat
      BY <1>1, <1>2, <2>1
    <2> QED
      BY <1>1, <1>2, <1>3, <1>5, <2>2
  <1> QED
    BY <1>4, <1>5

\* The old pages are removed, and the entries distributed over the new ones.
LEMMA CleanPagesIsExact ==
    ASSUME PagesInv, ExactInv, NEW r \in Requests, CleanPages(r)
    PROVE  ExactInv'
  <1> PICK b : b = build[r]
    OBVIOUS
  <1> PICK list : list = InOrder(open)
    OBVIOUS
  <1>1. b \in BuildLocals /\ build \in [Requests -> BuildLocals] /\ buildPc[r] = "clean"
    BY DEF PagesInv, BuildOK, CleanPages
  <1>2. UNCHANGED <<open, replies, images, disturbed>>
    BY DEF CleanPages
  <1>3. list \in Seq(open) /\ Len(list) \in Nat
    BY InOrderExact DEF PagesInv, BoardOK
  <1>4. ASSUME ExactBuild(r)
        PROVE  b.listed = list /\ ExactEntries(b.entries) /\ b.rest = <<>> /\ Len(b.entries) = Len(list)
    <2>1. /\ b.listed = list /\ ExactEntries(b.entries) /\ b.rest = <<>>
          /\ Len(b.entries) + Len(b.rest) = Len(list)
      BY <1>1, <1>4 DEF ExactBuild, ExactSoFar
    <2>2. Len(b.entries) \in Nat /\ Len(b.rest) = 0
      BY <1>1, <2>1 DEF BuildLocals
    <2> QED
      BY <2>1, <2>2
  <1>5. CASE b.listed = <<>>
    <2>1. /\ buildPc' = [buildPc EXCEPT ![r] = "frontPage"] /\ build' = [build EXCEPT ![r] = b]
          /\ boardPages' = [[n \in PageNumbers |-> NoPage] EXCEPT ![1].there = TRUE]
      BY <1>1, <1>5 DEF CleanPages, BuildGoto
    <2>2. ASSUME ExactBuild(r), NEW n \in PageNumbers PROVE ExactPage(boardPages[n], n)'
      <3>1. n \in Nat \ {0}
        BY DEF PageNumbers
      <3> PICK page : page = boardPages'[n]
        OBVIOUS
      <3>2. page.threads = <<>> /\ page.next = FALSE
        BY <2>1 DEF NoPage
      <3>3. Len(InOrder(open)) = 0
        BY <1>4, <1>5, <2>2
      <3>4. Place(n, 1) > 0
        <4>1. (n - 1) * ThreadsPerPage \in Nat
          BY <3>1, PlacesBefore
        <4> QED
          BY <4>1 DEF Place
      <3>5. Len(InOrder(open)) \in Nat /\ Place(n, 1) > Len(InOrder(open))
        BY <3>3, <3>4
      <3>6. ExactPage(page, n)
        BY <3>1, <3>2, <3>5, PagePastTheList, Zenon
      <3> QED
        BY <1>2, <3>6, SameBoard
    <2>3. ASSUME ExactBuild(r) PROVE ExactSoFar("frontPage", b)'
      BY <2>2, <2>3 DEF ExactSoFar, Reading
    <2> QED
      BY <1>1, <1>2, <2>1, <2>3, AloneKeeps
  <1>6. CASE b.listed # <<>>
    <2> PICK pages : pages = FillPages(b.entries)
      OBVIOUS
    <2> PICK new : new = [b EXCEPT !.pages = pages]
      OBVIOUS
    <2>1. /\ buildPc' = [buildPc EXCEPT ![r] = "page"] /\ build' = [build EXCEPT ![r] = new]
          /\ boardPages' = [n \in PageNumbers |-> NoPage]
      BY <1>1, <1>6 DEF CleanPages, BuildGoto
    <2>2. new.listed = b.listed /\ new.entries = b.entries /\ new.rest = b.rest /\ new.pages = pages
      BY <1>1 DEF BuildLocals
    <2>3. pages \in Seq(FilledPages)
      BY <1>1, FillPagesType DEF BuildLocals
    <2>4. ASSUME ExactBuild(r) PROVE ExactSoFar("page", new)'
      <3>1. Len(new.rest) = 0 /\ Len(pages) \in Nat
        BY <1>4, <2>2, <2>3, <2>4
      <3>2. \A n \in PageNumbers : ~(n <= 0) /\ boardPages'[n] = NoPage
        BY <2>1 DEF PageNumbers
      <3>3. InOrder(open)' = list /\ ExactEntries(b.entries)' /\ b.listed = list /\ Len(b.entries) = Len(list)
        BY <1>2, <1>4, <2>4, SameBoard
      <3> QED
        BY <2>2, <3>1, <3>2, <3>3 DEF ExactSoFar, Reading
    <2> QED
      BY <1>1, <1>2, <2>1, <2>4, AloneKeeps
  <1> QED
    BY <1>5, <1>6

\* A page is written as the entries say; the ones before it stay as they were written.
LEMMA WritePageIsExact ==
    ASSUME PagesInv, ExactInv, NEW r \in Requests, NEW n \in PageNumbers, WritePage(r, n)
    PROVE  ExactInv'
  <1> PICK b : b = build[r]
    OBVIOUS
  <1> PICK list : list = InOrder(open)
    OBVIOUS
  <1>1. b \in BuildLocals /\ build \in [Requests -> BuildLocals] /\ buildPc \in [Requests -> BuildSteps]
        /\ buildPc[r] = "page" /\ n \in Nat \ {0} /\ n = Len(b.rest) + 1 /\ n <= Len(b.pages)
        /\ boardPages \in [PageNumbers -> WrittenPages]
    BY DEF PagesInv, BuildOK, WritePage, PageNumbers
  <1>2. UNCHANGED <<open, replies, images, disturbed>>
    BY DEF WritePage
  <1>3. list \in Seq(open) /\ Len(list) \in Nat
    BY InOrderExact DEF PagesInv, BoardOK
  <1> PICK rest : rest = Append(b.rest, n)
    OBVIOUS
  <1> PICK new : new = [b EXCEPT !.rest = rest]
    OBVIOUS
  <1>4. Len(rest) = n
    BY <1>1, AppendProperties DEF BuildLocals
  <1>5. new.listed = b.listed /\ new.entries = b.entries /\ new.rest = rest /\ new.pages = b.pages
    BY <1>1 DEF BuildLocals
  <1>6. build' = [build EXCEPT ![r] = new] /\ buildPc' = [buildPc EXCEPT ![r] = "page"]
    BY <1>1 DEF WritePage
  <1> PICK numPages : numPages = (Len(b.listed) + ThreadsPerPage - 1) \div ThreadsPerPage
    OBVIOUS
  <1> PICK page : page = [there |-> TRUE, threads |-> b.pages[n].threads, next |-> n < numPages]
    OBVIOUS
  <1>7. boardPages' = [boardPages EXCEPT ![n] = page]
    BY DEF WritePage
  <1>8. ASSUME ExactBuild(r)
        PROVE  /\ b.listed = list /\ ExactEntries(b.entries) /\ Len(b.entries) = Len(list)
               /\ b.pages = FillPages(b.entries)
               /\ \A m \in PageNumbers :
                     IF m <= Len(b.rest) THEN ExactPage(boardPages[m], m) ELSE boardPages[m] = NoPage
    BY <1>1, <1>8 DEF ExactBuild, ExactSoFar
  <1>9. ASSUME ExactBuild(r) PROVE ExactPage(page, n)
    <2>1. b.entries \in Seq(SensibleEntries)
      BY <1>1 DEF BuildLocals
    <2>2. /\ DOMAIN page.threads = PlacesOn(n, Len(list))
          /\ \A i \in PlacesOn(n, Len(list)) : page.threads[i] = b.entries[Place(n, i)]
      BY <1>1, <1>8, <1>9, <2>1, FillPagesExact
    <2>3. ASSUME NEW i \in PlacesOn(n, Len(list)) PROVE Place(n, i) \in 1..Len(b.entries)
      <3>1. i \in 1..ThreadsPerPage /\ Place(n, i) <= Len(list)
        BY DEF PlacesOn
      <3>2. (n - 1) * ThreadsPerPage \in Nat
        BY <1>1, PlacesBefore
      <3>3. Place(n, i) \in Nat \ {0}
        BY <3>1, <3>2 DEF Place
      <3> QED
        BY <1>3, <1>8, <1>9, <3>1, <3>3
    <2>4. \A i \in PlacesOn(n, Len(list)) : page.threads[i] = ExactEntry(list[Place(n, i)])
      BY <1>8, <1>9, <2>2, <2>3 DEF ExactEntries
    <2>5. page.next <=> Place(n + 1, 1) <= Len(list)
      BY <1>1, <1>3, <1>8, <1>9, NextPage
    <2> QED
      BY <2>2, <2>4, <2>5 DEF ExactPage
  <1>10. ASSUME ExactBuild(r) PROVE ExactSoFar("page", new)'
    <2>1. ASSUME NEW m \in PageNumbers
          PROVE  IF m <= Len(rest) THEN ExactPage(boardPages'[m], m) ELSE boardPages'[m] = NoPage
      <3>1. m \in Nat /\ Len(b.rest) = n - 1
        BY <1>1 DEF PageNumbers, BuildLocals
      <3>2. CASE m = n
        <4>1. boardPages'[m] = page /\ ExactPage(page, m)
          BY <1>1, <1>7, <1>9, <1>10, <3>2
        <4>2. m <= Len(rest)
          BY <1>1, <1>4, <3>1, <3>2
        <4> QED
          BY <4>1, <4>2
      <3>3. CASE m # n
        <4>1. m <= Len(rest) <=> m <= Len(b.rest)
          BY <1>1, <1>4, <3>1, <3>3
        <4> QED
          BY <1>1, <1>7, <1>8, <1>10, <3>3, <4>1
      <3> QED
        BY <3>2, <3>3
    <2>2. \A m \in PageNumbers :
             IF m <= Len(rest) THEN ExactPage(boardPages[m], m)' ELSE boardPages'[m] = NoPage
      BY <1>2, <2>1, SameBoard
    <2>3. InOrder(open)' = list /\ ExactEntries(b.entries)'
      BY <1>2, <1>8, <1>10, SameBoard
    <2> QED
      BY <1>1, <1>4, <1>5, <1>8, <1>10, <2>2, <2>3 DEF ExactSoFar, Reading
  <1> QED
    BY <1>1, <1>2, <1>6, <1>10, AloneKeeps

\* A build that skips a page counts as disturbed, and no other build is undisturbed beside it.
LEMMA SkipPageIsExact ==
    ASSUME PagesInv, ExactInv, NEW r \in Requests, SkipPage(r)
    PROVE  ExactInv'
  <1>1. /\ buildPc[r] = "page" /\ disturbed' = disturbed \cup {r}
        /\ UNCHANGED <<open, replies, images, buildPc>>
    BY DEF SkipPage
  <1>2. \A q \in Requests \ disturbed' : buildPc'[q] = "idle"
    BY <1>1 DEF ExactInv, ExactBuild
  <1> QED
    BY <1>1, <1>2 DEF ExactInv, ImagesHavePosts

\* When all pages are written, every page of the board is what it should be.
LEMMA CatalogIsExact ==
    ASSUME PagesInv, ExactInv, NEW r \in Requests, WriteCatalogJSON(r)
    PROVE  ExactInv'
  <1> PICK b : b = build[r]
    OBVIOUS
  <1>1. b \in BuildLocals /\ build \in [Requests -> BuildLocals] /\ buildPc[r] = "page"
        /\ Len(b.rest) = Len(b.pages)
    BY DEF PagesInv, BuildOK, WriteCatalogJSON
  <1>2. UNCHANGED <<open, replies, images, disturbed, boardPages>>
    BY DEF WriteCatalogJSON
  <1>3. buildPc' = [buildPc EXCEPT ![r] = "frontPage"] /\ build' = [build EXCEPT ![r] = b]
    BY <1>1 DEF WriteCatalogJSON, BuildGoto
  <1>4. Len(InOrder(open)) \in Nat
    BY InOrderExact DEF PagesInv, BoardOK
  <1>5. ASSUME ExactBuild(r), NEW n \in PageNumbers PROVE ExactPage(boardPages[n], n)
    <2>1. /\ Len(b.entries) = Len(InOrder(open)) /\ b.pages = FillPages(b.entries)
          /\ IF n <= Len(b.rest) THEN ExactPage(boardPages[n], n) ELSE boardPages[n] = NoPage
      BY <1>1, <1>5 DEF ExactBuild, ExactSoFar
    <2>2. CASE n <= Len(b.rest)
      BY <2>1, <2>2
    <2>3. CASE ~(n <= Len(b.rest))
      <3>1. n \in Nat \ {0} /\ b.entries \in Seq(SensibleEntries)
        BY <1>1 DEF PageNumbers, BuildLocals
      <3>2. ~(Place(n, 1) <= Len(InOrder(open)))
        BY <1>1, <2>1, <2>3, <3>1, FillPagesExact
      <3>3. Place(n, 1) \in Int
        <4>1. (n - 1) * ThreadsPerPage \in Nat
          BY <3>1, PlacesBefore
        <4> QED
          BY <4>1 DEF Place
      <3>4. Place(n, 1) > Len(InOrder(open))
        BY <1>4, <3>2, <3>3
      <3>5. boardPages[n].threads = <<>> /\ boardPages[n].next = FALSE
        BY <2>1, <2>3 DEF NoPage
      <3> QED
        BY <1>4, <3>1, <3>4, <3>5, PagePastTheList, Zenon
    <2> QED
      BY <2>2, <2>3
  <1>6. ASSUME ExactBuild(r) PROVE ExactSoFar("frontPage", b)'
    BY <1>2, <1>5, <1>6, SameBoard DEF ExactSoFar, Reading
  <1> QED
    BY <1>1, <1>2, <1>3, <1>6, AloneKeeps

\* The front page and the catalog come after the pages.
LEMMA FrontPageIsExact ==
    ASSUME PagesInv, ExactInv, NEW r \in Requests,
           OpenFrontPage(r) \/ WriteFrontPage(r) \/ OpenCatalog(r) \/ WriteCatalog(r) \/ BuildFails(r)
    PROVE  ExactInv'
  <1>1. /\ UNCHANGED <<open, replies, images>> /\ disturbed \subseteq disturbed' /\ buildPc[r] # "idle"
        /\ build \in [Requests -> BuildLocals]
    BY DEF OpenFrontPage, WriteFrontPage, OpenCatalog, WriteCatalog, BuildFails, PagesInv, BuildOK
  <1>2. CASE BuildDone(r)
    <2>1. buildPc' = [buildPc EXCEPT ![r] = "idle"] /\ build' = [build EXCEPT ![r] = NoBuild]
      BY <1>2 DEF BuildDone, BuildGoto
    <2> QED
      BY <1>1, <2>1, AloneKeeps
  <1>3. CASE ~BuildDone(r)
    <2>1. PICK step \in {"writeFront", "catalog", "writeCatalog"} : BuildGoto(r, step) /\ UNCHANGED build
      BY <1>3 DEF OpenFrontPage, WriteFrontPage, OpenCatalog, WriteCatalog, BuildFails
    <2> PICK b : b = build[r]
      OBVIOUS
    <2>2. buildPc' = [buildPc EXCEPT ![r] = step] /\ build' = [build EXCEPT ![r] = b]
      BY <1>1, <2>1 DEF BuildGoto
    <2>3. ExactSoFar(step, b)'
      BY DEF ExactSoFar, Reading
    <2> QED
      BY <1>1, <2>2, <2>3, AloneKeeps
  <1> QED
    BY <1>2, <1>3

\* The invariant of undisturbed builds holds throughout.
LEMMA ExactInvariant == PagesSpec => []ExactInv
  <1>1. PagesInit => ExactInv
    BY DEF PagesInit, ExactInv, ImagesHavePosts
  <1>2. PagesInv /\ ExactInv /\ [PagesNext]_pageVars => ExactInv'
    <2> SUFFICES ASSUME PagesInv, ExactInv, [PagesNext]_pageVars PROVE ExactInv'
      OBVIOUS
    <2>1. CASE \E t \in Discussions, p \in ReplyNumbers :
                  RemoveReply(t, p) \/ \E withFile \in BOOLEAN : AddReply(t, p, withFile)
      BY <2>1, ChangeKeepsExact
    <2>2. ASSUME NEW t \in Discussions, RemoveThread(t) PROVE ExactInv'
      <3>1. \A r \in Requests \ disturbed' : buildPc'[r] = "idle"
        BY <2>2 DEF RemoveThread, BoardChanges, Builders
      <3> QED
        BY <2>2, <3>1 DEF RemoveThread, ExactInv, ImagesHavePosts
    <2>3. ASSUME NEW r \in Requests,
                 \/ StartPages(r) \/ ReadReplyCount(r) \/ ReadPosts(r) \/ ReadUploads(r)
                 \/ CleanPages(r) \/ WriteCatalogJSON(r)
                 \/ SkipPage(r) \/ \E n \in PageNumbers : WritePage(r, n)
                 \/ OpenFrontPage(r) \/ WriteFrontPage(r) \/ OpenCatalog(r) \/ WriteCatalog(r)
                 \/ BuildFails(r)
          PROVE  ExactInv'
      BY <2>3, StartPagesIsExact, ReadsAreExact, CleanPagesIsExact, WritePageIsExact, SkipPageIsExact,
         CatalogIsExact, FrontPageIsExact
    <2>4. CASE UNCHANGED pageVars
      <3>1. UNCHANGED <<open, replies, images, disturbed, boardPages, buildPc, build>>
        BY <2>4 DEF pageVars
      <3>2. ImagesHavePosts'
        BY <3>1 DEF ExactInv, ImagesHavePosts
      <3>3. ASSUME NEW r \in Requests \ disturbed', buildPc'[r] # "idle" PROVE ExactBuild(r)'
        <4> PICK pc, b : pc = buildPc[r] /\ b = build[r]
          OBVIOUS
        <4>1. ExactBuild(r)
          BY <3>1, <3>3 DEF ExactInv
        <4>2. ExactSoFar(pc, b)'
          BY <3>1, <4>1, SameBoard DEF ExactBuild, ExactSoFar
        <4> QED
          BY <3>1, <4>1, <4>2 DEF ExactBuild
      <3> QED
        BY <3>2, <3>3 DEF ExactInv
    <2> QED
      BY <2>1, <2>2, <2>3, <2>4 DEF PagesNext
  <1> QED
    BY <1>1, <1>2, PagesInvariant, PTL DEF PagesSpec

\* The entry at a place of an exact page is that of the thread at this place of the list.
LEMMA EntryOfPlace ==
    ASSUME PagesInv, NEW n \in PageNumbers, ExactPage(boardPages[n], n), NEW i
    PROVE  /\ i \in DOMAIN boardPages[n].threads
                 <=> i \in 1..ThreadsPerPage /\ Place(n, i) \in 1..Cardinality(open)
           /\ i \in DOMAIN boardPages[n].threads =>
                 /\ boardPages[n].threads[i] = ExactEntry(InOrder(open)[Place(n, i)])
                 /\ boardPages[n].threads[i].thread = InOrder(open)[Place(n, i)]
                 /\ InOrder(open)[Place(n, i)] \in open
  <1> PICK list : list = InOrder(open)
    OBVIOUS
  <1>1. list \in Seq(open) /\ Len(list) = Cardinality(open) /\ Len(list) \in Nat
    BY InOrderExact DEF PagesInv, BoardOK
  <1>2. /\ i \in DOMAIN boardPages[n].threads <=> i \in 1..ThreadsPerPage /\ Place(n, i) <= Len(list)
        /\ i \in DOMAIN boardPages[n].threads => boardPages[n].threads[i] = ExactEntry(list[Place(n, i)])
    BY DEF ExactPage, PlacesOn
  <1>3. ASSUME i \in 1..ThreadsPerPage PROVE Place(n, i) \in Nat \ {0}
    <2>1. (n - 1) * ThreadsPerPage \in Nat
      BY FinitePosts DEF PageNumbers
    <2> QED
      BY <1>3, <2>1 DEF Place
  <1>4. \A t : ExactEntry(t).thread = t
    BY DEF ExactEntry, Entry
  <1>5. ASSUME i \in DOMAIN boardPages[n].threads
        PROVE  i \in 1..ThreadsPerPage /\ Place(n, i) \in 1..Cardinality(open) /\ list[Place(n, i)] \in open
    BY <1>1, <1>2, <1>3, <1>5
  <1>6. ASSUME i \in 1..ThreadsPerPage, Place(n, i) \in 1..Cardinality(open)
        PROVE  i \in DOMAIN boardPages[n].threads
    BY <1>1, <1>2, <1>6
  <1> QED
    BY <1>2, <1>4, <1>5, <1>6

\* If all pages are exact, each thread that is open has one place on them, another one has none.
LEMMA OnePlaceForAThread ==
    ASSUME PagesInv, \A n \in PageNumbers : ExactPage(boardPages[n], n), NEW t \in Discussions
    PROVE  Cardinality({place \in PageNumbers \X (1..ThreadsPerPage) :
                          /\ place[2] \in DOMAIN boardPages[place[1]].threads
                          /\ boardPages[place[1]].threads[place[2]].thread = t})
              = (IF t \in open THEN 1 ELSE 0)
  <1> DEFINE places == {place \in PageNumbers \X (1..ThreadsPerPage) :
                          /\ place[2] \in DOMAIN boardPages[place[1]].threads
                          /\ boardPages[place[1]].threads[place[2]].thread = t}
  <1> PICK list : list = InOrder(open)
    OBVIOUS
  <1> PICK len : len = Cardinality(open)
    OBVIOUS
  <1>1. open \in SUBSET Discussions
    BY DEF PagesInv, BoardOK
  <1>2. /\ \A i, j \in 1..len : list[i] = list[j] => i = j
        /\ \A u \in open : \E k \in 1..len : list[k] = u
    BY <1>1, InOrderExact
  <1>3. ASSUME NEW n \in PageNumbers, NEW i \in 1..ThreadsPerPage
        PROVE  <<n, i>> \in places <=> Place(n, i) \in 1..len /\ list[Place(n, i)] = t
    BY EntryOfPlace
  <1>4. \A place \in places : \E n \in PageNumbers, i \in 1..ThreadsPerPage : place = <<n, i>>
    OBVIOUS
  <1> HIDE DEF places
  <1>5. CASE t \notin open
    <2>1. ASSUME NEW n \in PageNumbers, NEW i \in 1..ThreadsPerPage PROVE <<n, i>> \notin places
      <3>1. Place(n, i) \in 1..len => list[Place(n, i)] \in open
        <4>1. list \in Seq(open) /\ Len(list) = len
          BY <1>1, InOrderExact
        <4> QED
          BY <4>1
      <3> QED
        BY <1>3, <1>5, <3>1
    <2>2. places = {}
      BY <1>4, <2>1
    <2> QED
      BY <1>5, <2>2, FS_EmptySet DEF places
  <1>6. CASE t \in open
    <2>1. PICK k \in 1..len : list[k] = t
      BY <1>2, <1>6
    <2>2. len \in Nat /\ len <= Cardinality(Discussions) /\ Cardinality(Discussions) \in Nat
      BY <1>1, FinitePosts, FS_Subset, FS_CardinalityType
    <2>3. k \in Nat \ {0}
      BY <2>2
    <2>4. PICK n \in 1..k, i \in 1..ThreadsPerPage : k = Place(n, i)
      BY <2>3, PlaceExists
    <2>5. n \in PageNumbers
      BY <2>2 DEF PageNumbers
    <2>6. <<n, i>> \in places
      BY <1>3, <2>1, <2>4, <2>5
    <2>7. ASSUME NEW m \in PageNumbers, NEW j \in 1..ThreadsPerPage, <<m, j>> \in places
          PROVE  <<m, j>> = <<n, i>>
      <3>1. Place(m, j) = Place(n, i)
        BY <1>2, <1>3, <2>1, <2>4, <2>7
      <3>2. m \in Nat \ {0} /\ n \in Nat \ {0}
        BY <2>5 DEF PageNumbers
      <3> QED
        BY <3>1, <3>2, OnePlace
    <2>8. places = {<<n, i>>}
      BY <1>4, <2>6, <2>7
    <2> QED
      BY <1>6, <2>8, FS_Singleton DEF places
  <1> QED
    BY <1>5, <1>6

\* The first place of a page comes after all places of the one before it, and no page comes after
\* the place with its own number.
LEMMA PagesInSequence ==
    ASSUME NEW n \in Nat \ {0}
    PROVE  /\ \A i \in 1..ThreadsPerPage : Place(n, i) \in Nat /\ Place(n, i) < Place(n + 1, 1)
           /\ \A i, j \in 1..ThreadsPerPage : Place(n, i) < Place(n + 1, j)
           /\ \A i, j \in 1..ThreadsPerPage : i < j => Place(n, i) < Place(n, j)
           /\ n + 1 <= Place(n + 1, 1) /\ Place(n + 1, 1) \in Nat
  <1>1. ThreadsPerPage \in Nat \ {0}
    BY FinitePosts
  <1> PICK before : before = (n - 1) * ThreadsPerPage
    OBVIOUS
  <1>2. before \in Nat /\ n * ThreadsPerPage = before + ThreadsPerPage
    BY <1>1
  <1>3. \A i : Place(n, i) = before + i /\ Place(n + 1, i) = before + ThreadsPerPage + i
    BY <1>2 DEF Place
  <1>4. n - 1 <= before
    BY <1>1
  <1> QED
    BY <1>1, <1>2, <1>3, <1>4

\* However many threads and replies a board has: a build during which nobody posts, deletes or builds
\* puts every thread on one page, in order, says of each exactly what it does not show, and links to
\* the pages there are (BuildBoardPages, fillPages).
THEOREM UndisturbedBuildIsExactCorrect == PagesSpec => []UndisturbedBuildIsExact
  <1>1. PagesInv /\ ExactInv => UndisturbedBuildIsExact
    <2> SUFFICES ASSUME PagesInv, ExactInv, NEW r \in Requests, buildPc[r] = "frontPage", r \notin disturbed
                 PROVE  UndisturbedBuildIsExact!(r)!2
      BY DEF UndisturbedBuildIsExact
    <2> PICK list : list = InOrder(open)
      OBVIOUS
    <2> PICK len : len = Cardinality(open)
      OBVIOUS
    <2>1. \A n \in PageNumbers : ExactPage(boardPages[n], n)
      BY DEF ExactInv, ExactBuild, ExactSoFar
    <2>2. open \in SUBSET Discussions
      BY DEF PagesInv, BoardOK
    <2>3. /\ len \in Nat /\ Len(list) = len /\ len <= Cardinality(Discussions) /\ Cardinality(Discussions) \in Nat
          /\ \A i, j \in 1..len : i < j => list[i] < list[j]
      BY <2>2, InOrderExact, FinitePosts, FS_Subset, FS_CardinalityType
    <2>4. ASSUME NEW n \in PageNumbers, NEW i \in DOMAIN boardPages[n].threads
          PROVE  /\ i \in 1..ThreadsPerPage /\ Place(n, i) \in 1..len /\ list[Place(n, i)] \in open
                 /\ boardPages[n].threads[i] = ExactEntry(list[Place(n, i)])
                 /\ boardPages[n].threads[i].thread = list[Place(n, i)]
      BY <2>1, EntryOfPlace
    <2>5. ASSUME NEW n \in PageNumbers, boardPages[n].next
          PROVE  boardPages[n + 1].there /\ Len(boardPages[n].threads) = ThreadsPerPage
      <3>1. n \in Nat \ {0} /\ Place(n + 1, 1) <= len
        BY <2>1, <2>3, <2>5 DEF ExactPage, PageNumbers
      <3>2. n + 1 \in PageNumbers
        BY <2>3, <3>1, PagesInSequence DEF PageNumbers
      <3>3. boardPages[n + 1].there
        BY <2>1, <2>3, <3>1, <3>2 DEF ExactPage
      <3>4. PlacesOn(n, len) = 1..ThreadsPerPage
        <4>1. ASSUME NEW i \in 1..ThreadsPerPage PROVE Place(n, i) <= len
          <5>1. Place(n, i) \in Nat /\ Place(n, i) < Place(n + 1, 1) /\ Place(n + 1, 1) \in Nat
            BY <3>1, PagesInSequence
          <5> QED
            BY <2>3, <3>1, <5>1
        <4> QED
          BY <4>1 DEF PlacesOn
      <3>5. boardPages[n].threads \in Seq(SensibleEntries) /\ DOMAIN boardPages[n].threads = 1..ThreadsPerPage
        BY <2>1, <2>3, <3>4 DEF ExactPage, PagesInv, WrittenPages, PageThreads
      <3>6. Len(boardPages[n].threads) = ThreadsPerPage
        BY <3>5, FinitePosts, LenProperties
      <3> QED
        BY <3>3, <3>6
    <2>6. ASSUME NEW n \in PageNumbers, NEW e \in EntriesOn(n)
          PROVE  /\ e.omittedPosts = Cardinality(replies[e.thread] \ e.posts)
                 /\ e.omittedImages = Cardinality(images[e.thread] \ e.posts)
      <3>1. PICK i \in DOMAIN boardPages[n].threads : e = boardPages[n].threads[i]
        BY DEF EntriesOn
      <3>2. PICK t : t = list[Place(n, i)]
        OBVIOUS
      <3>3. PICK R, uploads : R = replies[t] /\ uploads = images[t]
        OBVIOUS
      <3>4. t \in open /\ e = ExactEntry(t) /\ e.thread = t
        BY <2>4, <3>1, <3>2
      <3>5. t \in Discussions /\ R \in SUBSET ReplyNumbers /\ uploads \in SUBSET ({OP} \cup R)
        BY <2>2, <3>3, <3>4 DEF PagesInv, BoardOK, ExactInv, ImagesHavePosts
      <3>6. e = Entry(t, Cardinality(R), {OP} \cup R, uploads)
        BY <3>3, <3>4 DEF ExactEntry, ThreadPosts
      <3>7. e.omittedPosts = Cardinality(R \ e.posts) /\ e.omittedImages = Cardinality(uploads \ e.posts)
        BY <3>5, <3>6, EntryIsExact
      <3> QED
        BY <3>3, <3>4, <3>7
    <2>7. ASSUME NEW n \in PageNumbers, NEW i \in DOMAIN boardPages[n].threads, i > 1
          PROVE  boardPages[n].threads[i - 1].thread < boardPages[n].threads[i].thread
      <3>1. i \in 1..ThreadsPerPage /\ i - 1 \in 1..ThreadsPerPage /\ n \in Nat \ {0} /\ i - 1 < i
        BY <2>4, <2>7, FinitePosts DEF PageNumbers
      <3>2. boardPages[n].threads \in Seq(SensibleEntries)
        BY DEF PagesInv, WrittenPages, PageThreads
      <3>3. i - 1 \in DOMAIN boardPages[n].threads
        BY <2>7, <3>1, <3>2
      <3>4. Place(n, i - 1) < Place(n, i)
        BY <3>1, PagesInSequence
      <3> QED
        BY <2>3, <2>4, <3>3, <3>4
    <2>8. ASSUME NEW n \in PageNumbers, n > 1, NEW e \in EntriesOn(n), NEW f \in EntriesOn(n - 1)
          PROVE  f.thread < e.thread
      <3>1. n - 1 \in PageNumbers /\ n - 1 \in Nat \ {0} /\ (n - 1) + 1 = n
        BY <2>8, <2>3 DEF PageNumbers
      <3>2. PICK i \in DOMAIN boardPages[n].threads : e = boardPages[n].threads[i]
        BY DEF EntriesOn
      <3>3. PICK j \in DOMAIN boardPages[n - 1].threads : f = boardPages[n - 1].threads[j]
        BY DEF EntriesOn
      <3>4. /\ i \in 1..ThreadsPerPage /\ Place(n, i) \in 1..len /\ e.thread = list[Place(n, i)]
            /\ j \in 1..ThreadsPerPage /\ Place(n - 1, j) \in 1..len /\ f.thread = list[Place(n - 1, j)]
        BY <2>4, <3>1, <3>2, <3>3
      <3>5. Place(n - 1, j) < Place(n, i)
        BY <3>1, <3>4, PagesInSequence
      <3> QED
        BY <2>3, <3>4, <3>5
    <2> QED
      BY <2>1, <2>5, <2>6, <2>7, <2>8, OnePlaceForAThread
  <1> QED
    BY <1>1, PagesInvariant, ExactInvariant, PTL
===============================================================================
