------------------------------ MODULE BoardPages ------------------------------
(***************************************************************************)
(* pkg/building: the pages of a board, catalog.json, the catalog and the    *)
(* front page.  BuildBoardPages collects what a page shows by a query per   *)
(* thread and figure, while other requests post and delete; it then removes *)
(* the old pages and writes the new ones.  Several builds may run at once.  *)
(***************************************************************************)
EXTENDS Handlers, Sequences

CONSTANTS
    Discussions,            \* the threads of the board: numbers, newest bump first
    ReplyNumbers,           \* the replies a thread may have: numbers, oldest first
    RepliesOnBoardPage,     \* per thread: RepliesOnBoardPage or StickyRepliesOnBoardPage
    ThreadsPerPage,
    FirstReplies,           \* the sets of replies the threads may start with, per thread
    MaxChanges              \* bound: posts and deletions while pages are built

ASSUME PagesAssumption ==
    /\ Discussions \subseteq Nat \ {0} /\ ReplyNumbers \subseteq Nat \ {0}
    /\ RepliesOnBoardPage \in [Discussions -> Nat]
    /\ ThreadsPerPage \in Nat \ {0} /\ MaxChanges \in Nat
    /\ FirstReplies \subseteq [Discussions -> SUBSET ReplyNumbers]
ASSUME FinitePagesAssumption == IsFiniteSet(Discussions) /\ IsFiniteSet(ReplyNumbers)

OP == 0
PageNumbers == 1..Cardinality(Discussions)

VARIABLES
    open,       \* the threads that are not deleted
    replies,    \* replies[t]: the replies that are not deleted
    images,     \* images[t]: the posts of the thread with a row in files
    boardPages, \* boardPages[n]: contents of <n>.html
    catalogJSON,
    catalogHTML, frontPage,     \* the threads they list, or "empty"
    buildPc, build,             \* build[r]: what the build has read
    changes,
    disturbed   \* history: builds during which the board changed or another build ran

pageVars == <<open, replies, images, boardPages, catalogJSON, catalogHTML, frontPage, buildPc, build,
              changes, disturbed>>

NoPage == [there |-> FALSE, threads |-> <<>>, next |-> FALSE]
NoBuild == [listed |-> <<>>, count |-> 0, posts |-> {}, rest |-> <<>>, entries |-> <<>>, pages |-> <<>>]
BuildSteps == {"idle", "replyCount", "posts", "uploads", "clean", "page", "frontPage", "writeFront",
               "catalog", "writeCatalog"}

PagesTypeOK ==
    /\ open \subseteq Discussions
    /\ replies \in [Discussions -> SUBSET ReplyNumbers]
    /\ images \in [Discussions -> SUBSET (ReplyNumbers \cup {OP})]
    /\ DOMAIN boardPages = PageNumbers
    /\ \A n \in PageNumbers : Len(boardPages[n].threads) <= ThreadsPerPage
    /\ buildPc \in [Requests -> BuildSteps]
    /\ changes \in 0..MaxChanges
    /\ disturbed \subseteq Requests

PagesInit ==
    /\ open = Discussions
    /\ replies \in FirstReplies
    /\ images = [t \in Discussions |-> {OP}]
    /\ boardPages = [n \in PageNumbers |-> NoPage]
    /\ catalogJSON = <<>>
    /\ catalogHTML = {} /\ frontPage = {}
    /\ buildPc = [r \in Requests |-> "idle"]
    /\ build = [r \in Requests |-> NoBuild]
    /\ changes = 0
    /\ disturbed = {}

-----------------------------------------------------------------------------
Builders == {r \in Requests : buildPc[r] # "idle"}

\* The threads in the order of the query
InOrder(T) ==
    CHOOSE s \in [1..Cardinality(T) -> T] : \A i, j \in 1..Cardinality(T) : i < j => s[i] < s[j]

\* getThreadPosts: nothing when the thread was deleted meanwhile
ThreadPosts(t) == IF t \in open THEN {OP} \cup replies[t] ELSE {}

\* The OP and the last n replies
LastReplies(P, n) == {p \in P : p # OP /\ Cardinality({q \in P : q > p}) < n}

\* Variant: the images are counted before the posts are cut.
Entry_CountsAll(t, replyCount, posts, uploads) ==
    LET max == RepliesOnBoardPage[t]
        shown == IF Cardinality(posts) > max THEN {OP} \cup LastReplies(posts, max) ELSE posts
    IN  [thread |-> t, posts |-> shown,
         omittedPosts |-> replyCount - Cardinality(shown),
         omittedImages |-> Cardinality(uploads) - Cardinality(uploads \cap posts)]

\* The posts shown, and the numbers below a thread on its page.  replyCount and uploads come from
\* queries of their own.
Entry(t, replyCount, posts, uploads) ==
    LET max == RepliesOnBoardPage[t]
        shown == IF Cardinality(posts) > max THEN {OP} \cup LastReplies(posts, max) ELSE posts
        omits == replyCount > max
    IN  [thread |-> t, posts |-> shown,
         omittedPosts |-> IF omits THEN replyCount - Cardinality(shown) + 1 ELSE 0,
         omittedImages |-> IF omits THEN Cardinality(uploads) - Cardinality(uploads \cap shown) ELSE 0]

\* Variant: no page for the remainder.
FillPages_FullPagesOnly(entries) ==
    [i \in 1..(Len(entries) \div ThreadsPerPage) |->
        [num |-> i, threads |-> SubSeq(entries, (i - 1) * ThreadsPerPage + 1, i * ThreadsPerPage)]]

\* fillPages: full pages, then one for the remainder, which is numbered like the last full page:
\* after the loop the index is that of its last round.
FillPages(entries) ==
    LET full == Len(entries) \div ThreadsPerPage
        remainder == Len(entries) % ThreadsPerPage
        fullPages == [i \in 1..full |->
            [num |-> i, threads |-> SubSeq(entries, (i - 1) * ThreadsPerPage + 1, i * ThreadsPerPage)]]
    IN  IF remainder = 0 THEN fullPages
        ELSE Append(fullPages, [num |-> IF full = 0 THEN 1 ELSE full,
                                threads |-> SubSeq(entries, Len(entries) - remainder + 1, Len(entries))])

-----------------------------------------------------------------------------
(* Other requests. *)

BoardChanges ==
    /\ changes < MaxChanges
    /\ changes' = changes + 1
    /\ disturbed' = disturbed \cup Builders
    /\ UNCHANGED <<boardPages, catalogJSON, catalogHTML, frontPage, buildPc, build>>

AddReply(t, p, withFile) ==
    /\ BoardChanges
    /\ t \in open /\ p \notin replies[t]
    /\ replies' = [replies EXCEPT ![t] = @ \cup {p}]
    /\ images' = IF withFile THEN [images EXCEPT ![t] = @ \cup {p}] ELSE images
    /\ UNCHANGED open

RemoveReply(t, p) ==
    /\ BoardChanges
    /\ p \in replies[t]
    /\ replies' = [replies EXCEPT ![t] = @ \ {p}]
    /\ images' = [images EXCEPT ![t] = @ \ {p}]
    /\ UNCHANGED open

RemoveThread(t) ==
    /\ BoardChanges
    /\ t \in open
    /\ open' = open \ {t}
    /\ UNCHANGED <<replies, images>>

-----------------------------------------------------------------------------
(* BuildBoardPages *)

BuildGoto(r, step) == buildPc' = [buildPc EXCEPT ![r] = step]
BuildDone(r) ==
    /\ BuildGoto(r, "idle")
    /\ build' = [build EXCEPT ![r] = NoBuild]

\* board.GetThreads
StartPages(r) ==
    /\ buildPc[r] = "idle"
    /\ build' = [build EXCEPT ![r] = [NoBuild EXCEPT !.listed = InOrder(open), !.rest = InOrder(open)]]
    /\ BuildGoto(r, IF open = {} THEN "clean" ELSE "replyCount")
    /\ disturbed' = IF Builders = {} THEN {} ELSE disturbed \cup Builders \cup {r}
    /\ UNCHANGED <<open, replies, images, boardPages, catalogJSON, catalogHTML, frontPage, changes>>

\* thread.GetReplyCount
ReadReplyCount(r) ==
    /\ buildPc[r] = "replyCount"
    /\ build' = [build EXCEPT ![r].count = Cardinality(replies[Head(build[r].rest)])]
    /\ BuildGoto(r, "posts")
    /\ UNCHANGED <<open, replies, images, boardPages, catalogJSON, catalogHTML, frontPage, changes, disturbed>>

\* getThreadPosts: a thread without posts is left out.
ReadPosts(r) ==
    LET rest == Tail(build[r].rest)
        posts == ThreadPosts(Head(build[r].rest)) IN
    /\ buildPc[r] = "posts"
    /\ IF posts = {}
       THEN /\ build' = [build EXCEPT ![r].rest = rest]
            /\ BuildGoto(r, IF rest = <<>> THEN "clean" ELSE "replyCount")
       ELSE /\ build' = [build EXCEPT ![r].posts = posts]
            /\ BuildGoto(r, "uploads")
    /\ UNCHANGED <<open, replies, images, boardPages, catalogJSON, catalogHTML, frontPage, changes, disturbed>>

\* thread.GetUploads, then the entry of the thread.
ReadUploads(r) ==
    LET b == build[r]
        t == Head(b.rest) IN
    /\ buildPc[r] = "uploads"
    /\ build' = [build EXCEPT ![r].rest = Tail(b.rest),
                              ![r].entries = Append(@, Entry(t, b.count, b.posts, images[t]))]
    /\ BuildGoto(r, IF Tail(b.rest) = <<>> THEN "clean" ELSE "replyCount")
    /\ UNCHANGED <<open, replies, images, boardPages, catalogJSON, catalogHTML, frontPage, changes, disturbed>>

\* DeleteMatchingFiles(..., "\\d.html$").  A board without threads gets an empty page 1, and its
\* catalog.json stays; otherwise catalog.json is opened, and written after the pages.
CleanPages(r) ==
    /\ buildPc[r] = "clean"
    /\ IF build[r].listed = <<>>
       THEN /\ boardPages' = [[n \in PageNumbers |-> NoPage] EXCEPT ![1].there = TRUE]
            /\ BuildGoto(r, "frontPage")
            /\ UNCHANGED <<catalogJSON, build>>
       ELSE /\ boardPages' = [n \in PageNumbers |-> NoPage]
            /\ catalogJSON' = <<>>
            /\ build' = [build EXCEPT ![r].pages = FillPages(build[r].entries)]
            /\ BuildGoto(r, "page")
    /\ UNCHANGED <<open, replies, images, catalogHTML, frontPage, changes, disturbed>>

\* One round of the loop over catalog.pages; the count of pages is that of the threads listed.
WritePage(r, n) ==
    LET pages == build[r].pages
        numPages == (Len(build[r].listed) + ThreadsPerPage - 1) \div ThreadsPerPage IN
    /\ buildPc[r] = "page"
    /\ n = Len(build[r].rest) + 1 /\ n <= Len(pages)
    /\ boardPages' = [boardPages EXCEPT ![n] = [there |-> TRUE, threads |-> pages[n].threads, next |-> n < numPages]]
    /\ build' = [build EXCEPT ![r].rest = Append(@, n)]
    /\ UNCHANGED <<open, replies, images, catalogJSON, catalogHTML, frontPage, buildPc, changes, disturbed>>

\* The file of a page cannot be opened: the loop goes on without it.
SkipPage(r) ==
    /\ MayFail
    /\ buildPc[r] = "page" /\ Len(build[r].rest) < Len(build[r].pages)
    /\ build' = [build EXCEPT ![r].rest = Append(@, Len(@) + 1)]
    /\ disturbed' = disturbed \cup {r}
    /\ UNCHANGED <<open, replies, images, boardPages, catalogJSON, catalogHTML, frontPage, buildPc, changes>>

WriteCatalogJSON(r) ==
    /\ buildPc[r] = "page" /\ Len(build[r].rest) = Len(build[r].pages)
    /\ catalogJSON' = build[r].pages
    /\ BuildGoto(r, "frontPage")
    /\ UNCHANGED <<open, replies, images, boardPages, catalogHTML, frontPage, build, changes, disturbed>>

\* BuildFrontPage and BuildCatalog open their file with O_TRUNC before they query what to write.
OpenFrontPage(r) ==
    /\ buildPc[r] = "frontPage"
    /\ frontPage' = {}
    /\ BuildGoto(r, "writeFront")
    /\ UNCHANGED <<open, replies, images, boardPages, catalogJSON, catalogHTML, build, changes, disturbed>>

WriteFrontPage(r) ==
    /\ buildPc[r] = "writeFront"
    /\ frontPage' = open
    /\ \E step \in {"catalog", "idle"} :    \* boardCfg.EnableCatalog
          IF step = "idle" THEN BuildDone(r) ELSE BuildGoto(r, step) /\ UNCHANGED build
    /\ UNCHANGED <<open, replies, images, boardPages, catalogJSON, catalogHTML, changes, disturbed>>

OpenCatalog(r) ==
    /\ buildPc[r] = "catalog"
    /\ catalogHTML' = {}
    /\ BuildGoto(r, "writeCatalog")
    /\ UNCHANGED <<open, replies, images, boardPages, catalogJSON, frontPage, build, changes, disturbed>>

\* The OPs of getBoardTopPosts
WriteCatalog(r) ==
    /\ buildPc[r] = "writeCatalog"
    /\ catalogHTML' = open
    /\ BuildDone(r)
    /\ UNCHANGED <<open, replies, images, boardPages, catalogJSON, frontPage, changes, disturbed>>

\* A query or a file operation fails: the build ends, what it removed or truncated stays so.
BuildFails(r) ==
    /\ MayFail /\ buildPc[r] # "idle"
    /\ BuildDone(r)
    /\ disturbed' = disturbed \cup {r}
    /\ UNCHANGED <<open, replies, images, boardPages, catalogJSON, catalogHTML, frontPage, changes>>

PagesNext ==
    \/ \E t \in Discussions, p \in ReplyNumbers :
          RemoveReply(t, p) \/ \E withFile \in BOOLEAN : AddReply(t, p, withFile)
    \/ \E t \in Discussions : RemoveThread(t)
    \/ \E r \in Requests :
          \/ StartPages(r) \/ ReadReplyCount(r) \/ ReadPosts(r) \/ ReadUploads(r)
          \/ CleanPages(r) \/ WriteCatalogJSON(r)
          \/ SkipPage(r) \/ \E n \in PageNumbers : WritePage(r, n)
          \/ OpenFrontPage(r) \/ WriteFrontPage(r) \/ OpenCatalog(r) \/ WriteCatalog(r)
          \/ BuildFails(r)

PagesSpec == PagesInit /\ [][PagesNext]_pageVars

-----------------------------------------------------------------------------
EntriesOn(n) == {boardPages[n].threads[i] : i \in DOMAIN boardPages[n].threads}

\* Whatever is posted or deleted between the queries of a build, no page shows a negative number of
\* omitted posts or images, more replies than configured, or a thread without its OP.
CountsMakeSense ==
    \A n \in PageNumbers : \A e \in EntriesOn(n) :
       /\ e.omittedPosts >= 0 /\ e.omittedImages >= 0
       /\ OP \in e.posts /\ Cardinality(e.posts) <= RepliesOnBoardPage[e.thread] + 1

\* A build that nothing disturbed puts every thread on one page, in order, with exactly the replies
\* it does not show as omitted, and links from each page but the last.
UndisturbedBuildIsExact ==
    \A r \in Requests : buildPc[r] = "frontPage" /\ r \notin disturbed =>
       LET perPage == [n \in PageNumbers |-> boardPages[n].threads] IN
       /\ \A t \in Discussions :
             Cardinality({place \in PageNumbers \X (1..ThreadsPerPage) :
                            /\ place[2] \in DOMAIN perPage[place[1]]
                            /\ perPage[place[1]][place[2]].thread = t}) = (IF t \in open THEN 1 ELSE 0)
       /\ \A n \in PageNumbers :
             /\ boardPages[n].next => boardPages[n + 1].there /\ Len(perPage[n]) = ThreadsPerPage
             /\ \A e \in EntriesOn(n) :
                   /\ e.omittedPosts = Cardinality(replies[e.thread] \ e.posts)
                   /\ e.omittedImages = Cardinality(images[e.thread] \ e.posts)
             /\ \A i \in DOMAIN perPage[n] : i > 1 => perPage[n][i - 1].thread < perPage[n][i].thread
             /\ \A e \in EntriesOn(n) : \A f \in (IF n > 1 THEN EntriesOn(n - 1) ELSE {}) : f.thread < e.thread

\* catalog.json numbers the pages.
CatalogNumbersPages == \A i \in DOMAIN catalogJSON : catalogJSON[i].num = i
===============================================================================
