------------------------------- MODULE Reports --------------------------------
(***************************************************************************)
(* Reports of posts: HandleReport checks each selected post and inserts a   *)
(* report with its audit row; the reports page dismisses all or selected    *)
(* reports, or blocks further ones, and then deletes the reports of deleted *)
(* posts; the cleanup page removes deleted posts for good.                  *)
(***************************************************************************)
EXTENDS Handlers

CONSTANTS
    ReportedPosts,  \* ids of the posts that exist at the start
    Reasons,
    MaxReportID     \* bound: reports ever inserted

ASSUME ReportedPostsAssumption == ReportedPosts \subseteq Nat \ {0}
ASSUME MaxReportIDAssumption == MaxReportID \in Nat \ {0}
ASSUME ReasonsAssumption == "" \notin Reasons

\* is_cleared
Open == 0
Dismissed == 1
Blocked == 2

ReportIDs == 1..MaxReportID

VARIABLES
    postRow,        \* postRow[p]: is post p live, marked as deleted, or removed for good?
    reports,        \* reports[id]: row of the reports table, or NoReport
    audits,         \* audits[id]: is_cleared of the row of reports_audit with report_id = id, or -1
    nextReport,     \* the next id the table gives
    reportPc,       \* reportPc[r]: the next step of request r
    reportReq,      \* reportReq[r]: what request r still has to do
    stillBlocked    \* history: posts blocked since before request r began

reportVars == <<postRow, reports, audits, nextReport, reportPc, reportReq, stillBlocked>>

ReportLocals == [todo: SUBSET (ReportedPosts \cup ReportIDs), post: ReportedPosts \cup {0},
                 reason: Reasons \cup {""}, clear: Open..Blocked]
NoReport == [post |-> 0, reason |-> "", cleared |-> Open]
NoReportLocals == [todo |-> {}, post |-> 0, reason |-> "", clear |-> Open]

ReportsTypeOK ==
    /\ postRow \in [ReportedPosts -> {"live", "deleted", "removed"}]
    /\ reports \in [ReportIDs -> [post: ReportedPosts \cup {0}, reason: Reasons \cup {""},
                                  cleared: Open..Blocked]]
    /\ audits \in [ReportIDs -> -1..Blocked]
    /\ nextReport \in 1..(MaxReportID + 1)
    /\ reportPc \in [Requests -> {"idle", "check", "create", "clear", "clean"}]
    /\ reportReq \in [Requests -> ReportLocals]
    /\ stillBlocked \in [Requests -> SUBSET ReportedPosts]

ReportsInit ==
    /\ postRow = [p \in ReportedPosts |-> "live"]
    /\ reports = [id \in ReportIDs |-> NoReport]
    /\ audits = [id \in ReportIDs |-> -1]
    /\ nextReport = 1
    /\ reportPc = [r \in Requests |-> "idle"]
    /\ reportReq = [r \in Requests |-> NoReportLocals]
    /\ stillBlocked = [r \in Requests |-> {}]

-----------------------------------------------------------------------------
IsReport(id) == reports[id] # NoReport
PostsIn(state) == {p \in ReportedPosts : postRow[p] = state}
BlockedPosts(table) == {p \in ReportedPosts :
                          \E id \in ReportIDs : table[id].post = p /\ table[id].cleared = Blocked}

\* The rows of the reports table that stay, and with ON DELETE CASCADE those of reports_audit.
KeepReportsOf(posts) ==
    /\ reports' = [id \in ReportIDs |-> IF reports[id].post \in posts THEN reports[id] ELSE NoReport]
    /\ stillBlocked' = [r \in Requests |-> stillBlocked[r] \cap BlockedPosts(reports')]

ReportGoto(r, step) == reportPc' = [reportPc EXCEPT ![r] = step]
ReportDone(r) ==
    /\ ReportGoto(r, "idle")
    /\ reportReq' = [reportReq EXCEPT ![r] = NoReportLocals]

-----------------------------------------------------------------------------
(* HandleReport *)

StartReport(r, posts, reason) ==
    /\ reportPc[r] = "idle"
    /\ posts # {}
    /\ ReportGoto(r, "check")
    /\ reportReq' = [reportReq EXCEPT ![r] = [NoReportLocals EXCEPT !.todo = posts, !.reason = reason]]
    /\ stillBlocked' = [stillBlocked EXCEPT ![r] = BlockedPosts(reports)]
    /\ UNCHANGED <<postRow, reports, audits, nextReport>>

\* CheckPostReports: isDuplicate || isBlocked.
CheckPostReports_IgnoresBlock(p, reason) ==
    \E id \in ReportIDs :
       reports[id].post = p /\ reports[id].reason = reason /\ reports[id].cleared = Open
CheckPostReports_OpenOnly(p, reason) ==
    \E id \in ReportIDs :
       /\ reports[id].post = p
       /\ (reports[id].reason = reason /\ reports[id].cleared = Open) \/ reports[id].cleared = Blocked
CheckPostReports(p, reason) ==
    \E id \in ReportIDs :
       reports[id].post = p /\ (reports[id].reason = reason \/ reports[id].cleared = Blocked)

\* The selected posts come from a map, in no order.
CheckReport(r, p) ==
    /\ reportPc[r] = "check"
    /\ p \in reportReq[r].todo
    /\ LET rest == [reportReq[r] EXCEPT !.todo = @ \ {p}] IN
       IF CheckPostReports(p, reportReq[r].reason)
       THEN reportReq' = [reportReq EXCEPT ![r] = rest] /\ UNCHANGED reportPc
       ELSE reportReq' = [reportReq EXCEPT ![r] = [rest EXCEPT !.post = p]] /\ ReportGoto(r, "create")
    /\ UNCHANGED <<postRow, reports, audits, nextReport, stillBlocked>>

\* CreateReport: both rows in one transaction; the foreign key refuses a removed post.
CreateReport(r) ==
    LET p == reportReq[r].post IN
    /\ reportPc[r] = "create"
    /\ nextReport <= MaxReportID
    /\ IF postRow[p] = "removed"
       THEN ReportDone(r) /\ UNCHANGED <<reports, audits, nextReport>>
       ELSE /\ reports' = [reports EXCEPT ![nextReport] =
                             [post |-> p, reason |-> reportReq[r].reason, cleared |-> Open]]
            /\ audits' = [audits EXCEPT ![nextReport] = Open]
            /\ nextReport' = nextReport + 1
            /\ ReportGoto(r, "check")
            /\ reportReq' = [reportReq EXCEPT ![r].post = 0]
    /\ UNCHANGED <<postRow, stillBlocked>>

ReportAnswered(r) ==
    /\ reportPc[r] = "check"
    /\ reportReq[r].todo = {}
    /\ ReportDone(r)
    /\ UNCHANGED <<postRow, reports, audits, nextReport, stillBlocked>>

-----------------------------------------------------------------------------
(* reportsCallback *)

\* doReportHandling with dismiss-all: every row, also the blocked ones; the audit rows stay.
DismissAll(r) ==
    /\ reportPc[r] = "idle"
    /\ reports' = [id \in ReportIDs |->
                     IF IsReport(id) THEN [reports[id] EXCEPT !.cleared = Dismissed] ELSE NoReport]
    /\ stillBlocked' = [q \in Requests |-> {}]
    /\ ReportGoto(r, "clean")
    /\ UNCHANGED <<postRow, audits, nextReport, reportReq>>

\* The selected reports; only the administrator may block.  With nothing selected the page is shown.
StartClearing(r, ids, value, rank) ==
    /\ reportPc[r] = "idle"
    /\ value = Blocked => rank = 3
    /\ ReportGoto(r, IF ids = {} THEN "clean" ELSE "clear")
    /\ reportReq' = [reportReq EXCEPT ![r] = [NoReportLocals EXCEPT !.todo = ids, !.clear = value]]
    /\ UNCHANGED <<postRow, reports, audits, nextReport, stillBlocked>>

\* ClearReport: a row that has the value already may count as not affected.
ClearReport(r, id) ==
    LET table == [reports EXCEPT ![id].cleared = reportReq[r].clear] IN
    /\ reportPc[r] = "clear"
    /\ id \in reportReq[r].todo
    /\ IF IsReport(id)
       THEN /\ reports' = table
            /\ audits' = IF audits[id] = -1 THEN audits ELSE [audits EXCEPT ![id] = reportReq[r].clear]
            /\ stillBlocked' = [q \in Requests |-> stillBlocked[q] \cap BlockedPosts(table)]
       ELSE UNCHANGED <<reports, audits, stillBlocked>>
    /\ \/ /\ IsReport(id)
          /\ reportReq' = [reportReq EXCEPT ![r].todo = @ \ {id}]
          /\ ReportGoto(r, IF reportReq[r].todo = {id} THEN "clean" ELSE "clear")
       \/ /\ ~IsReport(id) \/ reports[id].cleared = reportReq[r].clear
          /\ ReportDone(r)
    /\ UNCHANGED <<postRow, nextReport>>

\* DeleteReportsOfDeletedPosts.  The second statement compares report ids with the ids of posts.
DeleteReportsOfDeletedPosts(r) ==
    /\ reportPc[r] = "clean"
    /\ KeepReportsOf(ReportedPosts \ PostsIn("deleted"))
    /\ audits' = [id \in ReportIDs |->
                    IF reports'[id] = NoReport \/ id \in PostsIn("deleted") THEN -1 ELSE audits[id]]
    /\ ReportDone(r)
    /\ UNCHANGED <<postRow, nextReport>>

-----------------------------------------------------------------------------
\* A post is deleted (module DeletePosts).
DeleteReportedPost(p) ==
    /\ postRow[p] = "live"
    /\ postRow' = [postRow EXCEPT ![p] = "deleted"]
    /\ UNCHANGED <<reports, audits, nextReport, reportPc, reportReq, stillBlocked>>

\* cleanupCallback, PermanentlyRemoveDeletedPosts: reports and audit rows go with the posts.
PermanentlyRemoveDeletedPosts ==
    /\ PostsIn("deleted") # {}
    /\ postRow' = [p \in ReportedPosts |-> IF postRow[p] = "deleted" THEN "removed" ELSE postRow[p]]
    /\ KeepReportsOf(PostsIn("live"))
    /\ audits' = [id \in ReportIDs |-> IF reports'[id] = NoReport THEN -1 ELSE audits[id]]
    /\ UNCHANGED <<nextReport, reportPc, reportReq>>

ReportQueryFails(r) ==
    /\ MayFail
    /\ reportPc[r] # "idle"
    /\ ReportDone(r)
    /\ UNCHANGED <<postRow, reports, audits, nextReport, stillBlocked>>

ReportsNext ==
    \/ \E r \in Requests :
          \/ \E posts \in SUBSET ReportedPosts, reason \in Reasons : StartReport(r, posts, reason)
          \/ \E p \in ReportedPosts : CheckReport(r, p)
          \/ CreateReport(r)
          \/ ReportAnswered(r)
          \/ DismissAll(r)
          \/ \E ids \in SUBSET ReportIDs, value \in {Dismissed, Blocked}, rank \in {2, 3} :
                StartClearing(r, ids, value, rank)
          \/ \E id \in ReportIDs : ClearReport(r, id)
          \/ DeleteReportsOfDeletedPosts(r)
          \/ ReportQueryFails(r)
    \/ \E p \in ReportedPosts : DeleteReportedPost(p)
    \/ PermanentlyRemoveDeletedPosts

ReportsSpec == ReportsInit /\ [][ReportsNext]_reportVars

-----------------------------------------------------------------------------
\* A post that was blocked before a report of it was submitted, and still is, gets no new report:
\* only a request that passed CheckPostReports before the block can slip through.
BlockedPostsAreNotReported ==
    [][\A r \in Requests :
          reportPc[r] = "create" /\ reportPc'[r] = "check" => reportReq[r].post \notin stillBlocked[r]]_reportVars

\* A post has at most one report with a given reason for each request served at the same time,
\* also after reports of it were dismissed: the check and the insert are separate transactions.
DuplicatesOnlyByRace ==
    \A p \in ReportedPosts, reason \in Reasons :
       Cardinality({id \in ReportIDs : reports[id].post = p /\ reports[id].reason = reason})
          <= Cardinality(Requests)

\* Blocking a post stays in force: later reports of it are ignored.
BlockIsNotLifted ==
    [][BlockedPosts(reports) \cap PostsIn("live") \subseteq BlockedPosts(reports')]_reportVars
===============================================================================
