----------------------------- MODULE BansAppeals ------------------------------
(***************************************************************************)
(* Bans of address ranges: staff issue and lift them, every post is checked *)
(* against them, the banned appeal, and each change leaves a row in an      *)
(* audit table.  None of it but NewIPBan and ApproveAppeal is a             *)
(* transaction.                                                             *)
(***************************************************************************)
EXTENDS Handlers

CONSTANTS
    Hosts,          \* addresses, as numbers
    BannedBoards,   \* ids of the boards
    MaxBanID,       \* bound: bans ever issued
    MaxAppealID     \* bound: appeals ever submitted

ASSUME HostsAssumption == Hosts \subseteq Nat /\ Hosts # {}
ASSUME BannedBoardsAssumption == BannedBoards \subseteq Nat \ {0}
ASSUME MaxBanIDAssumption == MaxBanID \in Nat \ {0}
ASSUME MaxAppealIDAssumption == MaxAppealID \in Nat \ {0}

BanIDs == 1..MaxBanID
AppealIDs == 1..MaxAppealID
AllBoards == 0  \* board_id IS NULL

VARIABLES
    bans,           \* bans[b]: row of ip_ban
    banAudited,     \* bans with a row in ip_ban_audit
    appeals,        \* appeals[a]: ip_ban_id of the row of ip_ban_appeals, or 0
    appealAudited,  \* appeals with a row in ip_ban_appeals_audit
    banPc,
    banReq,         \* banReq[r]: poster and board, or the ban or the appeal request r is about
    standing,       \* history: bans in force since before the post of request r was submitted
    unaudited       \* history: bans and appeals (0) whose audit row a request failed to write

banVars == <<bans, banAudited, appeals, appealAudited, banPc, banReq, standing, unaudited>>

Ban == [issued: BOOLEAN, from: Hosts, to: Hosts, board: BannedBoards \cup {AllBoards},
        active: BOOLEAN, expired: BOOLEAN]
NoBan == [issued |-> FALSE, from |-> CHOOSE h \in Hosts : TRUE, to |-> CHOOSE h \in Hosts : TRUE,
          board |-> AllBoards, active |-> FALSE, expired |-> FALSE]
BanLocals == [host: Hosts \cup {0}, board: BannedBoards \cup {0}, ban: 0..MaxBanID, appeal: 0..MaxAppealID]
NoBanLocals == [host |-> 0, board |-> 0, ban |-> 0, appeal |-> 0]

BansTypeOK ==
    /\ bans \in [BanIDs -> Ban]
    /\ banAudited \subseteq BanIDs
    /\ appeals \in [AppealIDs -> 0..MaxBanID]
    /\ appealAudited \subseteq AppealIDs
    /\ banPc \in [Requests -> {"idle", "check", "post", "deactivate", "update", "audit",
                               "appeal", "latest", "appealAudit", "approve"}]
    /\ banReq \in [Requests -> BanLocals]
    /\ standing \in [Requests -> SUBSET BanIDs]
    /\ unaudited \subseteq BanIDs \cup {0}

BansInit ==
    /\ bans = [b \in BanIDs |-> NoBan]
    /\ banAudited = {}
    /\ appeals = [a \in AppealIDs |-> 0]
    /\ appealAudited = {}
    /\ banPc = [r \in Requests |-> "idle"]
    /\ banReq = [r \in Requests |-> NoBanLocals]
    /\ standing = [r \in Requests |-> {}]
    /\ unaudited = {}

-----------------------------------------------------------------------------
BanGoto(r, step) == banPc' = [banPc EXCEPT ![r] = step]
BanDone(r) ==
    /\ BanGoto(r, "idle")
    /\ banReq' = [banReq EXCEPT ![r] = NoBanLocals]
    /\ standing' = [standing EXCEPT ![r] = {}]
BanTablesUnchanged == UNCHANGED <<bans, banAudited, appeals, appealAudited, unaudited>>

\* The rows CheckIPBan's WHERE clause matches.
InForce(ban) == ban.active /\ ~ban.expired
BansOn_LatestOnly(host, board) ==
    LET all == {b \in BanIDs : /\ bans[b].issued /\ host \in bans[b].from..bans[b].to
                               /\ bans[b].board \in {AllBoards, board}}
    IN {b \in all : InForce(bans[b]) /\ \A c \in all : c <= b}
BansOn(host, board) ==
    {b \in BanIDs : /\ host \in bans[b].from..bans[b].to
                    /\ bans[b].board \in {AllBoards, board}
                    /\ InForce(bans[b])}

-----------------------------------------------------------------------------
(* Posting (module MakePost has the rest). *)

SubmitPost(r, host, board) ==
    /\ banPc[r] = "idle"
    /\ BanGoto(r, "check")
    /\ banReq' = [banReq EXCEPT ![r] = [NoBanLocals EXCEPT !.host = host, !.board = board]]
    /\ standing' = [standing EXCEPT ![r] = {b \in BanIDs : InForce(bans[b])}]
    /\ UNCHANGED <<bans, banAudited, appeals, appealAudited, unaudited>>

\* checkIpBan: the ban page ends the request.
CheckIPBan(r) ==
    /\ banPc[r] = "check"
    /\ IF BansOn(banReq[r].host, banReq[r].board) = {}
       THEN BanGoto(r, "post") /\ UNCHANGED <<banReq, standing>>
       ELSE BanDone(r)
    /\ BanTablesUnchanged

AcceptPost(r) ==
    /\ banPc[r] = "post"
    /\ BanDone(r)
    /\ BanTablesUnchanged

-----------------------------------------------------------------------------
(* The bans page. *)

\* fillBanFields: a ban without duration is permanent, it is one that never expires.
FilledBan(from, to, board) ==
    [issued |-> TRUE, from |-> from, to |-> to, board |-> board, active |-> TRUE, expired |-> FALSE]

NewIPBan(r, from, to, board) ==
    LET b == Cardinality({c \in BanIDs : bans[c].issued}) + 1 IN
    /\ banPc[r] = "idle"
    /\ b \in BanIDs
    /\ from <= to
    /\ bans' = [bans EXCEPT ![b] = FilledBan(from, to, board)]
    /\ UNCHANGED <<banAudited, appeals, appealAudited, banPc, banReq, standing, unaudited>>

StartDeactivation(r, b) ==
    /\ banPc[r] = "idle"
    /\ BanGoto(r, "deactivate")
    /\ banReq' = [banReq EXCEPT ![r] = [NoBanLocals EXCEPT !.ban = b]]
    /\ BanTablesUnchanged /\ UNCHANGED standing

\* DeactivateBan: is the ban there and active?
ReadBan(r) ==
    /\ banPc[r] = "deactivate"
    /\ IF bans[banReq[r].ban].active
       THEN BanGoto(r, "update") /\ UNCHANGED <<banReq, standing>>
       ELSE BanDone(r)
    /\ BanTablesUnchanged

UpdateBan_AnswersEarly(r) ==
    LET b == banReq[r].ban IN
    /\ banPc[r] = "update"
    /\ bans' = [bans EXCEPT ![b].active = FALSE]
    /\ BanDone(r)
    /\ UNCHANGED <<banAudited, appeals, appealAudited, unaudited>>
UpdateBan(r) ==
    LET b == banReq[r].ban IN
    /\ banPc[r] = "update"
    /\ bans' = [bans EXCEPT ![b].active = FALSE]
    /\ standing' = [q \in Requests |-> standing[q] \ {b}]
    /\ BanGoto(r, "audit")
    /\ UNCHANGED <<banAudited, appeals, appealAudited, banReq, unaudited>>

InsertBanAudit(r) ==
    /\ banPc[r] = "audit"
    /\ banAudited' = banAudited \cup {banReq[r].ban}
    /\ BanDone(r)
    /\ UNCHANGED <<bans, appeals, appealAudited, unaudited>>

-----------------------------------------------------------------------------
(* Appeals *)

\* handleAppeal: an inactive ban, or one of another address, ends the request; one that cannot be
\* appealed (can_appeal), or not yet (appeal_at), only adds an error page to the answer.
HandleAppeal(r, host, b) ==
    /\ banPc[r] = "idle"
    /\ bans[b].active
    /\ host \in bans[b].from..bans[b].to
    /\ BanGoto(r, "appeal")
    /\ banReq' = [banReq EXCEPT ![r] = [NoBanLocals EXCEPT !.ban = b]]
    /\ BanTablesUnchanged /\ UNCHANGED standing

\* Appeal: three statements, each on its own.
InsertAppeal_IDFirst(r) ==
    LET a == Cardinality({c \in AppealIDs : appeals[c] # 0}) + 1 IN
    /\ banPc[r] = "appeal"
    /\ a \in AppealIDs
    /\ appeals' = [appeals EXCEPT ![a] = banReq[r].ban]
    /\ banReq' = [banReq EXCEPT ![r].appeal = a - 1]
    /\ BanGoto(r, "appealAudit")
    /\ UNCHANGED <<bans, banAudited, appealAudited, standing, unaudited>>
InsertAppeal(r) ==
    LET a == Cardinality({c \in AppealIDs : appeals[c] # 0}) + 1 IN
    /\ banPc[r] = "appeal"
    /\ a \in AppealIDs
    /\ appeals' = [appeals EXCEPT ![a] = banReq[r].ban]
    /\ BanGoto(r, "latest")
    /\ UNCHANGED <<bans, banAudited, appealAudited, banReq, standing, unaudited>>

\* SELECT MAX(id): the appeal of another request that was inserted meanwhile, perhaps.
LatestAppeal(r) ==
    /\ banPc[r] = "latest"
    /\ banReq' = [banReq EXCEPT ![r].appeal = Cardinality({c \in AppealIDs : appeals[c] # 0})]
    /\ BanGoto(r, "appealAudit")
    /\ BanTablesUnchanged /\ UNCHANGED standing

InsertAppealAudit(r) ==
    /\ banPc[r] = "appealAudit"
    /\ appealAudited' = IF banReq[r].appeal = 0 THEN appealAudited
                        ELSE appealAudited \cup {banReq[r].appeal}
    /\ BanDone(r)
    /\ UNCHANGED <<bans, banAudited, appeals, unaudited>>

\* appealsCallback with doapprove
StartApproval(r, a) ==
    /\ banPc[r] = "idle"
    /\ appeals[a] # 0
    /\ BanGoto(r, "approve")
    /\ banReq' = [banReq EXCEPT ![r] = [NoBanLocals EXCEPT !.appeal = a]]
    /\ BanTablesUnchanged /\ UNCHANGED standing

\* ApproveAppeal: the statement that adds the audit row names four columns and gives five values,
\* it fails, and the deferred Rollback takes the deactivation of the ban back.
ApproveAppeal(r) ==
    /\ banPc[r] = "approve"
    /\ BanDone(r)
    /\ BanTablesUnchanged

-----------------------------------------------------------------------------
\* Time passes: a ban with a duration expires.
BanExpires(b) ==
    /\ bans[b].issued /\ ~bans[b].expired
    /\ bans' = [bans EXCEPT ![b].expired = TRUE]
    /\ standing' = [q \in Requests |-> standing[q] \ {b}]
    /\ UNCHANGED <<banAudited, appeals, appealAudited, banPc, banReq, unaudited>>

BanQueryFails(r) ==
    /\ MayFail
    /\ banPc[r] \notin {"idle", "approve"}
    /\ unaudited' = CASE banPc[r] = "audit" -> unaudited \cup {banReq[r].ban}
                       [] banPc[r] \in {"latest", "appealAudit"} -> unaudited \cup {0}
                       [] OTHER -> unaudited
    /\ BanDone(r)
    /\ UNCHANGED <<bans, banAudited, appeals, appealAudited>>

BansNext ==
    \/ \E r \in Requests :
          \/ \E h \in Hosts, board \in BannedBoards : SubmitPost(r, h, board)
          \/ CheckIPBan(r) \/ AcceptPost(r)
          \/ \E from, to \in Hosts, board \in BannedBoards \cup {AllBoards} :
                NewIPBan(r, from, to, board)
          \/ \E b \in BanIDs : StartDeactivation(r, b)
          \/ ReadBan(r) \/ UpdateBan(r) \/ InsertBanAudit(r)
          \/ \E h \in Hosts, b \in BanIDs : HandleAppeal(r, h, b)
          \/ InsertAppeal(r) \/ LatestAppeal(r) \/ InsertAppealAudit(r)
          \/ \E a \in AppealIDs : StartApproval(r, a)
          \/ ApproveAppeal(r)
          \/ BanQueryFails(r)
    \/ \E b \in BanIDs : BanExpires(b)

BansSpec == BansInit /\ [][BansNext]_banVars

-----------------------------------------------------------------------------
\* A ban in force since before a post was submitted stops the post (CheckIPBan): an older ban
\* counts also when a later one of the same address was lifted, expired or is for another board.
BannedCannotPost ==
    [][\A r \in Requests : banPc[r] = "post" /\ banPc'[r] = "idle" =>
          \A b \in standing[r] :
             ~(/\ banReq[r].host \in bans[b].from..bans[b].to
               /\ bans[b].board \in {AllBoards, banReq[r].board})]_banVars

\* A ban that was lifted is in the audit table, or the request that lifted it has yet to write the
\* row or failed to: of two requests that lift the same ban one may fail without a loss.
LiftedBansAreAudited ==
    \A b \in BanIDs : bans[b].issued /\ ~bans[b].active =>
       \/ b \in banAudited
       \/ b \in unaudited
       \/ \E r \in Requests : banPc[r] = "audit" /\ banReq[r].ban = b

\* Once no appeal is being submitted the newest one has its audit row, if none failed half way: the
\* request that inserts last also reads the id last.
NewestAppealIsAudited ==
    LET newest == Cardinality({c \in AppealIDs : appeals[c] # 0}) IN
    0 \notin unaudited /\ newest # 0 /\ (\A r \in Requests : banPc[r] \notin {"latest", "appealAudit"}) =>
       newest \in appealAudited

\* Approving an appeal deactivates its ban.
ApprovalLiftsTheBan ==
    [][\A r \in Requests : banPc[r] = "approve" /\ banPc'[r] = "idle" =>
          ~bans'[appeals[banReq[r].appeal]].active]_banVars
===============================================================================
