------------------------- MODULE BansAndFiltersProofs -------------------------
(***************************************************************************)
(* Bans, appeals and filters.  A post is stopped by what was in force when  *)
(* it was submitted, although the tables are read query by query and staff  *)
(* change them meanwhile; the audit tables miss nothing but what a failed   *)
(* query left out.                                                          *)
(***************************************************************************)
EXTENDS MCBansAndFilters, FiniteSetTheorems, TLAPS

(* Bans and appeals. *)

\* The ban or the appeal a request works on.
BanKnows ==
    \A r \in Requests :
       /\ banPc[r] \in {"deactivate", "update", "audit", "appeal"} => banReq[r].ban \in BanIDs
       /\ banPc[r] = "approve" => banReq[r].appeal \in AppealIDs

\* The ids of ip_ban are given in order, and an id that is not given yet is no active ban.
Issued == {c \in BanIDs : bans[c].issued}
IssuedInOrder == \A b \in BanIDs : bans[b].issued <=> b <= Cardinality(Issued)
ActiveAreIssued == \A b \in BanIDs : bans[b].active => bans[b].issued

\* What a post is to be stopped by is in force, and a post that passed the check is not covered.
StandingInForce == \A r \in Requests : \A b \in standing[r] : InForce(bans[b])
Covers(b, q) == q.host \in bans[b].from..bans[b].to /\ bans[b].board \in {AllBoards, q.board}
PassedCheck == \A r \in Requests : banPc[r] = "post" => \A b \in standing[r] : ~Covers(b, banReq[r])

\* The newest appeal has its audit row, or a request is about to read its id or has read it.
Newest == Cardinality({c \in AppealIDs : appeals[c] # 0})
NewestIsOnItsWay ==
    0 \notin unaudited /\ Newest # 0 =>
       \/ Newest \in appealAudited
       \/ \E r \in Requests : banPc[r] = "latest" \/ (banPc[r] = "appealAudit" /\ banReq[r].appeal = Newest)

StandingInv == IssuedInOrder /\ ActiveAreIssued /\ StandingInForce /\ PassedCheck
BansInv == BansTypeOK /\ BanKnows /\ StandingInv /\ LiftedBansAreAudited /\ NewestIsOnItsWay

\* A post that goes through is not covered by a ban that stands.
OnlyUncoveredPosts ==
    \A r \in Requests : banPc[r] = "post" /\ banPc'[r] = "idle" =>
       \A b \in standing[r] : ~Covers(b, banReq[r])

BanSteps == {"idle", "check", "post", "deactivate", "update", "audit", "appeal", "latest", "appealAudit", "approve"}
BanRequestsOK ==
    /\ banPc \in [Requests -> BanSteps]
    /\ banReq \in [Requests -> BanLocals]
    /\ standing \in [Requests -> SUBSET BanIDs]
    /\ BanKnows

BanOthersKept(r) ==
    \A q \in Requests \ {r} : banPc'[q] = banPc[q] /\ banReq'[q] = banReq[q]

\* What the assumptions on the ids come to.
LEMMA BanNumbers ==
    /\ MaxBanID \in Nat /\ MaxAppealID \in Nat /\ MaxBanID # 0 /\ MaxAppealID # 0
    /\ 0 \notin BanIDs /\ 0 \notin AppealIDs
    /\ \A b \in BanIDs : b \in 0..MaxBanID
    /\ \A a \in AppealIDs : a \in 0..MaxAppealID
<1>1. MaxBanID \in Nat /\ MaxBanID # 0
    BY MaxBanIDAssumption
<1>2. MaxAppealID \in Nat /\ MaxAppealID # 0
    BY MaxAppealIDAssumption
<1> QED BY <1>1, <1>2 DEF BanIDs, AppealIDs

\* What is left of a request that has returned.
LEMMA NoBanLocalsType ==
    /\ NoBanLocals \in BanLocals /\ NoBanLocals.host = 0 /\ NoBanLocals.board = 0
    /\ NoBanLocals.ban = 0 /\ NoBanLocals.appeal = 0
<1>1. 0 \in 0..MaxBanID /\ 0 \in 0..MaxAppealID
    BY BanNumbers
<1> QED BY <1>1 DEF NoBanLocals, BanLocals

\* What a request holds at a step.
BanStepOK(step, locals) ==
    /\ step \in BanSteps
    /\ locals \in BanLocals
    /\ step \in {"deactivate", "update", "audit", "appeal"} => locals.ban \in BanIDs
    /\ step = "approve" => locals.appeal \in AppealIDs

\* A request that goes on leaves the others alone.
LEMMA BanGotoOK ==
    ASSUME BanRequestsOK, NEW r \in Requests, NEW step, NEW locals, BanStepOK(step, locals),
           BanGoto(r, step), banReq' = [banReq EXCEPT ![r] = locals],
           standing' \in [Requests -> SUBSET BanIDs]
    PROVE  BanRequestsOK' /\ BanOthersKept(r) /\ banPc'[r] = step /\ banReq'[r] = locals
<1>1. /\ banPc' \in [Requests -> BanSteps] /\ banReq' \in [Requests -> BanLocals]
      /\ banPc'[r] = step /\ banReq'[r] = locals /\ BanOthersKept(r)
    BY DEF BanRequestsOK, BanStepOK, BanGoto, BanOthersKept
<1>2. BanKnows'
    BY <1>1 DEF BanRequestsOK, BanKnows, BanStepOK, BanOthersKept
<1> QED BY <1>1, <1>2 DEF BanRequestsOK

\* A request that has returned.
LEMMA BanDoneOK ==
    ASSUME BanRequestsOK, NEW r \in Requests, BanDone(r)
    PROVE  /\ BanRequestsOK' /\ BanOthersKept(r) /\ banPc'[r] = "idle" /\ banReq'[r] = NoBanLocals
           /\ standing'[r] = {} /\ \A q \in Requests \ {r} : standing'[q] = standing[q]
<1>1. BanStepOK("idle", NoBanLocals)
    BY NoBanLocalsType DEF BanStepOK, BanSteps
<1>2. /\ standing' \in [Requests -> SUBSET BanIDs] /\ standing'[r] = {}
      /\ \A q \in Requests \ {r} : standing'[q] = standing[q]
    BY DEF BanDone, BanRequestsOK
<1> QED BY <1>1, <1>2, BanGotoOK DEF BanDone

\* Steps that leave the table of bans alone, of a request that keeps what stands or lets it go, and
\* passes the check only if nothing that stands covers its post.
LEMMA SameBansStand ==
    ASSUME BansInv, NEW r \in Requests, BanRequestsOK', BanOthersKept(r), UNCHANGED bans,
           \A q \in Requests \ {r} : standing'[q] = standing[q],
           \A b \in standing'[r] : InForce(bans[b]),
           banPc'[r] = "post" => \A b \in standing'[r] : ~Covers(b, banReq'[r])
    PROVE  StandingInv'
<1>1. IssuedInOrder' /\ ActiveAreIssued'
  <2>1. Issued' = Issued
      BY DEF Issued
  <2> QED BY <2>1 DEF BansInv, StandingInv, IssuedInOrder, ActiveAreIssued
<1>2. StandingInForce'
  <2> SUFFICES ASSUME NEW q \in Requests, NEW b \in standing'[q]
               PROVE  InForce(bans[b])
      BY DEF StandingInForce, InForce
  <2> QED BY DEF BansInv, StandingInv, StandingInForce
<1>3. PassedCheck'
  <2> SUFFICES ASSUME NEW q \in Requests, banPc'[q] = "post", NEW b \in standing'[q]
               PROVE  ~Covers(b, banReq'[q])
      BY DEF PassedCheck, Covers
  <2>1. CASE q = r
      BY <2>1
  <2>2. CASE q # r
      BY <2>2 DEF BansInv, StandingInv, PassedCheck, BanOthersKept
  <2> QED BY <2>1, <2>2
<1> QED BY <1>1, <1>2, <1>3 DEF StandingInv

\* A ban is changed and does not stand for any post any more, if it did.
LEMMA ChangedBanStands ==
    ASSUME BansInv, NEW b \in BanIDs, NEW ban \in Ban, bans' = [bans EXCEPT ![b] = ban],
           IssuedInOrder', ban.active => ban.issued,
           \A q \in Requests : standing'[q] = standing[q] \ {b},
           \A q \in Requests : banPc'[q] = "post" => banPc[q] = "post" /\ banReq'[q] = banReq[q]
    PROVE  StandingInv'
<1>1. /\ \A c \in BanIDs \ {b} : bans'[c] = bans[c]
      /\ bans'[b] = ban
    BY DEF BansInv, BansTypeOK
<1>2. ActiveAreIssued'
    BY <1>1 DEF BansInv, StandingInv, ActiveAreIssued
<1>3. \A q \in Requests : standing[q] \subseteq BanIDs
    BY DEF BansInv, BansTypeOK
<1>4. StandingInForce'
  <2> SUFFICES ASSUME NEW q \in Requests, NEW c \in standing'[q]
               PROVE  InForce(bans'[c])
      BY DEF StandingInForce, InForce
  <2>1. c \in standing[q] /\ c \in BanIDs \ {b}
      BY <1>3
  <2>2. InForce(bans[c])
      BY <2>1 DEF BansInv, StandingInv, StandingInForce
  <2> QED BY <1>1, <2>1, <2>2
<1>5. PassedCheck'
  <2> SUFFICES ASSUME NEW q \in Requests, banPc'[q] = "post", NEW c \in standing'[q]
               PROVE  ~(/\ banReq'[q].host \in bans'[c].from..bans'[c].to
                        /\ bans'[c].board \in {AllBoards, banReq'[q].board})
      BY DEF PassedCheck, Covers
  <2>1. c \in standing[q] /\ c \in BanIDs \ {b}
      BY <1>3
  <2>2. ~Covers(c, banReq[q])
      BY <2>1 DEF BansInv, StandingInv, PassedCheck
  <2> QED BY <1>1, <2>1, <2>2 DEF Covers
<1> QED BY <1>2, <1>4, <1>5 DEF StandingInv

\* Bans that were lifted stay audited as long as no request forgets to.
LEMMA AuditedStay ==
    ASSUME BansInv, NEW r \in Requests, BanOthersKept(r),
           banAudited \subseteq banAudited', unaudited \subseteq unaudited',
           \A b \in BanIDs : bans'[b].issued /\ ~bans'[b].active => bans[b].issued /\ ~bans[b].active,
           banPc[r] = "audit" => banReq[r].ban \in banAudited' \cup unaudited'
    PROVE  LiftedBansAreAudited'
<1> SUFFICES ASSUME NEW b \in BanIDs, bans'[b].issued, ~bans'[b].active
             PROVE  \/ b \in banAudited' \/ b \in unaudited'
                    \/ \E q \in Requests : banPc'[q] = "audit" /\ banReq'[q].ban = b
    BY DEF LiftedBansAreAudited
<1>1. bans[b].issued /\ ~bans[b].active
    OBVIOUS
<1>2. CASE b \in banAudited \/ b \in unaudited
    BY <1>2
<1>3. CASE \E q \in Requests : banPc[q] = "audit" /\ banReq[q].ban = b
    BY <1>3 DEF BanOthersKept
<1> QED BY <1>1, <1>2, <1>3 DEF BansInv, LiftedBansAreAudited

\* The newest appeal stays on its way as long as the request that would audit it does so or fails.
LEMMA NewestStays ==
    ASSUME BansInv, NEW r \in Requests, BanOthersKept(r), UNCHANGED appeals,
           appealAudited \subseteq appealAudited', unaudited \subseteq unaudited',
           banPc[r] \in {"latest", "appealAudit"} /\ 0 \notin unaudited' =>
              \/ banPc[r] = "latest" /\ banPc'[r] = "appealAudit" /\ banReq'[r].appeal = Newest
              \/ banPc[r] = "appealAudit" /\ (banReq[r].appeal = 0 \/ banReq[r].appeal \in appealAudited')
    PROVE  NewestIsOnItsWay'
<1>1. Newest' = Newest
    BY DEF Newest
<1> QED BY <1>1 DEF BansInv, NewestIsOnItsWay, BanOthersKept

\* Steps that leave the table of bans and the appeals alone, of a request that goes on or returns.
LEMMA QuietBansInv ==
    ASSUME BansInv, NEW r \in Requests, BanRequestsOK', BanOthersKept(r), UNCHANGED <<bans, appeals>>,
           banAudited \subseteq banAudited', banAudited' \subseteq BanIDs,
           appealAudited \subseteq appealAudited', appealAudited' \subseteq AppealIDs,
           unaudited \subseteq unaudited', unaudited' \subseteq BanIDs \cup {0},
           \A q \in Requests \ {r} : standing'[q] = standing[q],
           \A b \in standing'[r] : InForce(bans[b]),
           banPc'[r] = "post" => \A b \in standing'[r] : ~Covers(b, banReq'[r]),
           banPc[r] = "audit" => banReq[r].ban \in banAudited' \cup unaudited',
           banPc[r] \in {"latest", "appealAudit"} /\ 0 \notin unaudited' =>
              \/ banPc[r] = "latest" /\ banPc'[r] = "appealAudit" /\ banReq'[r].appeal = Newest
              \/ banPc[r] = "appealAudit" /\ (banReq[r].appeal = 0 \/ banReq[r].appeal \in appealAudited')
    PROVE  BansInv'
<1>1. BansTypeOK' /\ BanKnows'
    BY DEF BansInv, BansTypeOK, BanRequestsOK, BanSteps
<1>2. StandingInv'
    BY SameBansStand
<1>3. LiftedBansAreAudited'
    BY AuditedStay
<1>4. NewestIsOnItsWay'
    BY NewestStays
<1> QED BY <1>1, <1>2, <1>3, <1>4 DEF BansInv

\* The same, for a request that only goes from step to step.
LEMMA BanStepInv ==
    ASSUME BansInv, NEW r \in Requests, NEW step, NEW locals, BanStepOK(step, locals),
           BanGoto(r, step), banReq' = [banReq EXCEPT ![r] = locals], BanTablesUnchanged, UNCHANGED standing,
           banPc[r] \notin {"audit", "latest", "appealAudit"},
           step = "post" => \A b \in standing[r] : ~Covers(b, locals)
    PROVE  BansInv'
<1>1. BanRequestsOK /\ standing \in [Requests -> SUBSET BanIDs]
    BY DEF BansInv, BansTypeOK, BanRequestsOK, BanSteps
<1>2. BanRequestsOK' /\ BanOthersKept(r) /\ banPc'[r] = step /\ banReq'[r] = locals
    BY <1>1, BanGotoOK
<1>3. UNCHANGED <<bans, banAudited, appeals, appealAudited, unaudited>>
    BY DEF BanTablesUnchanged
<1>4. \A b \in standing'[r] : InForce(bans[b])
    BY DEF BansInv, StandingInv, StandingInForce
<1>5. banAudited \subseteq BanIDs /\ appealAudited \subseteq AppealIDs /\ unaudited \subseteq BanIDs \cup {0}
    BY DEF BansInv, BansTypeOK
<1> QED BY <1>2, <1>3, <1>4, <1>5, QuietBansInv

\* A request that returns, after it wrote the audit row it owes or failed to.
LEMMA BanDoneInv ==
    ASSUME BansInv, NEW r \in Requests, BanDone(r), UNCHANGED <<bans, appeals>>,
           banAudited \subseteq banAudited', banAudited' \subseteq BanIDs,
           appealAudited \subseteq appealAudited', appealAudited' \subseteq AppealIDs,
           unaudited \subseteq unaudited', unaudited' \subseteq BanIDs \cup {0},
           banPc[r] = "audit" => banReq[r].ban \in banAudited' \cup unaudited',
           banPc[r] \in {"latest", "appealAudit"} /\ 0 \notin unaudited' =>
              banPc[r] = "appealAudit" /\ (banReq[r].appeal = 0 \/ banReq[r].appeal \in appealAudited')
    PROVE  BansInv'
<1>1. BanRequestsOK
    BY DEF BansInv, BansTypeOK, BanRequestsOK, BanSteps
<1>2. /\ BanRequestsOK' /\ BanOthersKept(r) /\ banPc'[r] = "idle"
      /\ standing'[r] = {} /\ \A q \in Requests \ {r} : standing'[q] = standing[q]
    BY <1>1, BanDoneOK
<1> QED BY <1>2, QuietBansInv

\* SubmitPost, CheckIPBan and AcceptPost: the way of a post.
LEMMA PostBansInv ==
    ASSUME BansInv, NEW r \in Requests,
           \/ \E h \in Hosts, board \in BannedBoards : SubmitPost(r, h, board)
           \/ CheckIPBan(r) \/ AcceptPost(r)
    PROVE  BansInv'
<1>t. /\ banAudited \subseteq BanIDs /\ appealAudited \subseteq AppealIDs /\ unaudited \subseteq BanIDs \cup {0}
      /\ banReq \in [Requests -> BanLocals] /\ standing \in [Requests -> SUBSET BanIDs]
    BY DEF BansInv, BansTypeOK
<1>1. ASSUME NEW h \in Hosts, NEW board \in BannedBoards, SubmitPost(r, h, board)
      PROVE  BansInv'
  <2> DEFINE locals == [NoBanLocals EXCEPT !.host = h, !.board = board]
             now == {b \in BanIDs : InForce(bans[b])}
  <2>1. /\ banPc[r] = "idle" /\ BanGoto(r, "check") /\ banReq' = [banReq EXCEPT ![r] = locals]
        /\ standing' = [standing EXCEPT ![r] = now]
        /\ UNCHANGED <<bans, banAudited, appeals, appealAudited, unaudited>>
      BY <1>1 DEF SubmitPost
  <2>2. locals \in BanLocals
      BY NoBanLocalsType DEF BanLocals
  <2> HIDE DEF locals
  <2>3. now \in SUBSET BanIDs /\ \A b \in now : InForce(bans[b])
      OBVIOUS
  <2> HIDE DEF now
  <2>4. BanStepOK("check", locals)
      BY <2>2 DEF BanStepOK, BanSteps
  <2>5. /\ standing' \in [Requests -> SUBSET BanIDs] /\ standing'[r] = now
        /\ \A q \in Requests \ {r} : standing'[q] = standing[q]
      BY <1>t, <2>1, <2>3
  <2>6. BanRequestsOK
      BY DEF BansInv, BansTypeOK, BanRequestsOK, BanSteps
  <2>7. BanRequestsOK' /\ BanOthersKept(r) /\ banPc'[r] = "check"
      BY <2>1, <2>4, <2>5, <2>6, BanGotoOK
  <2> QED BY <1>t, <2>1, <2>3, <2>5, <2>7, QuietBansInv
<1>2. CASE CheckIPBan(r)
  <2> DEFINE q == banReq[r]
  <2>1. banPc[r] = "check" /\ BanTablesUnchanged /\ UNCHANGED <<bans, banAudited, appeals, appealAudited, unaudited>>
      BY <1>2 DEF CheckIPBan, BanTablesUnchanged
  <2>2. CASE BansOn(q.host, q.board) = {}
    <3>1. BanGoto(r, "post") /\ UNCHANGED <<banReq, standing>>
        BY <1>2, <2>2 DEF CheckIPBan
    <3>2. banReq' = [banReq EXCEPT ![r] = q] /\ q \in BanLocals
        BY <1>t, <3>1
    <3>3. ASSUME NEW b \in standing[r]
          PROVE  ~Covers(b, q)
      <4>1. b \in BanIDs /\ InForce(bans[b])
          BY <1>t DEF BansInv, StandingInv, StandingInForce
      <4> QED BY <2>2, <4>1 DEF BansOn, Covers
    <3> HIDE DEF q
    <3>4. BanStepOK("post", q)
        BY <3>2 DEF BanStepOK, BanSteps
    <3> QED BY <2>1, <3>1, <3>2, <3>3, <3>4, BanStepInv
  <2>3. CASE BansOn(q.host, q.board) # {}
    <3>1. BanDone(r)
        BY <1>2, <2>3 DEF CheckIPBan
    <3> QED BY <1>t, <2>1, <3>1, BanDoneInv
  <2> QED BY <2>2, <2>3
<1>3. CASE AcceptPost(r)
  <2>1. banPc[r] = "post" /\ BanDone(r) /\ UNCHANGED <<bans, banAudited, appeals, appealAudited, unaudited>>
      BY <1>3 DEF AcceptPost, BanTablesUnchanged
  <2> QED BY <1>t, <2>1, BanDoneInv
<1> QED BY <1>1, <1>2, <1>3

\* NewIPBan takes the next id, which no ban has that could stand for a post.
LEMMA NewIPBanInv ==
    ASSUME BansInv, NEW r \in Requests, NEW from \in Hosts, NEW to \in Hosts,
           NEW board \in BannedBoards \cup {AllBoards}, NewIPBan(r, from, to, board)
    PROVE  BansInv'
<1> DEFINE n == Cardinality(Issued)
           b == n + 1
           ban == FilledBan(from, to, board)
<1>1. /\ b \in BanIDs /\ bans' = [bans EXCEPT ![b] = ban]
      /\ UNCHANGED <<banAudited, appeals, appealAudited, banPc, banReq, standing, unaudited>>
    BY DEF NewIPBan, Issued
<1>2. ban \in Ban /\ ban.issued /\ ban.active
    BY DEF FilledBan, Ban
<1> HIDE DEF ban
<1>t. bans \in [BanIDs -> Ban] /\ standing \in [Requests -> SUBSET BanIDs]
    BY DEF BansInv, BansTypeOK
<1>3. n \in Nat
  <2>1. 1 \in Int /\ MaxBanID \in Int
      BY BanNumbers
  <2>2. IsFiniteSet(BanIDs)
      BY <2>1, FS_Interval DEF BanIDs
  <2>3. Issued \in SUBSET BanIDs
      BY DEF Issued
  <2> QED BY <2>2, <2>3, FS_Subset, FS_CardinalityType
<1>4. ~bans[b].issued /\ ~bans[b].active
  <2>1. ~(b <= n)
      BY <1>3
  <2> QED BY <1>1, <2>1 DEF BansInv, StandingInv, IssuedInOrder, ActiveAreIssued
<1>5. Issued' = Issued \cup {b} /\ Cardinality(Issued') = b
  <2>1. Issued' = Issued \cup {b} /\ b \notin Issued
      BY <1>1, <1>2, <1>4, <1>t DEF Issued
  <2>2. IsFiniteSet(Issued)
    <3>1. 1 \in Int /\ MaxBanID \in Int
        BY BanNumbers
    <3>2. IsFiniteSet(BanIDs)
        BY <3>1, FS_Interval DEF BanIDs
    <3>3. Issued \in SUBSET BanIDs
        BY DEF Issued
    <3> QED BY <3>2, <3>3, FS_Subset
  <2> QED BY <2>1, <2>2, FS_AddElement
<1>6. IssuedInOrder'
  <2> SUFFICES ASSUME NEW c \in BanIDs
               PROVE  bans'[c].issued <=> c <= b
      BY <1>5 DEF IssuedInOrder
  <2>1. c \in Nat
      BY BanNumbers DEF BanIDs
  <2>2. bans[c].issued <=> c <= n
      BY DEF BansInv, StandingInv, IssuedInOrder
  <2>3. c <= b <=> c <= n \/ c = b
      BY <1>3, <2>1
  <2> HIDE DEF n
  <2> QED BY <1>1, <1>2, <1>t, <2>2, <2>3
<1> HIDE DEF b, n
<1>7. \A q \in Requests : standing'[q] = standing[q] \ {b}
  <2>1. \A q \in Requests : b \notin standing[q]
      BY <1>4 DEF BansInv, StandingInv, StandingInForce, InForce
  <2> QED BY <1>1, <2>1
<1>8. StandingInv'
    BY <1>1, <1>2, <1>6, <1>7, ChangedBanStands
<1>9. BansTypeOK' /\ BanKnows' /\ NewestIsOnItsWay'
    BY <1>1, <1>2, <1>t DEF BansInv, BansTypeOK, BanKnows, NewestIsOnItsWay, Newest
<1>10. LiftedBansAreAudited'
  <2>1. \A c \in BanIDs : bans'[c].issued /\ ~bans'[c].active => bans[c].issued /\ ~bans[c].active
      BY <1>1, <1>2, <1>t
  <2> QED BY <1>1, <2>1 DEF BansInv, LiftedBansAreAudited
<1> QED BY <1>8, <1>9, <1>10 DEF BansInv

\* A ban that changes but keeps being issued leaves the order of the ids.
LEMMA StillIssuedInOrder ==
    ASSUME BansInv, NEW b \in BanIDs, NEW ban \in Ban, bans' = [bans EXCEPT ![b] = ban],
           ban.issued = bans[b].issued
    PROVE  IssuedInOrder'
<1>1. \A c \in BanIDs : bans'[c].issued = bans[c].issued
    BY DEF BansInv, BansTypeOK
<1>2. Issued' = Issued
    BY <1>1 DEF Issued
<1> QED BY <1>1, <1>2 DEF BansInv, StandingInv, IssuedInOrder

\* UpdateBan lifts a ban: it stands for no post any more, and its request owes the audit row.
LEMMA UpdateBanInv ==
    ASSUME BansInv, NEW r \in Requests, UpdateBan(r)
    PROVE  BansInv'
<1> DEFINE q == banReq[r]
           b == q.ban
           ban == [bans[b] EXCEPT !.active = FALSE]
<1>t. /\ bans \in [BanIDs -> Ban] /\ standing \in [Requests -> SUBSET BanIDs]
      /\ banReq \in [Requests -> BanLocals]
    BY DEF BansInv, BansTypeOK
<1>1. /\ banPc[r] = "update" /\ BanGoto(r, "audit")
      /\ bans' = [bans EXCEPT ![b].active = FALSE]
      /\ standing' = [s \in Requests |-> standing[s] \ {b}]
      /\ UNCHANGED <<banAudited, appeals, appealAudited, banReq, unaudited>>
    BY DEF UpdateBan
<1>2. b \in BanIDs
    BY <1>1 DEF BansInv, BanKnows
<1>3. q \in BanLocals /\ banReq' = [banReq EXCEPT ![r] = q]
    BY <1>1, <1>t
<1>4. bans' = [bans EXCEPT ![b] = ban] /\ ban \in Ban /\ ban.issued = bans[b].issued /\ ~ban.active
  <2> HIDE DEF b
  <2> QED BY <1>1, <1>2, <1>t DEF Ban
<1> HIDE DEF ban
<1>5. BanStepOK("audit", q)
    BY <1>2, <1>3 DEF BanStepOK, BanSteps
<1>6. standing' \in [Requests -> SUBSET BanIDs] /\ \A s \in Requests : standing'[s] = standing[s] \ {b}
    BY <1>1, <1>t
<1>7. BanRequestsOK
    BY DEF BansInv, BansTypeOK, BanRequestsOK, BanSteps
<1>8. BanRequestsOK' /\ BanOthersKept(r) /\ banPc'[r] = "audit" /\ banReq'[r] = q
  <2> HIDE DEF q
  <2> QED BY <1>1, <1>3, <1>5, <1>6, <1>7, BanGotoOK
<1>9. StandingInv'
  <2>1. \A s \in Requests : banPc'[s] = "post" => banPc[s] = "post" /\ banReq'[s] = banReq[s]
      BY <1>8 DEF BanOthersKept
  <2> HIDE DEF b
  <2> QED BY <1>2, <1>4, <1>6, <2>1, StillIssuedInOrder, ChangedBanStands
<1>10. LiftedBansAreAudited'
  <2> SUFFICES ASSUME NEW c \in BanIDs, bans'[c].issued, ~bans'[c].active
               PROVE  \/ c \in banAudited \/ c \in unaudited
                      \/ \E s \in Requests : banPc'[s] = "audit" /\ banReq'[s].ban = c
      BY <1>1 DEF LiftedBansAreAudited
  <2>1. CASE c = b
      BY <1>8, <2>1
  <2>2. CASE c # b
    <3>1. bans[c].issued /\ ~bans[c].active
        BY <1>4, <1>t, <2>2
    <3>2. \A s \in Requests : banPc[s] = "audit" => banPc'[s] = "audit" /\ banReq'[s].ban = banReq[s].ban
        BY <1>1, <1>8 DEF BanOthersKept
    <3> QED BY <3>1, <3>2 DEF BansInv, LiftedBansAreAudited
  <2> QED BY <2>1, <2>2
<1>11. NewestIsOnItsWay'
  <2>1. \A s \in Requests : banPc[s] \in {"latest", "appealAudit"} => banPc'[s] = banPc[s] /\ banReq'[s] = banReq[s]
      BY <1>1, <1>8 DEF BanOthersKept
  <2> QED BY <1>1, <2>1 DEF BansInv, NewestIsOnItsWay, Newest
<1>12. BansTypeOK' /\ BanKnows'
  <2>1. bans' \in [BanIDs -> Ban]
      BY <1>4, <1>t
  <2> QED BY <1>1, <1>8, <2>1 DEF BansInv, BansTypeOK, BanRequestsOK, BanSteps
<1> QED BY <1>9, <1>10, <1>11, <1>12 DEF BansInv

\* A ban that expires stands for no post any more.
LEMMA BanExpiresInv ==
    ASSUME BansInv, NEW b \in BanIDs, BanExpires(b)
    PROVE  BansInv'
<1> DEFINE ban == [bans[b] EXCEPT !.expired = TRUE]
<1>t. bans \in [BanIDs -> Ban] /\ standing \in [Requests -> SUBSET BanIDs]
    BY DEF BansInv, BansTypeOK
<1>1. /\ bans' = [bans EXCEPT ![b].expired = TRUE]
      /\ standing' = [q \in Requests |-> standing[q] \ {b}]
      /\ UNCHANGED <<banAudited, appeals, appealAudited, banPc, banReq, unaudited>>
    BY DEF BanExpires
<1>2. /\ bans' = [bans EXCEPT ![b] = ban] /\ ban \in Ban /\ ban.issued = bans[b].issued
      /\ ban.active = bans[b].active
    BY <1>1, <1>t DEF Ban
<1> HIDE DEF ban
<1>3. standing' \in [Requests -> SUBSET BanIDs] /\ \A q \in Requests : standing'[q] = standing[q] \ {b}
    BY <1>1, <1>t
<1>4. StandingInv'
  <2>1. ban.active => ban.issued
      BY <1>2 DEF BansInv, StandingInv, ActiveAreIssued
  <2> QED BY <1>1, <1>2, <1>3, <2>1, StillIssuedInOrder, ChangedBanStands
<1>5. LiftedBansAreAudited'
  <2>1. \A c \in BanIDs : bans'[c].issued = bans[c].issued /\ bans'[c].active = bans[c].active
      BY <1>2, <1>t
  <2> QED BY <1>1, <2>1 DEF BansInv, LiftedBansAreAudited
<1>6. NewestIsOnItsWay'
    BY <1>1 DEF BansInv, NewestIsOnItsWay, Newest
<1>7. BansTypeOK' /\ BanKnows'
  <2>1. bans' \in [BanIDs -> Ban]
      BY <1>2, <1>t
  <2> QED BY <1>1, <1>3, <2>1 DEF BansInv, BansTypeOK, BanKnows
<1> QED BY <1>4, <1>5, <1>6, <1>7 DEF BansInv

\* The number of appeals is a number of the table.
LEMMA NewestType == Newest \in 0..MaxAppealID
<1> DEFINE A == {c \in AppealIDs : appeals[c] # 0}
<1>1. 1 \in Int /\ MaxAppealID \in Int /\ MaxAppealID \in Nat
    BY BanNumbers
<1>2. IsFiniteSet(AppealIDs) /\ Cardinality(AppealIDs) = MaxAppealID
    BY <1>1, FS_Interval, BanNumbers DEF AppealIDs
<1>3. A \in SUBSET AppealIDs
    OBVIOUS
<1> HIDE DEF A
<1>4. Cardinality(A) \in Nat /\ Cardinality(A) <= MaxAppealID
    BY <1>2, <1>3, FS_Subset, FS_CardinalityType
<1> QED BY <1>1, <1>4 DEF A, Newest

\* InsertAppeal leaves its request to read the id of the newest appeal.
LEMMA InsertAppealInv ==
    ASSUME BansInv, NEW r \in Requests, InsertAppeal(r)
    PROVE  BansInv'
<1> DEFINE q == banReq[r]
           a == Newest + 1
<1>t. /\ banReq \in [Requests -> BanLocals] /\ appeals \in [AppealIDs -> 0..MaxBanID]
      /\ standing \in [Requests -> SUBSET BanIDs]
    BY DEF BansInv, BansTypeOK
<1>1. /\ banPc[r] = "appeal" /\ BanGoto(r, "latest")
      /\ appeals' = [appeals EXCEPT ![a] = q.ban]
      /\ UNCHANGED <<bans, banAudited, appealAudited, banReq, standing, unaudited>>
    BY DEF InsertAppeal, Newest
<1>2. q \in BanLocals /\ banReq' = [banReq EXCEPT ![r] = q]
    BY <1>1, <1>t
<1>3. appeals' \in [AppealIDs -> 0..MaxBanID]
  <2>1. q.ban \in 0..MaxBanID
      BY <1>2 DEF BanLocals
  <2> HIDE DEF a, q
  <2> QED BY <1>1, <1>t, <2>1
<1> HIDE DEF q, a
<1>4. BanStepOK("latest", q)
    BY <1>2 DEF BanStepOK, BanSteps
<1>5. BanRequestsOK
    BY DEF BansInv, BansTypeOK, BanRequestsOK, BanSteps
<1>6. BanRequestsOK' /\ BanOthersKept(r) /\ banPc'[r] = "latest" /\ banReq'[r] = q
    BY <1>1, <1>2, <1>4, <1>5, <1>t, BanGotoOK
<1>7. BansTypeOK' /\ BanKnows'
    BY <1>1, <1>3, <1>6 DEF BansInv, BansTypeOK, BanRequestsOK, BanSteps
<1>8. StandingInv'
  <2>1. \A b \in standing'[r] : InForce(bans[b])
      BY <1>1 DEF BansInv, StandingInv, StandingInForce
  <2> QED BY <1>1, <1>6, <2>1, SameBansStand
<1>9. LiftedBansAreAudited'
    BY <1>1, <1>6, AuditedStay
<1>10. NewestIsOnItsWay'
    BY <1>6 DEF NewestIsOnItsWay
<1> QED BY <1>7, <1>8, <1>9, <1>10 DEF BansInv

\* LatestAppeal reads the id of the newest appeal.
LEMMA LatestAppealInv ==
    ASSUME BansInv, NEW r \in Requests, LatestAppeal(r)
    PROVE  BansInv'
<1> DEFINE q == banReq[r]
           locals == [q EXCEPT !.appeal = Newest]
<1>t. /\ banReq \in [Requests -> BanLocals] /\ standing \in [Requests -> SUBSET BanIDs]
      /\ banAudited \subseteq BanIDs /\ appealAudited \subseteq AppealIDs /\ unaudited \subseteq BanIDs \cup {0}
    BY DEF BansInv, BansTypeOK
<1>1. /\ banPc[r] = "latest" /\ BanGoto(r, "appealAudit")
      /\ banReq' = [banReq EXCEPT ![r].appeal = Newest]
      /\ UNCHANGED <<bans, banAudited, appeals, appealAudited, unaudited, standing>>
    BY DEF LatestAppeal, BanTablesUnchanged, Newest
<1>2. q \in BanLocals /\ banReq' = [banReq EXCEPT ![r] = locals]
    BY <1>1, <1>t
<1>3. locals \in BanLocals /\ locals.appeal = Newest
  <2> HIDE DEF q
  <2> QED BY <1>2, NewestType DEF BanLocals
<1> HIDE DEF locals
<1>4. BanStepOK("appealAudit", locals)
    BY <1>3 DEF BanStepOK, BanSteps
<1>5. BanRequestsOK
    BY DEF BansInv, BansTypeOK, BanRequestsOK, BanSteps
<1>6. BanRequestsOK' /\ BanOthersKept(r) /\ banPc'[r] = "appealAudit" /\ banReq'[r] = locals
    BY <1>1, <1>2, <1>4, <1>5, <1>t, BanGotoOK
<1>7. \A b \in standing'[r] : InForce(bans[b])
    BY <1>1 DEF BansInv, StandingInv, StandingInForce
<1> QED BY <1>1, <1>3, <1>6, <1>7, <1>t, QuietBansInv

\* BansInv is inductive, and no post that is covered by a ban that stands goes through.
LEMMA BansInvInductive == BansInv /\ [BansNext]_banVars => BansInv' /\ [OnlyUncoveredPosts]_banVars
<1> SUFFICES ASSUME BansInv, [BansNext]_banVars
             PROVE  BansInv' /\ OnlyUncoveredPosts
    OBVIOUS
<1>t. /\ banAudited \subseteq BanIDs /\ appealAudited \subseteq AppealIDs /\ unaudited \subseteq BanIDs \cup {0}
      /\ banReq \in [Requests -> BanLocals] /\ standing \in [Requests -> SUBSET BanIDs]
    BY DEF BansInv, BansTypeOK
<1>p. OnlyUncoveredPosts
    BY DEF BansInv, StandingInv, PassedCheck, OnlyUncoveredPosts
<1>1. ASSUME NEW r \in Requests, NEW b \in BanIDs, StartDeactivation(r, b)
      PROVE  BansInv'
  <2> DEFINE locals == [NoBanLocals EXCEPT !.ban = b]
  <2>1. /\ banPc[r] = "idle" /\ BanGoto(r, "deactivate") /\ banReq' = [banReq EXCEPT ![r] = locals]
        /\ BanTablesUnchanged /\ UNCHANGED standing
      BY <1>1 DEF StartDeactivation
  <2>2. b \in 0..MaxBanID
      BY BanNumbers
  <2>3. locals \in BanLocals /\ locals.ban = b
      BY <2>2, NoBanLocalsType DEF BanLocals
  <2> HIDE DEF locals
  <2>4. BanStepOK("deactivate", locals)
      BY <2>3 DEF BanStepOK, BanSteps
  <2> QED BY <2>1, <2>4, BanStepInv
<1>2. ASSUME NEW r \in Requests, ReadBan(r)
      PROVE  BansInv'
  <2> DEFINE locals == banReq[r]
  <2>1. banPc[r] = "deactivate" /\ BanTablesUnchanged /\ UNCHANGED <<bans, banAudited, appeals, appealAudited, unaudited>>
      BY <1>2 DEF ReadBan, BanTablesUnchanged
  <2>2. CASE BanGoto(r, "update") /\ UNCHANGED <<banReq, standing>>
    <3>1. locals \in BanLocals /\ banReq' = [banReq EXCEPT ![r] = locals] /\ locals.ban \in BanIDs
        BY <1>t, <2>1, <2>2 DEF BansInv, BanKnows
    <3> HIDE DEF locals
    <3>2. BanStepOK("update", locals)
        BY <3>1 DEF BanStepOK, BanSteps
    <3> QED BY <2>1, <2>2, <3>1, <3>2, BanStepInv
  <2>3. CASE BanDone(r)
      BY <1>t, <2>1, <2>3, BanDoneInv
  <2> QED BY <1>2, <2>2, <2>3 DEF ReadBan
<1>3. ASSUME NEW r \in Requests, InsertBanAudit(r)
      PROVE  BansInv'
  <2>1. /\ banPc[r] = "audit" /\ BanDone(r) /\ UNCHANGED <<bans, appeals, appealAudited, unaudited>>
        /\ banAudited' = banAudited \cup {banReq[r].ban}
      BY <1>3 DEF InsertBanAudit
  <2>2. banReq[r].ban \in BanIDs
      BY <2>1 DEF BansInv, BanKnows
  <2> QED BY <1>t, <2>1, <2>2, BanDoneInv
<1>4. ASSUME NEW r \in Requests, NEW h \in Hosts, NEW b \in BanIDs, HandleAppeal(r, h, b)
      PROVE  BansInv'
  <2> DEFINE locals == [NoBanLocals EXCEPT !.ban = b]
  <2>1. /\ banPc[r] = "idle" /\ BanGoto(r, "appeal") /\ banReq' = [banReq EXCEPT ![r] = locals]
        /\ BanTablesUnchanged /\ UNCHANGED standing
      BY <1>4 DEF HandleAppeal
  <2>2. b \in 0..MaxBanID
      BY BanNumbers
  <2>3. locals \in BanLocals /\ locals.ban = b
      BY <2>2, NoBanLocalsType DEF BanLocals
  <2> HIDE DEF locals
  <2>4. BanStepOK("appeal", locals)
      BY <2>3 DEF BanStepOK, BanSteps
  <2> QED BY <2>1, <2>4, BanStepInv
<1>5. ASSUME NEW r \in Requests, InsertAppealAudit(r)
      PROVE  BansInv'
  <2>1. /\ banPc[r] = "appealAudit" /\ BanDone(r) /\ UNCHANGED <<bans, banAudited, appeals, unaudited>>
        /\ appealAudited' = IF banReq[r].appeal = 0 THEN appealAudited
                            ELSE appealAudited \cup {banReq[r].appeal}
      BY <1>5 DEF InsertAppealAudit
  <2>2. banReq[r].appeal = 0 \/ banReq[r].appeal \in AppealIDs
    <3>1. banReq[r].appeal \in 0..MaxAppealID
        BY <1>t DEF BanLocals
    <3> QED BY <3>1, BanNumbers DEF AppealIDs
  <2> QED BY <1>t, <2>1, <2>2, BanDoneInv
<1>6. ASSUME NEW r \in Requests, NEW a \in AppealIDs, StartApproval(r, a)
      PROVE  BansInv'
  <2> DEFINE locals == [NoBanLocals EXCEPT !.appeal = a]
  <2>1. /\ banPc[r] = "idle" /\ BanGoto(r, "approve") /\ banReq' = [banReq EXCEPT ![r] = locals]
        /\ BanTablesUnchanged /\ UNCHANGED standing
      BY <1>6 DEF StartApproval
  <2>2. a \in 0..MaxAppealID
      BY BanNumbers
  <2>3. locals \in BanLocals /\ locals.appeal = a
      BY <2>2, NoBanLocalsType DEF BanLocals
  <2> HIDE DEF locals
  <2>4. BanStepOK("approve", locals)
      BY <2>3 DEF BanStepOK, BanSteps
  <2> QED BY <2>1, <2>4, BanStepInv
<1>7. ASSUME NEW r \in Requests, ApproveAppeal(r)
      PROVE  BansInv'
  <2>1. banPc[r] = "approve" /\ BanDone(r) /\ UNCHANGED <<bans, banAudited, appeals, appealAudited, unaudited>>
      BY <1>7 DEF ApproveAppeal, BanTablesUnchanged
  <2> QED BY <1>t, <2>1, BanDoneInv
<1>8. ASSUME NEW r \in Requests, BanQueryFails(r)
      PROVE  BansInv'
  <2>1. /\ BanDone(r) /\ UNCHANGED <<bans, banAudited, appeals, appealAudited>>
      BY <1>8 DEF BanQueryFails
  <2>2. CASE banPc[r] = "audit"
    <3>1. unaudited' = unaudited \cup {banReq[r].ban}
        BY <1>8, <2>2 DEF BanQueryFails
    <3>2. banReq[r].ban \in BanIDs
        BY <2>2 DEF BansInv, BanKnows
    <3> QED BY <1>t, <2>1, <2>2, <3>1, <3>2, BanDoneInv
  <2>3. CASE banPc[r] \in {"latest", "appealAudit"}
    <3>1. unaudited' = unaudited \cup {0}
        BY <1>8, <2>3 DEF BanQueryFails
    <3> QED BY <1>t, <2>1, <2>3, <3>1, BanDoneInv
  <2>4. CASE banPc[r] \notin {"audit", "latest", "appealAudit"}
    <3>1. unaudited' = unaudited
        BY <1>8, <2>4 DEF BanQueryFails
    <3> QED BY <1>t, <2>1, <2>4, <3>1, BanDoneInv
  <2> QED BY <2>2, <2>3, <2>4
<1>9. CASE UNCHANGED banVars
  <2>1. UNCHANGED <<bans, banAudited, appeals, appealAudited, banPc, banReq, standing, unaudited>>
      BY <1>9 DEF banVars
  <2>2. BansTypeOK' /\ BanKnows'
      BY <2>1 DEF BansInv, BansTypeOK, BanKnows
  <2>3. StandingInv'
      BY <2>1 DEF BansInv, StandingInv, IssuedInOrder, Issued, ActiveAreIssued, StandingInForce, PassedCheck,
                  Covers, InForce
  <2>4. LiftedBansAreAudited'
      BY <2>1 DEF BansInv, LiftedBansAreAudited
  <2>5. NewestIsOnItsWay'
    <3>1. Newest' = Newest
        BY <2>1 DEF Newest
    <3> QED BY <2>1, <3>1 DEF BansInv, NewestIsOnItsWay
  <2> QED BY <1>p, <2>2, <2>3, <2>4, <2>5 DEF BansInv
<1>10. BansInv'
    BY <1>1, <1>2, <1>3, <1>4, <1>5, <1>6, <1>7, <1>8, <1>9, PostBansInv, NewIPBanInv, UpdateBanInv,
       InsertAppealInv, LatestAppealInv, BanExpiresInv DEF BansNext
<1> QED BY <1>p, <1>10

\* BansInv holds before the first request.
LEMMA BansInvInit == BansInit => BansInv
<1> SUFFICES ASSUME BansInit
             PROVE  BansInv
    OBVIOUS
<1>1. NoBan \in Ban /\ ~NoBan.issued /\ ~NoBan.active
    BY HostsAssumption DEF NoBan, Ban
<1>2. BansTypeOK
  <2>1. 0 \in 0..MaxBanID
      BY BanNumbers
  <2> QED BY <1>1, <2>1, NoBanLocalsType DEF BansInit, BansTypeOK
<1>3. IssuedInOrder
  <2>1. Issued = {}
      BY <1>1 DEF Issued, BansInit
  <2>2. \A b \in BanIDs : ~(b <= 0)
      BY BanNumbers DEF BanIDs
  <2> QED BY <1>1, <2>1, <2>2, FS_EmptySet DEF IssuedInOrder, BansInit
<1>4. ActiveAreIssued /\ StandingInForce /\ PassedCheck /\ BanKnows /\ LiftedBansAreAudited
    BY <1>1 DEF BansInit, ActiveAreIssued, StandingInForce, PassedCheck, BanKnows, LiftedBansAreAudited
<1>5. NewestIsOnItsWay
  <2>1. {c \in AppealIDs : appeals[c] # 0} = {}
      BY DEF BansInit
  <2> QED BY <2>1, FS_EmptySet DEF NewestIsOnItsWay, Newest
<1> QED BY <1>2, <1>3, <1>4, <1>5 DEF BansInv, StandingInv

\* The tables of bans and appeals and what the requests hold keep their types.
THEOREM BansTypeCorrect == BansSpec => []BansTypeOK
<1>1. BansInv => BansTypeOK
    BY DEF BansInv
<1> QED BY <1>1, BansInvInit, BansInvInductive, PTL DEF BansSpec

\* A ban in force since before a post was submitted stops the post (gcsql.CheckIPBan), whatever bans
\* are issued, lifted or expire meanwhile.
THEOREM BannedCannotPostCorrect == BansSpec => BannedCannotPost
<1>1. BansInv /\ [BansNext]_banVars =>
         [\A r \in Requests : banPc[r] = "post" /\ banPc'[r] = "idle" =>
             \A b \in standing[r] :
                ~(/\ banReq[r].host \in bans[b].from..bans[b].to
                  /\ bans[b].board \in {AllBoards, banReq[r].board})]_banVars
    BY BansInvInductive DEF OnlyUncoveredPosts, Covers
<1> QED BY <1>1, BansInvInit, BansInvInductive, PTL DEF BansSpec, BannedCannotPost

\* A lifted ban is in the audit table, or its row is still to come or a query for it failed
\* (gcsql.DeactivateBan).
THEOREM LiftedBansAreAuditedCorrect == BansSpec => []LiftedBansAreAudited
<1>1. BansInv => LiftedBansAreAudited
    BY DEF BansInv
<1> QED BY <1>1, BansInvInit, BansInvInductive, PTL DEF BansSpec

\* The newest appeal has its audit row once no appeal is being submitted, if none failed half way
\* (IPBan.Appeal reads the id with SELECT MAX, after the insert).
THEOREM NewestAppealIsAuditedCorrect == BansSpec => []NewestAppealIsAudited
<1>1. BansInv => NewestAppealIsAudited
  <2>1. BansInv => NewestIsOnItsWay
      BY DEF BansInv
  <2> QED BY <2>1 DEF NewestIsOnItsWay, NewestAppealIsAudited, Newest
<1> QED BY <1>1, BansInvInit, BansInvInductive, PTL DEF BansSpec

(* Filters. *)

\* The wordfilter staff are editing.
FilterKnows ==
    \A r \in Requests :
       filterPc[r] \in {"details", "conditions", "boards"} => filterReq[r].id \in FilterIDs

\* A filter that stops posts, and what has to hold of it in a pass whose list has it: it is still to
\* be checked, or it does not match, unless a filter that logs ended the pass.
Stops(f) == filters[f].here /\ filters[f].action \in {"reject", "ban"}
ToCheckOrPassed(r, f, upload) ==
    \/ filterReq[r].logged
    \/ Row(f) \in filterReq[r].todo
    \/ ~Matches(filters[f].conditions, filters[f].any, filterReq[r].text, upload)

\* In the first pass that goes for the filters of its list, which have no upload conditions; in the
\* second one for all of them.
PassOK(r) ==
    \A f \in active \ filterChanged[r] : Stops(f) =>
       /\ filterPc[r] = "check1" /\ f \in filterReq[r].excluded =>
             filters[f].conditions \cap UploadFields = {} /\ ToCheckOrPassed(r, f, FALSE)
       /\ filterPc[r] = "check2" => ToCheckOrPassed(r, f, filterReq[r].file)

FiltersInv == FiltersTypeOK /\ FilterKnows /\ \A r \in Requests : PassOK(r)

FilterSteps == {"idle", "word", "check1", "check2", "details", "conditions", "boards"}
FilterRequestsOK ==
    /\ filterPc \in [Requests -> FilterSteps]
    /\ filterReq \in [Requests -> FilterLocals]
    /\ FilterKnows

FilterOthersKept(r) ==
    \A q \in Requests \ {r} : filterPc'[q] = filterPc[q] /\ filterReq'[q] = filterReq[q]

\* Without upload conditions a filter does not care for the upload.
LEMMA UploadDoesNotMatter ==
    ASSUME NEW conditions, conditions \cap UploadFields = {}, NEW any, NEW text, NEW upload
    PROVE  Matches(conditions, any, text, upload) <=> Matches(conditions, any, text, FALSE)
<1>1. \A c \in conditions : c # "hasfile" /\ c # "nofile"
    BY DEF UploadFields
<1>2. \A c \in conditions : Satisfied(c, text, upload) <=> Satisfied(c, text, FALSE)
    BY <1>1 DEF Satisfied
<1> QED BY <1>2 DEF Matches

\* What is left of a request that has returned.
LEMMA NoFormType == NoForm \in Form
    BY DEF NoForm, Form

\* The variables of uploadFilterHelper before it is called are among the ones it can have.
LEMMA NoFilterLocalsType == NoFilterLocals \in FilterLocals
<1>1. 0 \in 0..MaxFilterID
    BY MaxFilterIDAssumption
<1> QED BY <1>1, NoFormType DEF NoFilterLocals, FilterLocals

\* A filter's row as a request reads it.
LEMMA RowType ==
    ASSUME FiltersTypeOK, NEW f \in FilterIDs
    PROVE  Row(f) \in Rows
<1>1. filters[f] \in Form
    BY DEF FiltersTypeOK
<1> QED BY <1>1 DEF Row, Rows, Form

\* What a request holds at a step.
FilterStepOK(step, locals) ==
    /\ step \in FilterSteps
    /\ locals \in FilterLocals
    /\ step \in {"details", "conditions", "boards"} => locals.id \in FilterIDs

\* A request that goes on leaves the others alone.
LEMMA FilterGotoOK ==
    ASSUME FilterRequestsOK, NEW r \in Requests, NEW step, NEW locals, FilterStepOK(step, locals),
           FilterGoto(r, step), filterReq' = [filterReq EXCEPT ![r] = locals]
    PROVE  FilterRequestsOK' /\ FilterOthersKept(r) /\ filterPc'[r] = step /\ filterReq'[r] = locals
<1>1. /\ filterPc' \in [Requests -> FilterSteps] /\ filterReq' \in [Requests -> FilterLocals]
      /\ filterPc'[r] = step /\ filterReq'[r] = locals /\ FilterOthersKept(r)
    BY DEF FilterRequestsOK, FilterStepOK, FilterGoto, FilterOthersKept
<1>2. FilterKnows'
    BY <1>1 DEF FilterRequestsOK, FilterKnows, FilterStepOK, FilterOthersKept
<1> QED BY <1>1, <1>2 DEF FilterRequestsOK

\* The tables do not change and the request that takes the step keeps up its pass.
LEMMA SamePassesInv ==
    ASSUME FiltersInv, NEW r \in Requests, FilterRequestsOK', FilterOthersKept(r), FiltersUnchanged,
           hits' \subseteq FilterIDs, filterChanged' \in [Requests -> SUBSET FilterIDs],
           \A q \in Requests \ {r} : filterChanged'[q] = filterChanged[q],
           PassOK(r)'
    PROVE  FiltersInv'
<1>1. UNCHANGED <<filters, active>>
    BY DEF FiltersUnchanged
<1>2. FiltersTypeOK' /\ FilterKnows'
    BY <1>1 DEF FiltersInv, FiltersTypeOK, FilterRequestsOK, FilterSteps
<1>3. ASSUME NEW q \in Requests
      PROVE  PassOK(q)'
  <2>1. CASE q = r
      BY <2>1
  <2>2. CASE q # r
    <3>1. PassOK(q)
        BY DEF FiltersInv
    <3>2. /\ filterPc'[q] = filterPc[q] /\ filterReq'[q] = filterReq[q] /\ filterChanged'[q] = filterChanged[q]
        BY <2>2 DEF FilterOthersKept
    <3> QED BY <1>1, <3>1, <3>2 DEF PassOK, Stops, ToCheckOrPassed, Row
  <2> QED BY <2>1, <2>2
<1> QED BY <1>2, <1>3 DEF FiltersInv

\* A request that goes on with the tables as they are and the filters changed so far.
LEMMA FilterStepInv ==
    ASSUME FiltersInv, NEW r \in Requests, NEW step, NEW locals, FilterStepOK(step, locals),
           FilterGoto(r, step), filterReq' = [filterReq EXCEPT ![r] = locals], FiltersUnchanged,
           hits' \subseteq FilterIDs, UNCHANGED filterChanged,
           \A f \in active \ filterChanged[r] : Stops(f) =>
              /\ step = "check1" /\ f \in locals.excluded =>
                    /\ filters[f].conditions \cap UploadFields = {}
                    /\ \/ locals.logged \/ Row(f) \in locals.todo
                       \/ ~Matches(filters[f].conditions, filters[f].any, locals.text, FALSE)
              /\ step = "check2" =>
                    \/ locals.logged \/ Row(f) \in locals.todo
                    \/ ~Matches(filters[f].conditions, filters[f].any, locals.text, locals.file)
    PROVE  FiltersInv'
<1>1. FilterRequestsOK /\ filterChanged \in [Requests -> SUBSET FilterIDs]
    BY DEF FiltersInv, FiltersTypeOK, FilterRequestsOK, FilterSteps
<1>2. FilterRequestsOK' /\ FilterOthersKept(r) /\ filterPc'[r] = step /\ filterReq'[r] = locals
    BY <1>1, FilterGotoOK
<1>3. UNCHANGED <<filters, active>>
    BY DEF FiltersUnchanged
<1>4. PassOK(r)'
  <2> SUFFICES ASSUME NEW f \in active \ filterChanged[r], Stops(f)
               PROVE  /\ step = "check1" /\ f \in locals.excluded =>
                            filters[f].conditions \cap UploadFields = {} /\ ToCheckOrPassed(r, f, FALSE)'
                      /\ step = "check2" => ToCheckOrPassed(r, f, locals.file)'
      BY <1>2, <1>3 DEF PassOK, Stops, ToCheckOrPassed, Row
  <2>1. Row(f)' = Row(f)
      BY <1>3 DEF Row
  <2> QED BY <1>2, <1>3, <2>1 DEF ToCheckOrPassed
<1> QED BY <1>1, <1>2, <1>4, SamePassesInv

\* A request that returns.
LEMMA FilterDoneInv ==
    ASSUME FiltersInv, NEW r \in Requests, FilterDone(r), FiltersUnchanged, hits' \subseteq FilterIDs
    PROVE  FiltersInv'
<1>1. FilterRequestsOK /\ filterChanged \in [Requests -> SUBSET FilterIDs]
    BY DEF FiltersInv, FiltersTypeOK, FilterRequestsOK, FilterSteps
<1>2. FilterStepOK("idle", NoFilterLocals)
    BY NoFilterLocalsType DEF FilterStepOK, FilterSteps
<1>3. FilterRequestsOK' /\ FilterOthersKept(r) /\ filterPc'[r] = "idle"
    BY <1>1, <1>2, FilterGotoOK DEF FilterDone
<1>4. /\ filterChanged' \in [Requests -> SUBSET FilterIDs]
      /\ \A q \in Requests \ {r} : filterChanged'[q] = filterChanged[q]
    BY <1>1 DEF FilterDone
<1>5. PassOK(r)'
    BY <1>3 DEF PassOK
<1> QED BY <1>3, <1>4, <1>5, SamePassesInv

\* Staff change a filter, or whether it is active: every post that is being filtered is told.
LEMMA ChangedInv ==
    ASSUME FiltersInv, NEW r \in Requests, NEW g \in FilterIDs, Changed(g),
           filters' \in [FilterIDs -> Form], \A f \in FilterIDs \ {g} : filters'[f] = filters[f],
           active' \subseteq FilterIDs, \A f \in FilterIDs \ {g} : f \in active' => f \in active,
           hits' \subseteq FilterIDs, FilterRequestsOK', FilterOthersKept(r), ~Filtering(r)'
    PROVE  FiltersInv'
<1>1. filterChanged' = [q \in Requests |-> IF Filtering(q) THEN filterChanged[q] \cup {g} ELSE {}]
    BY DEF Changed
<1>2. filterChanged' \in [Requests -> SUBSET FilterIDs]
    BY <1>1 DEF FiltersInv, FiltersTypeOK
<1>3. FiltersTypeOK' /\ FilterKnows'
    BY <1>2 DEF FiltersInv, FiltersTypeOK, FilterRequestsOK, FilterSteps
<1>4. ASSUME NEW q \in Requests
      PROVE  PassOK(q)'
  <2>1. CASE q = r \/ ~Filtering(q)
    <3>1. ~Filtering(q)'
        BY <2>1 DEF Filtering, FilterOthersKept
    <3> QED BY <3>1 DEF PassOK, Filtering
  <2>2. CASE q # r /\ Filtering(q)
    <3>1. PassOK(q)
        BY DEF FiltersInv
    <3>2. /\ filterPc'[q] = filterPc[q] /\ filterReq'[q] = filterReq[q]
          /\ filterChanged'[q] = filterChanged[q] \cup {g}
        BY <1>1, <2>2 DEF FilterOthersKept
    <3>3. \A f \in active' \ filterChanged'[q] :
             f \in active \ filterChanged[q] /\ filters'[f] = filters[f] /\ Row(f)' = Row(f)
        BY <3>2 DEF Row
    <3> QED BY <3>1, <3>2, <3>3 DEF PassOK, Stops, ToCheckOrPassed
  <2> QED BY <2>1, <2>2
<1> QED BY <1>3, <1>4 DEF FiltersInv

\* StartFiltering and ApplyWordfilter: before the first pass nothing is promised yet.
LEMMA WordfiltersInv ==
    ASSUME FiltersInv, NEW r \in Requests,
           \/ \E text \in SUBSET Words, file \in BOOLEAN : StartFiltering(r, text, file)
           \/ \E row \in filterReq[r].todo : ApplyWordfilter(r, row)
    PROVE  FiltersInv'
<1>t. /\ filterReq \in [Requests -> FilterLocals] /\ hits \subseteq FilterIDs /\ active \subseteq FilterIDs
      /\ filterPc \in [Requests -> FilterSteps] /\ FiltersTypeOK
    BY DEF FiltersInv, FiltersTypeOK, FilterSteps
<1>1. ASSUME NEW text \in SUBSET Words, NEW file \in BOOLEAN, StartFiltering(r, text, file)
      PROVE  FiltersInv'
  <2> DEFINE rows == {Row(f) : f \in {g \in active : filters[g].here /\ filters[g].action = "replace"}}
             locals == [NoFilterLocals EXCEPT !.text = text, !.file = file, !.todo = rows]
  <2>1. /\ FilterGoto(r, "word") /\ filterReq' = [filterReq EXCEPT ![r] = locals]
        /\ FiltersUnchanged /\ UNCHANGED <<hits, filterChanged>>
      BY <1>1 DEF StartFiltering
  <2>2. rows \in SUBSET Rows
      BY <1>t, RowType
  <2> HIDE DEF rows
  <2>3. locals \in FilterLocals
      BY <2>2, NoFilterLocalsType DEF FilterLocals
  <2> HIDE DEF locals
  <2>4. FilterStepOK("word", locals)
      BY <2>3 DEF FilterStepOK, FilterSteps
  <2> QED BY <1>t, <2>1, <2>4, FilterStepInv
<1>2. ASSUME NEW row \in filterReq[r].todo, ApplyWordfilter(r, row)
      PROVE  FiltersInv'
  <2> DEFINE q == filterReq[r]
             found == filters[row.id].conditions \cap q.text
             text == IF found = {} THEN q.text ELSE (q.text \ found) \cup ({row.detail} \ {""})
             locals == [q EXCEPT !.todo = @ \ {row}, !.text = text]
  <2>1. FiltersUnchanged /\ UNCHANGED hits /\ filterPc[r] = "word"
      BY <1>2 DEF ApplyWordfilter
  <2>2. CASE FilterDone(r)
      BY <1>t, <2>1, <2>2, FilterDoneInv
  <2>3. CASE ~FilterDone(r)
    <3>1. /\ filterReq' = [filterReq EXCEPT ![r].todo = @ \ {row}, ![r].text = text]
          /\ UNCHANGED <<filterPc, filterChanged>>
        BY <1>2, <2>3 DEF ApplyWordfilter
    <3>2. q \in FilterLocals /\ q.todo \in SUBSET Rows /\ q.text \in SUBSET Words
        BY <1>t DEF FilterLocals
    <3>3. row.detail \in Words \cup {""}
        BY <3>2 DEF Rows
    <3>4. text \in SUBSET Words
        BY <3>2, <3>3
    <3> HIDE DEF text
    <3>5. filterReq' = [filterReq EXCEPT ![r] = locals]
        BY <1>t, <3>1
    <3> HIDE DEF q
    <3>6. locals \in FilterLocals
        BY <3>2, <3>4 DEF FilterLocals
    <3> HIDE DEF locals
    <3>7. FilterStepOK("word", locals) /\ FilterGoto(r, "word")
        BY <1>t, <2>1, <3>1, <3>6 DEF FilterStepOK, FilterSteps, FilterGoto
    <3> QED BY <1>t, <2>1, <3>1, <3>5, <3>7, FilterStepInv
  <2> QED BY <2>2, <2>3
<1> QED BY <1>1, <1>2

\* The first pass starts with the rows of the filters without upload conditions.
LEMMA DoNonUploadFilteringInv ==
    ASSUME FiltersInv, NEW r \in Requests, DoNonUploadFiltering(r)
    PROVE  FiltersInv'
<1> DEFINE q == filterReq[r]
           list == {f \in active : InFirstPass(f)}
           rows == {Row(f) : f \in list}
           locals == [q EXCEPT !.todo = rows, !.excluded = list]
<1>t. /\ filterReq \in [Requests -> FilterLocals] /\ hits \subseteq FilterIDs /\ active \subseteq FilterIDs
      /\ FiltersTypeOK
    BY DEF FiltersInv, FiltersTypeOK
<1>1. /\ FilterGoto(r, "check1") /\ FiltersUnchanged /\ UNCHANGED <<hits, filterChanged>>
      /\ filterReq' = [filterReq EXCEPT ![r].todo = rows, ![r].excluded = list]
    BY DEF DoNonUploadFiltering
<1>2. list \in SUBSET FilterIDs /\ rows \in SUBSET Rows
    BY <1>t, RowType
<1>3. \A f \in list : filters[f].conditions \cap UploadFields = {} /\ Row(f) \in rows
    BY DEF InFirstPass
<1> HIDE DEF list, rows
<1>4. filterReq' = [filterReq EXCEPT ![r] = locals] /\ q \in FilterLocals
    BY <1>t, <1>1
<1> HIDE DEF q
<1>5. locals \in FilterLocals /\ locals.excluded = list /\ locals.todo = rows
    BY <1>2, <1>4 DEF FilterLocals
<1> HIDE DEF locals
<1>6. FilterStepOK("check1", locals)
    BY <1>5 DEF FilterStepOK, FilterSteps
<1> QED BY <1>t, <1>1, <1>3, <1>4, <1>5, <1>6, FilterStepInv

\* The second pass starts with all others: of the first list none is left that matches.
LEMMA DoPostFilteringInv ==
    ASSUME FiltersInv, NEW r \in Requests, DoPostFiltering(r)
    PROVE  FiltersInv'
<1> DEFINE q == filterReq[r]
           list == {f \in active \ q.excluded : filters[f].here /\ filters[f].action # "replace"}
           rows == {Row(f) : f \in list}
           locals == [q EXCEPT !.todo = rows]
<1>t. /\ filterReq \in [Requests -> FilterLocals] /\ hits \subseteq FilterIDs /\ active \subseteq FilterIDs
      /\ FiltersTypeOK
    BY DEF FiltersInv, FiltersTypeOK
<1>1. /\ filterPc[r] = "check1" /\ q.todo = {}
      /\ FilterGoto(r, "check2") /\ FiltersUnchanged /\ UNCHANGED <<hits, filterChanged>>
      /\ filterReq' = [filterReq EXCEPT ![r].todo = rows]
    BY DEF DoPostFiltering
<1>2. rows \in SUBSET Rows
    BY <1>t, RowType
<1>3. ASSUME NEW f \in active \ filterChanged[r], Stops(f)
      PROVE  q.logged \/ Row(f) \in rows \/ ~Matches(filters[f].conditions, filters[f].any, q.text, q.file)
  <2>1. CASE f \in q.excluded
    <3>1. filters[f].conditions \cap UploadFields = {} /\ ToCheckOrPassed(r, f, FALSE)
        BY <1>1, <1>3, <2>1 DEF FiltersInv, PassOK
    <3>2. q.logged \/ ~Matches(filters[f].conditions, filters[f].any, q.text, FALSE)
        BY <1>1, <3>1 DEF ToCheckOrPassed
    <3> HIDE DEF q
    <3> QED BY <3>1, <3>2, UploadDoesNotMatter
  <2>2. CASE f \notin q.excluded
      BY <1>3, <2>2 DEF Stops
  <2> QED BY <2>1, <2>2
<1> HIDE DEF list, rows
<1>4. filterReq' = [filterReq EXCEPT ![r] = locals] /\ q \in FilterLocals
    BY <1>t, <1>1
<1> HIDE DEF q
<1>5. /\ locals \in FilterLocals /\ locals.todo = rows /\ locals.logged = q.logged
      /\ locals.text = q.text /\ locals.file = q.file
    BY <1>2, <1>4 DEF FilterLocals
<1> HIDE DEF locals
<1>6. FilterStepOK("check2", locals)
    BY <1>5 DEF FilterStepOK, FilterSteps
<1> QED BY <1>t, <1>1, <1>3, <1>4, <1>5, <1>6, FilterStepInv

\* CheckFilter takes a filter off the list only if it does not match, or ends the pass.
LEMMA CheckFilterInv ==
    ASSUME FiltersInv, NEW r \in Requests, NEW row \in filterReq[r].todo, CheckFilter(r, row)
    PROVE  FiltersInv'
<1> DEFINE q == filterReq[r]
           upload == filterPc[r] = "check2" /\ q.file
           match == Matches(filters[row.id].conditions, row.any, q.text, upload)
           passed == [q EXCEPT !.todo = @ \ {row}]
           ended == [q EXCEPT !.todo = {}, !.logged = TRUE]
<1>t. /\ filterReq \in [Requests -> FilterLocals] /\ hits \subseteq FilterIDs /\ active \subseteq FilterIDs
      /\ filterPc \in [Requests -> FilterSteps] /\ FiltersTypeOK
    BY DEF FiltersInv, FiltersTypeOK, FilterSteps
<1>1. /\ filterPc[r] \in {"check1", "check2"} /\ FiltersUnchanged
      /\ hits' = IF match THEN hits \cup {row.id} ELSE hits
    BY DEF CheckFilter
<1>2. q \in FilterLocals /\ q.file \in BOOLEAN /\ row \in Rows /\ row.id \in FilterIDs
  <2>1. q \in FilterLocals
      BY <1>t
  <2>2. q.file \in BOOLEAN /\ q.todo \in SUBSET Rows
      BY <2>1 DEF FilterLocals
  <2>3. row \in Rows
      BY <2>2
  <2>4. row.id \in FilterIDs
      BY <2>3 DEF Rows
  <2> QED BY <2>1, <2>2, <2>3, <2>4
<1>3. hits' \subseteq FilterIDs
    BY <1>t, <1>1, <1>2
<1>4. filterPc' = filterPc => FilterGoto(r, filterPc[r])
    BY <1>t DEF FilterGoto
<1>5. CASE ~match
  <2>1. filterReq' = [filterReq EXCEPT ![r].todo = @ \ {row}] /\ UNCHANGED <<filterPc, filterChanged>>
      BY <1>5 DEF CheckFilter
  <2>2. filterReq' = [filterReq EXCEPT ![r] = passed]
      BY <1>t, <2>1
  <2>3. ASSUME NEW f \in active \ filterChanged[r], Stops(f)
        PROVE  /\ filterPc[r] = "check1" /\ f \in q.excluded =>
                     /\ filters[f].conditions \cap UploadFields = {}
                     /\ \/ q.logged \/ Row(f) \in q.todo \ {row}
                        \/ ~Matches(filters[f].conditions, filters[f].any, q.text, FALSE)
               /\ filterPc[r] = "check2" =>
                     \/ q.logged \/ Row(f) \in q.todo \ {row}
                     \/ ~Matches(filters[f].conditions, filters[f].any, q.text, q.file)
    <3>1. /\ filterPc[r] = "check1" /\ f \in q.excluded =>
                filters[f].conditions \cap UploadFields = {} /\ ToCheckOrPassed(r, f, FALSE)
          /\ filterPc[r] = "check2" => ToCheckOrPassed(r, f, q.file)
        BY <2>3 DEF FiltersInv, PassOK
    <3>2. CASE Row(f) # row
        BY <3>1, <3>2 DEF ToCheckOrPassed
    <3>3. CASE Row(f) = row
      <4>1. row.id = f /\ row.any = filters[f].any
          BY <3>3 DEF Row
      <4>2. ~Matches(filters[f].conditions, filters[f].any, q.text, upload)
          BY <1>5, <4>1
      <4>3. CASE filterPc[r] = "check1"
        <5>1. upload = FALSE
            BY <4>3
        <5> HIDE DEF upload
        <5> QED BY <3>1, <4>2, <4>3, <5>1
      <4>4. CASE filterPc[r] = "check2"
        <5>1. upload = q.file
            BY <1>2, <4>4
        <5> HIDE DEF upload
        <5> QED BY <4>2, <4>4, <5>1
      <4> QED BY <1>1, <4>3, <4>4
    <3> QED BY <3>2, <3>3
  <2> HIDE DEF q
  <2>4. /\ passed \in FilterLocals /\ passed.todo = q.todo \ {row} /\ passed.logged = q.logged
        /\ passed.excluded = q.excluded /\ passed.text = q.text /\ passed.file = q.file
      BY <1>2 DEF FilterLocals
  <2> HIDE DEF passed
  <2>5. FilterStepOK(filterPc[r], passed)
      BY <1>1, <2>4 DEF FilterStepOK, FilterSteps
  <2> QED BY <1>1, <1>3, <1>4, <2>1, <2>2, <2>3, <2>4, <2>5, FilterStepInv
<1>6. CASE match /\ row.action = "log"
  <2>1. filterReq' = [filterReq EXCEPT ![r].todo = {}, ![r].logged = TRUE] /\ UNCHANGED <<filterPc, filterChanged>>
      BY <1>6 DEF CheckFilter
  <2>2. filterReq' = [filterReq EXCEPT ![r] = ended]
      BY <1>t, <2>1
  <2>3. \A f \in active \ filterChanged[r] : Stops(f) =>
           (filterPc[r] = "check1" /\ f \in q.excluded => filters[f].conditions \cap UploadFields = {})
      BY DEF FiltersInv, PassOK
  <2> HIDE DEF q, match
  <2>4. ended \in FilterLocals /\ ended.logged /\ ended.excluded = q.excluded
      BY <1>2 DEF FilterLocals
  <2> HIDE DEF ended
  <2>5. FilterStepOK(filterPc[r], ended)
      BY <1>1, <2>4 DEF FilterStepOK, FilterSteps
  <2> QED BY <1>1, <1>3, <1>4, <2>1, <2>2, <2>3, <2>4, <2>5, FilterStepInv
<1>7. CASE match /\ row.action # "log"
  <2>1. FilterDone(r)
      BY <1>7 DEF CheckFilter
  <2> QED BY <1>1, <1>3, <2>1, FilterDoneInv
<1> QED BY <1>5, <1>6, <1>7

\* The steps of a request of staff between the queries that change a filter.
LEMMA StaffFilterStepInv ==
    ASSUME FiltersInv, NEW r \in Requests, ~Filtering(r), filterPc[r] # "idle", NEW g \in FilterIDs, Changed(g),
           NEW filter \in Form, filters' = [filters EXCEPT ![g] = filter], UNCHANGED <<active, hits>>,
           \/ \E step \in {"conditions", "boards"} : FilterGoto(r, step) /\ UNCHANGED filterReq
           \/ FilterGoto(r, "idle") /\ filterReq' = [filterReq EXCEPT ![r] = NoFilterLocals]
    PROVE  FiltersInv'
<1>t. /\ filters \in [FilterIDs -> Form] /\ hits \subseteq FilterIDs /\ active \subseteq FilterIDs
      /\ filterPc \in [Requests -> FilterSteps] /\ filterReq \in [Requests -> FilterLocals]
    BY DEF FiltersInv, FiltersTypeOK, FilterSteps
<1>1. FilterRequestsOK
    BY DEF FiltersInv, FiltersTypeOK, FilterRequestsOK, FilterSteps
<1>2. FilterRequestsOK' /\ FilterOthersKept(r) /\ ~Filtering(r)'
  <2>1. CASE \E step \in {"conditions", "boards"} : FilterGoto(r, step) /\ UNCHANGED filterReq
    <3> DEFINE q == filterReq[r]
    <3>1. PICK step \in {"conditions", "boards"} : FilterGoto(r, step) /\ UNCHANGED filterReq
        BY <2>1
    <3>2. filterPc[r] \in {"details", "conditions", "boards"}
        BY <1>t DEF Filtering, FilterSteps
    <3>3. q \in FilterLocals /\ q.id \in FilterIDs /\ filterReq' = [filterReq EXCEPT ![r] = q]
        BY <1>1, <1>t, <3>1, <3>2 DEF FilterRequestsOK, FilterKnows
    <3> HIDE DEF q
    <3>4. FilterStepOK(step, q)
        BY <3>3 DEF FilterStepOK, FilterSteps
    <3>5. FilterRequestsOK' /\ FilterOthersKept(r) /\ filterPc'[r] = step
        BY <1>1, <3>1, <3>3, <3>4, FilterGotoOK
    <3> QED BY <3>5 DEF Filtering
  <2>2. CASE FilterGoto(r, "idle") /\ filterReq' = [filterReq EXCEPT ![r] = NoFilterLocals]
    <3>1. FilterStepOK("idle", NoFilterLocals)
        BY NoFilterLocalsType DEF FilterStepOK, FilterSteps
    <3>2. FilterRequestsOK' /\ FilterOthersKept(r) /\ filterPc'[r] = "idle"
        BY <1>1, <2>2, <3>1, FilterGotoOK
    <3> QED BY <3>2 DEF Filtering
  <2> QED BY <2>1, <2>2
<1>3. filters' \in [FilterIDs -> Form] /\ \A f \in FilterIDs \ {g} : filters'[f] = filters[f]
    BY <1>t
<1> QED BY <1>t, <1>2, <1>3, ChangedInv

\* The steps of staff that change a filter while their request does nothing else.
LEMMA StaffFilterInv ==
    ASSUME FiltersInv, NEW r \in Requests, filterPc[r] = "idle", NEW g \in FilterIDs, Changed(g),
           NEW filter \in Form, filters' = [filters EXCEPT ![g] = filter],
           active' \in {active, active \cup {g}, active \ {g}}, UNCHANGED <<hits, filterPc, filterReq>>
    PROVE  FiltersInv'
<1>t. filters \in [FilterIDs -> Form] /\ hits \subseteq FilterIDs /\ active \subseteq FilterIDs
    BY DEF FiltersInv, FiltersTypeOK
<1>1. FilterRequestsOK
    BY DEF FiltersInv, FiltersTypeOK, FilterRequestsOK, FilterSteps
<1>2. FilterRequestsOK' /\ FilterOthersKept(r) /\ ~Filtering(r)'
    BY <1>1 DEF FilterRequestsOK, FilterKnows, FilterOthersKept, Filtering
<1>3. filters' \in [FilterIDs -> Form] /\ \A f \in FilterIDs \ {g} : filters'[f] = filters[f]
    BY <1>t
<1>4. active' \subseteq FilterIDs /\ \A f \in FilterIDs \ {g} : f \in active' => f \in active
    BY <1>t
<1> QED BY <1>t, <1>2, <1>3, <1>4, ChangedInv

\* FiltersInv is inductive.
LEMMA FiltersInvInductive == FiltersInv /\ [FiltersNext]_filterVars => FiltersInv'
<1> SUFFICES ASSUME FiltersInv, [FiltersNext]_filterVars
             PROVE  FiltersInv'
    OBVIOUS
<1>t. /\ filters \in [FilterIDs -> Form] /\ hits \subseteq FilterIDs /\ active \subseteq FilterIDs
      /\ filterPc \in [Requests -> FilterSteps] /\ filterReq \in [Requests -> FilterLocals]
    BY DEF FiltersInv, FiltersTypeOK, FilterSteps
<1>w. FilterForms \subseteq Form /\ WordfilterForms \subseteq Form
    BY FormsAssumption
<1>1. ASSUME NEW r \in Requests, AcceptFilteredPost(r) \/ FilterQueryFails(r)
      PROVE  FiltersInv'
  <2>1. FilterDone(r) /\ FiltersUnchanged /\ UNCHANGED hits
      BY <1>1 DEF AcceptFilteredPost, FilterQueryFails
  <2> QED BY <1>t, <2>1, FilterDoneInv
<1>2. ASSUME NEW r \in Requests, NEW form \in FilterForms \cup WordfilterForms, CreateFilter(r, form)
      PROVE  FiltersInv'
  <2>1. PICK f \in FilterIDs :
             /\ filterPc[r] = "idle" /\ Changed(f) /\ UNCHANGED <<hits, filterPc, filterReq>>
             /\ filters' = [filters EXCEPT ![f] = [form EXCEPT !.any = FALSE]]
             /\ active' = active \cup {f}
      BY <1>2 DEF CreateFilter
  <2>2. [form EXCEPT !.any = FALSE] \in Form
    <3>1. form \in Form
        BY <1>w
    <3> QED BY <3>1 DEF Form
  <2> QED BY <2>1, <2>2, StaffFilterInv
<1>3. ASSUME NEW r \in Requests, NEW f \in FilterIDs, NEW form \in FilterForms, EditFilter(r, f, form)
      PROVE  FiltersInv'
  <2> DEFINE old == filters[f]
             undetailed == [old EXCEPT !.conditions = form.conditions, !.here = form.here]
  <2>1. filterPc[r] = "idle" /\ Changed(f) /\ UNCHANGED <<active, hits, filterPc, filterReq>>
      BY <1>3 DEF EditFilter
  <2>2. form \in Form /\ old \in Form
      BY <1>t, <1>w
  <2>3. undetailed \in Form
    <3> HIDE DEF old
    <3> QED BY <2>2 DEF Form
  <2>4. \/ filters' = [filters EXCEPT ![f] = form]
        \/ filters' = [filters EXCEPT ![f].conditions = form.conditions, ![f].here = form.here]
      BY <1>3 DEF EditFilter
  <2>5. PICK filter \in {form, undetailed} : filters' = [filters EXCEPT ![f] = filter]
      BY <1>t, <2>4
  <2> HIDE DEF undetailed
  <2> QED BY <2>1, <2>2, <2>3, <2>5, StaffFilterInv
<1>4. ASSUME NEW r \in Requests, NEW f \in FilterIDs, NEW form \in WordfilterForms,
             StartWordfilterEdit(r, f, form)
      PROVE  FiltersInv'
  <2> DEFINE locals == [NoFilterLocals EXCEPT !.id = f, !.form = form]
  <2>1. /\ FilterGoto(r, "details") /\ filterReq' = [filterReq EXCEPT ![r] = locals]
        /\ FiltersUnchanged /\ UNCHANGED <<hits, filterChanged>>
      BY <1>4 DEF StartWordfilterEdit
  <2>2. f \in 0..MaxFilterID /\ form \in Form
    <3>1. MaxFilterID \in Nat
        BY MaxFilterIDAssumption
    <3> QED BY <1>w, <3>1 DEF FilterIDs
  <2>3. locals \in FilterLocals /\ locals.id = f
      BY <2>2, NoFilterLocalsType DEF FilterLocals
  <2> HIDE DEF locals
  <2>4. FilterStepOK("details", locals)
      BY <2>3 DEF FilterStepOK, FilterSteps
  <2> QED BY <1>t, <2>1, <2>4, FilterStepInv
<1>5. ASSUME NEW r \in Requests, UpdateDetails(r) \/ SetConditions(r) \/ SetBoardDirs(r)
      PROVE  FiltersInv'
  <2> DEFINE q == filterReq[r]
             f == q.id
             form == q.form
             detailed == [filters[f] EXCEPT !.action = "replace", !.any = FALSE, !.detail = form.detail]
             conditioned == [filters[f] EXCEPT !.conditions = form.conditions]
             applied == [filters[f] EXCEPT !.here = form.here]
  <2>1. filterPc[r] \in {"details", "conditions", "boards"} /\ UNCHANGED <<active, hits>> /\ Changed(f)
      BY <1>5 DEF UpdateDetails, SetConditions, SetBoardDirs
  <2>2. ~Filtering(r) /\ filterPc[r] # "idle" /\ f \in FilterIDs
      BY <2>1 DEF Filtering, FiltersInv, FilterKnows
  <2>3. q \in FilterLocals
      BY <1>t
  <2>4. form \in Form /\ filters[f] \in Form
    <3> HIDE DEF q
    <3> QED BY <1>t, <2>2, <2>3 DEF FilterLocals
  <2>c. UpdateDetails(r) =>
           /\ filters' = [filters EXCEPT ![f].action = "replace", ![f].any = FALSE, ![f].detail = form.detail]
           /\ FilterGoto(r, "conditions") /\ UNCHANGED filterReq
      BY DEF UpdateDetails
  <2>d. SetConditions(r) => /\ filters' = [filters EXCEPT ![f].conditions = form.conditions]
                            /\ FilterGoto(r, "boards") /\ UNCHANGED filterReq
      BY DEF SetConditions
  <2>e. SetBoardDirs(r) => /\ filters' = [filters EXCEPT ![f].here = form.here]
                           /\ FilterGoto(r, "idle") /\ filterReq' = [filterReq EXCEPT ![r] = NoFilterLocals]
      BY DEF SetBoardDirs
  <2> HIDE DEF q, f, form
  <2>5. detailed \in Form /\ conditioned \in Form /\ applied \in Form
      BY <2>4 DEF Form
  <2>6. CASE UpdateDetails(r)
    <3>1. filters' = [filters EXCEPT ![f] = detailed]
        BY <1>t, <2>2, <2>6, <2>c
    <3> HIDE DEF detailed
    <3> QED BY <2>1, <2>2, <2>5, <2>6, <2>c, <3>1, StaffFilterStepInv
  <2>7. CASE SetConditions(r)
    <3>1. filters' = [filters EXCEPT ![f] = conditioned]
        BY <1>t, <2>2, <2>7, <2>d
    <3> HIDE DEF conditioned
    <3> QED BY <2>1, <2>2, <2>5, <2>7, <2>d, <3>1, StaffFilterStepInv
  <2>8. CASE SetBoardDirs(r)
    <3>1. filters' = [filters EXCEPT ![f] = applied]
        BY <1>t, <2>2, <2>8, <2>e
    <3> HIDE DEF applied
    <3> QED BY <2>1, <2>2, <2>5, <2>8, <2>e, <3>1, StaffFilterStepInv
  <2> QED BY <1>5, <2>6, <2>7, <2>8
<1>6. ASSUME NEW r \in Requests, NEW f \in FilterIDs, SetFilterActive(r, f)
      PROVE  FiltersInv'
  <2>1. /\ filterPc[r] = "idle" /\ Changed(f) /\ UNCHANGED <<filters, hits, filterPc, filterReq>>
        /\ active' \in {active \ {f}, active \cup {f}}
      BY <1>6 DEF SetFilterActive
  <2>2. filters[f] \in Form /\ filters' = [filters EXCEPT ![f] = filters[f]]
      BY <1>t, <2>1
  <2> QED BY <2>1, <2>2, StaffFilterInv
<1>7. ASSUME NEW r \in Requests, NEW f \in FilterIDs, ClearFilterHits(r, f, 3)
      PROVE  FiltersInv'
  <2>1. /\ hits' = hits \ {f} /\ FiltersUnchanged /\ UNCHANGED <<filterPc, filterReq, filterChanged>>
        /\ UNCHANGED <<filters, active>>
      BY <1>7 DEF ClearFilterHits, FiltersUnchanged
  <2>2. FilterRequestsOK' /\ FilterOthersKept(r)
      BY <2>1 DEF FiltersInv, FiltersTypeOK, FilterRequestsOK, FilterSteps, FilterKnows, FilterOthersKept
  <2>3. PassOK(r)'
      BY <2>1 DEF FiltersInv, PassOK, Stops, ToCheckOrPassed, Row
  <2>4. filterChanged' \in [Requests -> SUBSET FilterIDs]
      BY <2>1 DEF FiltersInv, FiltersTypeOK
  <2> QED BY <1>t, <2>1, <2>2, <2>3, <2>4, SamePassesInv
<1>8. CASE UNCHANGED filterVars
  <2>1. UNCHANGED <<filters, active, hits, filterPc, filterReq, filterChanged>>
      BY <1>8 DEF filterVars
  <2>2. FiltersTypeOK' /\ FilterKnows'
      BY <2>1 DEF FiltersInv, FiltersTypeOK, FilterKnows
  <2>3. \A r \in Requests : PassOK(r)'
      BY <2>1 DEF FiltersInv, PassOK, Stops, ToCheckOrPassed, Row
  <2> QED BY <2>2, <2>3 DEF FiltersInv
<1> QED BY <1>1, <1>2, <1>3, <1>4, <1>5, <1>6, <1>7, <1>8, WordfiltersInv, DoNonUploadFilteringInv,
           DoPostFilteringInv, CheckFilterInv DEF FiltersNext

\* FiltersInv holds before the first request.
LEMMA FiltersInvInit == FiltersInit => FiltersInv
<1> SUFFICES ASSUME FiltersInit
             PROVE  FiltersInv
    OBVIOUS
<1>1. FiltersTypeOK
    BY NoFormType, NoFilterLocalsType DEF FiltersInit, FiltersTypeOK
<1>2. FilterKnows /\ \A r \in Requests : PassOK(r)
    BY DEF FiltersInit, FilterKnows, PassOK
<1> QED BY <1>1, <1>2 DEF FiltersInv

\* The tables of filters and what the requests hold keep their types.
THEOREM FiltersTypeCorrect == FiltersSpec => []FiltersTypeOK
<1>1. FiltersInv => FiltersTypeOK
    BY DEF FiltersInv
<1> QED BY <1>1, FiltersInvInit, FiltersInvInductive, PTL DEF FiltersSpec

\* A filter that rejects or bans, was active and not touched since a post was submitted and matches it
\* stops it, in the pass before the upload is received or in the one after it
\* (gcsql.DoNonUploadFiltering, gcsql.DoPostFiltering), unless a filter that only logs ended the pass.
THEOREM FiltersInForceApplyCorrect == FiltersSpec => []FiltersInForceApply
<1>1. FiltersInv => FiltersInForceApply
    BY DEF FiltersInv, PassOK, ToCheckOrPassed, Stops, FiltersInForceApply
<1> QED BY <1>1, FiltersInvInit, FiltersInvInductive, PTL DEF FiltersSpec

(* The two side by side, as TLC explores them. *)

\* A behaviour of the instance is a behaviour of the bans and one of the filters.
THEOREM ComponentsOfBansAndFilters == Spec => BansSpec /\ FiltersSpec
<1>1. Init => BansInit /\ FiltersInit
    BY DEF Init
<1>2. [Next]_vars => [BansNext]_banVars /\ [FiltersNext]_filterVars
    BY DEF Next, vars
<1> QED BY <1>1, <1>2, PTL DEF Spec, BansSpec, FiltersSpec

\* The bans, the filters and what the requests hold keep their types.
THEOREM BansAndFiltersTypesCorrect == Spec => []TypesOK
<1>1. BansTypeOK /\ FiltersTypeOK => TypesOK
    BY DEF TypesOK
<1> QED BY <1>1, ComponentsOfBansAndFilters, BansTypeCorrect, FiltersTypeCorrect, PTL

===============================================================================
