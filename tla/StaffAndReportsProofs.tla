------------------------ MODULE StaffAndReportsProofs -------------------------
(***************************************************************************)
(* Staff accounts and sessions, reports, edits, moved threads and replaced  *)
(* uploads.  Each handler works on what it read in an earlier query, while  *)
(* other requests change it; the proofs say what is certain all the same.   *)
(***************************************************************************)
EXTENDS MCStaffAndReports, FiniteSetTheorems, TLAPS

(* Staff and sessions. *)

\* What a request knows when it gets to a step: whom it logs in, which session it ends, which
\* account it changes.
StaffKnows(r) ==
    LET q == staffReq[r] IN
    /\ staffPc[r] = "login" => q.as \in Usernames
    /\ staffPc[r] \in {"logout", "endMine"} => q.cookie \in SessionKeys /\ q.as \in Usernames
    /\ staffPc[r] \in {"lookup", "add", "insert", "changepass", "changerank", "del", "deactivate", "clear"}
          => q.target \in Usernames
    /\ staffPc[r] = "lookup" => q.do \in {"add", "changepass", "changerank", "del"}

\* The rank it was authenticated with is that of an administrator, or the account is its own.
MayChange(r) ==
    LET do == IF staffPc[r] = "lookup" THEN staffReq[r].do ELSE staffPc[r] IN
    /\ do \in {"add", "insert", "changerank", "del", "deactivate"} => staffReq[r].rank = AdminPerms
    /\ do = "changepass" => staffReq[r].rank = AdminPerms \/ staffReq[r].as = staffReq[r].target

StaffInv ==
    /\ StaffTypeOK
    /\ SessionsEndWithTheAccount
    /\ \A r \in Requests : StaffKnows(r) /\ MayChange(r)

\* What a step of request r leaves to the others.
StaffOthersKept(r) ==
    \A q \in Requests \ {r} : staffPc'[q] = staffPc[q] /\ staffReq'[q] = staffReq[q]

\* What is left of a request that has returned.
LEMMA NoStaffLocalsType == NoStaffLocals \in StaffLocals
BY DEF NoStaffLocals, StaffLocals, NoPerms, AdminPerms

\* The staff of a session has the rank of its account, and the cookie names the session.
LEMMA StaffBySessionType ==
    ASSUME StaffTypeOK, NEW k \in SessionKeys
    PROVE  /\ StaffBySession(k) \in StaffLocals
           /\ MayOpen(StaffBySession(k), JanitorPerms) =>
                 StaffBySession(k).as \in Usernames /\ StaffBySession(k).cookie = k
<1> DEFINE u == sessions[k]
<1>1. CASE u \in Usernames
  <2>1. accounts[u].rank \in NoPerms..AdminPerms
      BY <1>1 DEF StaffTypeOK, Account
  <2>2. StaffBySession(k) = [NoStaffLocals EXCEPT !.as = u, !.rank = accounts[u].rank, !.cookie = k]
      BY <1>1 DEF StaffBySession
  <2> QED BY <1>1, <2>1, <2>2, NoStaffLocalsType DEF StaffLocals
<1>2. CASE u \notin Usernames
  <2>1. StaffBySession(k) = NoStaffLocals
      BY <1>2 DEF StaffBySession
  <2>2. NoStaffLocals.as = ""
      BY DEF NoStaffLocals
  <2> QED BY <2>1, <2>2, NoStaffLocalsType DEF MayOpen
<1> QED BY <1>1, <1>2

\* The account a valid form is about may be changed by the staff who sent it.
LEMMA FormIsAllowed ==
    ASSUME NEW form \in StaffForm, NEW staff \in StaffLocals, FormValid(form, staff)
    PROVE  /\ FormTarget(form) \in Usernames
           /\ form.do \in {"add", "changerank", "del"} => staff.rank = AdminPerms
           /\ form.do = "changepass" => staff.rank = AdminPerms \/ staff.as = FormTarget(form)
<1>1. staff.rank \in 0..3
    BY DEF StaffLocals, NoPerms, AdminPerms
<1>2. staff.rank >= AdminPerms => staff.rank = AdminPerms
    BY <1>1 DEF AdminPerms
<1>3. FormTarget(form) \in Usernames
    BY DEF FormTarget, NeedsLookup, FormNames, StaffForm
<1>4. form.do \in {"add", "changerank", "del"} => staff.rank = AdminPerms
    BY <1>2 DEF FormValid
<1>5. form.do = "changepass" => staff.rank = AdminPerms \/ staff.as = FormTarget(form)
    BY <1>2 DEF FormValid, FormTarget, NeedsLookup, FormNames
<1> QED BY <1>3, <1>4, <1>5

\* A request that returns, or goes on with what it knows, keeps the invariant if the accounts
\* do, and the sessions of deactivated ones.
LEMMA StaffKept ==
    ASSUME StaffInv, StaffTypeOK', SessionsEndWithTheAccount', NEW r \in Requests, StaffOthersKept(r),
           StaffKnows(r)', MayChange(r)'
    PROVE  StaffInv'
<1> SUFFICES ASSUME NEW q \in Requests, q # r
             PROVE  StaffKnows(q)' /\ MayChange(q)'
    BY DEF StaffInv
<1>1. staffPc'[q] = staffPc[q] /\ staffReq'[q] = staffReq[q]
    BY DEF StaffOthersKept
<1> QED BY <1>1 DEF StaffInv, StaffKnows, MayChange

\* The locals of a request that returns.
LEMMA StaffDoneKnows ==
    ASSUME StaffTypeOK, NEW r \in Requests, StaffDone(r)
    PROVE  /\ StaffOthersKept(r) /\ StaffKnows(r)' /\ MayChange(r)'
           /\ staffPc' \in [Requests -> StaffSteps] /\ staffReq' \in [Requests -> StaffLocals]
           /\ staffPc'[r] = "idle"
<1>1. NoStaffLocals \in StaffLocals
    BY NoStaffLocalsType
<1>2. /\ staffPc' = [staffPc EXCEPT ![r] = "idle"] /\ staffReq' = [staffReq EXCEPT ![r] = NoStaffLocals]
      /\ staffPc \in [Requests -> StaffSteps] /\ staffReq \in [Requests -> StaffLocals]
    BY DEF StaffDone, StaffGoto, StaffTypeOK
<1>3. /\ staffPc'[r] = "idle" /\ StaffOthersKept(r)
      /\ staffPc' \in [Requests -> StaffSteps] /\ staffReq' \in [Requests -> StaffLocals]
    BY <1>1, <1>2 DEF StaffOthersKept, StaffSteps
<1> QED BY <1>3 DEF StaffKnows, MayChange

\* The locals of a request that goes to another step.
LEMMA StaffGotoKnows ==
    ASSUME StaffTypeOK, NEW r \in Requests, NEW step \in StaffSteps, NEW locals \in StaffLocals,
           StaffGoto(r, step), staffReq' = [staffReq EXCEPT ![r] = locals]
    PROVE  /\ StaffOthersKept(r) /\ staffPc'[r] = step /\ staffReq'[r] = locals
           /\ staffPc' \in [Requests -> StaffSteps] /\ staffReq' \in [Requests -> StaffLocals]
BY DEF StaffTypeOK, StaffGoto, StaffOthersKept

\* Sessions of deactivated accounts, for a step that inserts no session, deactivates no account
\* and leaves what is excused.
LEMMA SessionsEndKept ==
    ASSUME StaffInv, NEW r \in Requests, StaffOthersKept(r), staffPc[r] # "clear",
           \A k \in SessionKeys, u \in Usernames : sessions'[k] = u => sessions[k] = u,
           \A u \in Usernames : accounts'[u].state = "inactive" => accounts[u].state = "inactive",
           late' = late, uncleared \subseteq uncleared'
    PROVE  SessionsEndWithTheAccount'
<1> SUFFICES ASSUME NEW k \in SessionKeys, NEW u \in Usernames,
                    sessions'[k] = u, accounts'[u].state = "inactive"
             PROVE  \/ k \in late' \/ u \in uncleared'
                    \/ \E q \in Requests : staffPc'[q] = "clear" /\ staffReq'[q].target = u
    BY DEF SessionsEndWithTheAccount
<1>1. \/ k \in late \/ u \in uncleared
      \/ \E q \in Requests : staffPc[q] = "clear" /\ staffReq[q].target = u
    BY DEF StaffInv, SessionsEndWithTheAccount
<1> QED BY <1>1 DEF StaffOthersKept

\* Deleting the sessions of an account.
LEMMA WithoutSessionsType ==
    ASSUME StaffTypeOK, NEW u
    PROVE  /\ WithoutSessionsOf(u) \in [SessionKeys -> Usernames \cup {"unused", "ended"}]
           /\ \A k \in SessionKeys, v \in Usernames :
                 WithoutSessionsOf(u)[k] = v => sessions[k] = v /\ v # u
BY NamesAssumption DEF StaffTypeOK, WithoutSessionsOf

\* Requests that are sent keep StaffInv.
LEMMA StaffRequestInv ==
    ASSUME StaffInv, NEW r \in Requests, StaffRequest(r)
    PROVE  StaffInv' /\ UNCHANGED accounts
<1>t. StaffTypeOK
    BY DEF StaffInv
<1>1. UNCHANGED <<accounts, sessions, late, uncleared>> /\ staffPc[r] = "idle"
    BY DEF StaffRequest, CheckCredentials, OpenPage, SubmitStaffForm, CommandLine
<1> DEFINE Kept == /\ StaffOthersKept(r) /\ StaffKnows(r)' /\ MayChange(r)'
                   /\ staffPc' \in [Requests -> StaffSteps] /\ staffReq' \in [Requests -> StaffLocals]
<1>2. ASSUME NEW u \in Usernames, NEW p \in Passwords, CheckCredentials(r, u, p)
      PROVE  Kept
  <2> DEFINE locals == [NoStaffLocals EXCEPT !.as = u, !.rank = accounts[u].rank]
  <2>1. locals \in StaffLocals /\ locals.as \in Usernames
    <3>1. accounts[u].rank \in NoPerms..AdminPerms
        BY <1>t DEF StaffTypeOK, Account
    <3> QED BY <3>1, NoStaffLocalsType DEF StaffLocals
  <2>2. StaffGoto(r, "login") /\ staffReq' = [staffReq EXCEPT ![r] = locals]
      BY <1>2 DEF CheckCredentials
  <2> HIDE DEF locals
  <2> QED BY <1>t, <2>1, <2>2, StaffGotoKnows DEF StaffSteps, StaffKnows, MayChange
<1>3. ASSUME NEW k \in SessionKeys, NEW page \in {"logout", "endMine"}, OpenPage(r, k, page)
      PROVE  Kept
    BY <1>t, <1>3, StaffBySessionType, StaffGotoKnows DEF OpenPage, StaffSteps, StaffKnows, MayChange
<1>4. ASSUME NEW k \in SessionKeys, NEW form \in StaffForm, NEW rank \in NewRanks,
             SubmitStaffForm(r, k, form, rank)
      PROVE  Kept
  <2> DEFINE staff == StaffBySession(k)
             target == FormTarget(form)
             newRank == IF form.do \in {"add", "changerank"} THEN rank ELSE NoPerms
             do == IF NeedsLookup(form) THEN form.do ELSE ""
             step == IF NeedsLookup(form) THEN "lookup" ELSE form.do
             named == FormNames(form)
             locals == [staff EXCEPT !.named = named, !.target = target, !.cookie = "",
                                     !.newRank = newRank, !.do = do]
  <2>1. /\ staff \in StaffLocals /\ FormValid(form, staff)
        /\ StaffGoto(r, step) /\ staffReq' = [staffReq EXCEPT ![r] = locals]
      BY <1>t, <1>4, StaffBySessionType DEF SubmitStaffForm
  <2>2. /\ target \in Usernames
        /\ form.do \in {"add", "changerank", "del"} => staff.rank = AdminPerms
        /\ form.do = "changepass" => staff.rank = AdminPerms \/ staff.as = target
      BY <2>1, FormIsAllowed
  <2>3. form.do \in {"add", "changepass", "changerank", "del"} /\ named \in Usernames \cup {""}
      BY DEF StaffForm, FormNames
  <2>4. newRank \in NoPerms..AdminPerms
      BY InitialRankAssumption DEF NoPerms, AdminPerms
  <2> HIDE DEF staff, target, newRank, named
  <2>5. /\ locals \in StaffLocals /\ locals.target = target /\ locals.as = staff.as
        /\ locals.rank = staff.rank /\ locals.do = do
      BY <2>1, <2>2, <2>3, <2>4 DEF StaffLocals
  <2>6. step \in StaffSteps
      BY <2>3 DEF StaffSteps
  <2>7. /\ StaffOthersKept(r) /\ staffPc'[r] = step /\ staffReq'[r] = locals
        /\ staffPc' \in [Requests -> StaffSteps] /\ staffReq' \in [Requests -> StaffLocals]
    <3> HIDE DEF step, locals
    <3> QED BY <1>t, <2>1, <2>5, <2>6, StaffGotoKnows
  <2> HIDE DEF locals
  <2>8. StaffKnows(r)'
      BY <2>2, <2>3, <2>5, <2>7 DEF StaffKnows
  <2>9. MayChange(r)'
      BY <2>2, <2>3, <2>5, <2>7 DEF MayChange
  <2> QED BY <2>7, <2>8, <2>9
<1>5. ASSUME NEW u \in Usernames, NEW rank \in NewRanks, CommandLine(r, u, rank)
      PROVE  Kept
  <2>1. PICK do \in {"add", "deactivate"} :
          /\ StaffGoto(r, do)
          /\ staffReq' = [staffReq EXCEPT ![r] =
                [NoStaffLocals EXCEPT !.as = "console", !.rank = AdminPerms, !.target = u,
                                      !.newRank = IF do = "add" THEN rank ELSE NoPerms]]
      BY <1>5 DEF CommandLine
  <2> DEFINE newRank == IF do = "add" THEN rank ELSE NoPerms
             locals == [NoStaffLocals EXCEPT !.as = "console", !.rank = AdminPerms, !.target = u,
                                             !.newRank = newRank]
  <2>2. newRank \in NoPerms..AdminPerms
      BY InitialRankAssumption DEF NoPerms, AdminPerms
  <2>3. staffReq' = [staffReq EXCEPT ![r] = locals]
      BY <2>1
  <2> HIDE DEF newRank
  <2>4. locals \in StaffLocals /\ locals.target = u /\ locals.rank = AdminPerms
    <3>1. AdminPerms \in NoPerms..AdminPerms
        BY DEF NoPerms, AdminPerms
    <3> QED BY <2>2, <3>1, NoStaffLocalsType DEF StaffLocals
  <2> HIDE DEF locals
  <2>5. do \in StaffSteps
      BY DEF StaffSteps
  <2>6. /\ StaffOthersKept(r) /\ staffPc'[r] = do /\ staffReq'[r] = locals
        /\ staffPc' \in [Requests -> StaffSteps] /\ staffReq' \in [Requests -> StaffLocals]
      BY <1>t, <2>1, <2>3, <2>4, <2>5, StaffGotoKnows
  <2> QED BY <2>4, <2>6 DEF StaffKnows, MayChange
<1>6. Kept
    BY <1>2, <1>3, <1>4, <1>5 DEF StaffRequest
<1>7. StaffTypeOK'
    BY <1>t, <1>1, <1>6 DEF StaffTypeOK
<1>8. SessionsEndWithTheAccount'
    BY <1>1, <1>6, SessionsEndKept
<1> QED BY <1>1, <1>6, <1>7, <1>8, StaffKept

\* What OnlyAdminsChangeOthers asks of one account.
ChangedByAdmin(u) ==
    accounts'[u] # accounts[u] =>
       \E r \in Requests : /\ staffPc[r] # "idle" /\ staffReq[r].target = u
                           /\ \/ staffReq[r].rank = AdminPerms
                              \/ /\ staffReq[r].as = u
                                 /\ accounts'[u] = [accounts[u] EXCEPT !.password = "second"]

\* Steps that change no account and insert no session.
LEMMA SessionStepInv ==
    ASSUME StaffInv, NEW r \in Requests, LogOut(r) \/ ClearMySessions(r) \/ LookUpAccount(r)
                                         \/ CountUsername(r) \/ ClearSessions(r)
    PROVE  StaffInv' /\ UNCHANGED accounts
<1>t. StaffTypeOK /\ StaffKnows(r) /\ MayChange(r)
    BY DEF StaffInv
<1>1. UNCHANGED <<accounts, late, uncleared>> /\ staffPc[r] # "clear"
    BY DEF LogOut, ClearMySessions, LookUpAccount, CountUsername, ClearSessions
<1>2. /\ sessions' \in [SessionKeys -> Usernames \cup {"unused", "ended"}]
      /\ \A k \in SessionKeys, u \in Usernames : sessions'[k] = u => sessions[k] = u
  <2>1. CASE UNCHANGED sessions
      BY <1>t, <2>1 DEF StaffTypeOK
  <2>2. CASE LogOut(r)
      BY <1>t, <2>2, NamesAssumption DEF LogOut, StaffTypeOK, StaffKnows
  <2>3. CASE \E u : sessions' = WithoutSessionsOf(u)
      BY <1>t, <2>3, WithoutSessionsType
  <2> QED BY <2>1, <2>2, <2>3 DEF ClearMySessions, LookUpAccount, CountUsername, ClearSessions
<1>3. /\ StaffOthersKept(r) /\ StaffKnows(r)' /\ MayChange(r)'
      /\ staffPc' \in [Requests -> StaffSteps] /\ staffReq' \in [Requests -> StaffLocals]
  <2>1. CASE StaffDone(r)
      BY <1>t, <2>1, StaffDoneKnows
  <2>2. CASE ~StaffDone(r)
    <3>1. /\ UNCHANGED staffReq
          /\ \/ staffPc[r] = "lookup" /\ StaffGoto(r, staffReq[r].do)
             \/ staffPc[r] = "add" /\ StaffGoto(r, "insert")
             \/ staffPc[r] = "del" /\ StaffGoto(r, "deactivate")
        BY <2>2 DEF LogOut, ClearMySessions, LookUpAccount, CountUsername, ClearSessions
    <3>2. PICK step \in StaffSteps :
            /\ StaffGoto(r, step)
            /\ \/ staffPc[r] = "lookup" /\ step = staffReq[r].do
               \/ staffPc[r] = "add" /\ step = "insert"
               \/ staffPc[r] = "del" /\ step = "deactivate"
        BY <1>t, <3>1 DEF StaffKnows, StaffSteps
    <3>3. staffReq' = [staffReq EXCEPT ![r] = staffReq[r]] /\ staffReq[r] \in StaffLocals
        BY <1>t, <3>1 DEF StaffTypeOK
    <3>4. /\ StaffOthersKept(r) /\ staffPc'[r] = step /\ staffReq'[r] = staffReq[r]
          /\ staffPc' \in [Requests -> StaffSteps] /\ staffReq' \in [Requests -> StaffLocals]
        BY <1>t, <3>2, <3>3, StaffGotoKnows
    <3>5. StaffKnows(r)'
        BY <1>t, <3>2, <3>4 DEF StaffKnows
    <3>6. MayChange(r)'
        BY <1>t, <3>2, <3>4 DEF StaffKnows, MayChange
    <3> QED BY <3>4, <3>5, <3>6
  <2> QED BY <2>1, <2>2
<1>4. StaffTypeOK'
    BY <1>t, <1>1, <1>2, <1>3 DEF StaffTypeOK
<1>5. SessionsEndWithTheAccount'
    BY <1>1, <1>2, <1>3, SessionsEndKept
<1> QED BY <1>1, <1>3, <1>4, <1>5, StaffKept

\* Steps that change an account: its name is the target of a request that may.
LEMMA AccountStepInv ==
    ASSUME StaffInv, NEW r \in Requests, InsertAccount(r) \/ UpdatePassword(r) \/ UpdateRank(r)
    PROVE  StaffInv' /\ \A u \in Usernames : ChangedByAdmin(u)
<1>t. StaffTypeOK /\ StaffKnows(r) /\ MayChange(r)
    BY DEF StaffInv
<1> DEFINE t == staffReq[r].target
<1>1. /\ UNCHANGED <<sessions, late, uncleared>> /\ StaffDone(r)
      /\ staffPc[r] \in {"insert", "changepass", "changerank"}
    BY DEF InsertAccount, UpdatePassword, UpdateRank
<1>2. t \in Usernames /\ staffReq[r].newRank \in NoPerms..AdminPerms
    BY <1>t, <1>1 DEF StaffKnows, StaffTypeOK, StaffLocals
<1>3. /\ accounts' \in [Usernames -> Account]
      /\ \A u \in Usernames : u # t => accounts'[u] = accounts[u]
      /\ accounts'[t].state = "inactive" => accounts[t].state = "inactive"
      /\ accounts'[t] = accounts[t] \/ staffReq[r].rank = AdminPerms
         \/ (staffReq[r].as = t /\ accounts'[t] = [accounts[t] EXCEPT !.password = "second"])
  <2>0. accounts \in [Usernames -> Account]
      BY <1>t DEF StaffTypeOK
  <2>1. CASE UNCHANGED accounts
      BY <2>0, <2>1
  <2>2. CASE InsertAccount(r) /\ ~UNCHANGED accounts
    <3>1. /\ accounts' = [accounts EXCEPT ![t].state = "active", ![t].rank = staffReq[r].newRank]
          /\ staffPc[r] = "insert"
        BY <2>2 DEF InsertAccount
    <3> HIDE DEF t
    <3> QED BY <1>2, <1>t, <2>0, <3>1 DEF Account, MayChange
  <2>3. CASE UpdatePassword(r) /\ ~UNCHANGED accounts
    <3>1. accounts' = [accounts EXCEPT ![t].password = "second"] /\ staffPc[r] = "changepass"
        BY <2>3 DEF UpdatePassword
    <3>2. staffReq[r].rank = AdminPerms \/ staffReq[r].as = t
        BY <1>t, <3>1 DEF MayChange
    <3>3. accounts'[t] = [accounts[t] EXCEPT !.password = "second"]
        BY <1>2, <2>0, <3>1
    <3> HIDE DEF t
    <3> QED BY <1>2, <2>0, <3>1, <3>2, <3>3 DEF Account, Passwords
  <2>4. CASE UpdateRank(r) /\ ~UNCHANGED accounts
    <3>1. accounts' = [accounts EXCEPT ![t].rank = staffReq[r].newRank] /\ staffPc[r] = "changerank"
        BY <2>4 DEF UpdateRank
    <3> HIDE DEF t
    <3> QED BY <1>2, <1>t, <2>0, <3>1 DEF Account, MayChange
  <2> QED BY <2>1, <2>2, <2>3, <2>4
<1>4. /\ StaffOthersKept(r) /\ StaffKnows(r)' /\ MayChange(r)'
      /\ staffPc' \in [Requests -> StaffSteps] /\ staffReq' \in [Requests -> StaffLocals]
    BY <1>t, <1>1, StaffDoneKnows
<1>5. StaffTypeOK'
    BY <1>t, <1>1, <1>3, <1>4 DEF StaffTypeOK
<1>6. \A u \in Usernames : accounts'[u].state = "inactive" => accounts[u].state = "inactive"
    BY <1>3
<1>7. SessionsEndWithTheAccount'
    BY <1>1, <1>4, <1>6, SessionsEndKept
<1>8. ASSUME NEW u \in Usernames
      PROVE  ChangedByAdmin(u)
    BY <1>1, <1>3 DEF ChangedByAdmin
<1> QED BY <1>4, <1>5, <1>7, <1>8, StaffKept

\* A login inserts its session, whatever happened to the account since it was checked.
LEMMA LoginInv ==
    ASSUME StaffInv, NEW r \in Requests, NEW k \in SessionKeys, CreateLoginSession(r, k)
    PROVE  StaffInv' /\ UNCHANGED accounts
<1>t. StaffTypeOK /\ StaffKnows(r)
    BY DEF StaffInv
<1> DEFINE u == staffReq[r].as
<1>1. /\ staffPc[r] = "login" /\ UNCHANGED <<accounts, uncleared>> /\ StaffDone(r)
      /\ sessions' = [sessions EXCEPT ![k] = u]
      /\ late' = IF accounts[u].state = "active" THEN late ELSE late \cup {k}
    BY DEF CreateLoginSession
<1>2. u \in Usernames
    BY <1>t, <1>1 DEF StaffKnows
<1>3. /\ StaffOthersKept(r) /\ StaffKnows(r)' /\ MayChange(r)'
      /\ staffPc' \in [Requests -> StaffSteps] /\ staffReq' \in [Requests -> StaffLocals]
    BY <1>t, <1>1, StaffDoneKnows
<1>4. StaffTypeOK'
    BY <1>t, <1>1, <1>2, <1>3 DEF StaffTypeOK
<1>5. SessionsEndWithTheAccount'
  <2> SUFFICES ASSUME NEW j \in SessionKeys, NEW v \in Usernames,
                      sessions'[j] = v, accounts[v].state = "inactive"
               PROVE  \/ j \in late' \/ v \in uncleared
                      \/ \E q \in Requests : staffPc'[q] = "clear" /\ staffReq'[q].target = v
      BY <1>1 DEF SessionsEndWithTheAccount
  <2>1. CASE j = k
      BY <1>1, <1>t, <2>1 DEF StaffTypeOK
  <2>2. CASE j # k
    <3>1. sessions[j] = v
        BY <1>1, <1>t, <2>2 DEF StaffTypeOK
    <3>2. \/ j \in late \/ v \in uncleared
          \/ \E q \in Requests : staffPc[q] = "clear" /\ staffReq[q].target = v
        BY <3>1 DEF StaffInv, SessionsEndWithTheAccount
    <3> QED BY <1>1, <1>3, <3>2 DEF StaffOthersKept
  <2> QED BY <2>1, <2>2
<1> QED BY <1>1, <1>3, <1>4, <1>5, StaffKept

\* SetActive(false) leaves the sessions to its second step.
LEMMA SetActiveInv ==
    ASSUME StaffInv, NEW r \in Requests, SetActive(r)
    PROVE  StaffInv' /\ \A u \in Usernames : ChangedByAdmin(u)
<1>t. StaffTypeOK /\ StaffKnows(r) /\ MayChange(r)
    BY DEF StaffInv
<1> DEFINE t == staffReq[r].target
<1>1. /\ staffPc[r] = "deactivate" /\ UNCHANGED <<sessions, staffReq, late, uncleared>>
      /\ StaffGoto(r, "clear")
      /\ accounts' = IF accounts[t].state = "none" THEN accounts ELSE [accounts EXCEPT ![t].state = "inactive"]
    BY DEF SetActive
<1>2. t \in Usernames /\ staffReq[r].rank = AdminPerms
    BY <1>t, <1>1 DEF StaffKnows, MayChange
<1>3. /\ accounts' \in [Usernames -> Account]
      /\ \A u \in Usernames : u # t => accounts'[u] = accounts[u]
  <2>1. accounts \in [Usernames -> Account]
      BY <1>t DEF StaffTypeOK
  <2> HIDE DEF t
  <2> QED BY <1>1, <1>2, <2>1 DEF Account
<1>4. staffReq' = [staffReq EXCEPT ![r] = staffReq[r]] /\ staffReq[r] \in StaffLocals
    BY <1>t, <1>1 DEF StaffTypeOK
<1>5. /\ StaffOthersKept(r) /\ staffPc'[r] = "clear" /\ staffReq'[r] = staffReq[r]
      /\ staffPc' \in [Requests -> StaffSteps] /\ staffReq' \in [Requests -> StaffLocals]
    BY <1>t, <1>1, <1>4, StaffGotoKnows DEF StaffSteps
<1>6. StaffKnows(r)' /\ MayChange(r)'
    BY <1>2, <1>5 DEF StaffKnows, MayChange
<1>7. StaffTypeOK'
    BY <1>t, <1>1, <1>3, <1>5 DEF StaffTypeOK
<1>8. SessionsEndWithTheAccount'
  <2> SUFFICES ASSUME NEW k \in SessionKeys, NEW u \in Usernames,
                      sessions[k] = u, accounts'[u].state = "inactive"
               PROVE  \/ k \in late \/ u \in uncleared
                      \/ \E q \in Requests : staffPc'[q] = "clear" /\ staffReq'[q].target = u
      BY <1>1 DEF SessionsEndWithTheAccount
  <2>1. CASE u = t
      BY <1>5, <2>1
  <2>2. CASE u # t
    <3>1. \/ k \in late \/ u \in uncleared
          \/ \E q \in Requests : staffPc[q] = "clear" /\ staffReq[q].target = u
        BY <1>3, <2>2 DEF StaffInv, SessionsEndWithTheAccount
    <3> QED BY <1>1, <1>5, <3>1 DEF StaffOthersKept
  <2> QED BY <2>1, <2>2
<1>9. ASSUME NEW u \in Usernames
      PROVE  ChangedByAdmin(u)
    BY <1>1, <1>2, <1>3 DEF ChangedByAdmin
<1> QED BY <1>5, <1>6, <1>7, <1>8, <1>9, StaffKept

\* ... which ends them, or fails and leaves them.
LEMMA ClearAgainInv ==
    ASSUME StaffInv, NEW r \in Requests, ClearSessionsAgain(r) \/ StaffQueryFails(r)
    PROVE  StaffInv' /\ UNCHANGED accounts
<1>t. StaffTypeOK /\ StaffKnows(r)
    BY DEF StaffInv
<1> DEFINE t == staffReq[r].target
<1>1. UNCHANGED <<accounts, late>> /\ StaffDone(r)
    BY DEF ClearSessionsAgain, StaffQueryFails
<1>2. /\ StaffOthersKept(r) /\ StaffKnows(r)' /\ MayChange(r)'
      /\ staffPc' \in [Requests -> StaffSteps] /\ staffReq' \in [Requests -> StaffLocals]
    BY <1>t, <1>1, StaffDoneKnows
<1>3. /\ sessions' \in [SessionKeys -> Usernames \cup {"unused", "ended"}]
      /\ \A k \in SessionKeys, u \in Usernames : sessions'[k] = u => sessions[k] = u
      /\ uncleared' \subseteq Usernames
      /\ \A u \in Usernames : u \in uncleared => u \in uncleared' \/ ~(u \in {sessions'[k] : k \in SessionKeys})
      /\ staffPc[r] = "clear" => t \in uncleared' \/ ~(t \in {sessions'[k] : k \in SessionKeys})
  <2>1. CASE ClearSessionsAgain(r)
    <3>1. /\ staffPc[r] = "clear" /\ sessions' = WithoutSessionsOf(t) /\ uncleared' = uncleared \ {t}
        BY <2>1 DEF ClearSessionsAgain
    <3>2. t \in Usernames
        BY <1>t, <3>1 DEF StaffKnows
    <3>3. /\ sessions' \in [SessionKeys -> Usernames \cup {"unused", "ended"}]
          /\ \A k \in SessionKeys, v \in Usernames : sessions'[k] = v => sessions[k] = v /\ v # t
        BY <1>t, <3>1, WithoutSessionsType
    <3> HIDE DEF t
    <3> QED BY <1>t, <3>1, <3>2, <3>3 DEF StaffTypeOK
  <2>2. CASE StaffQueryFails(r)
      BY <1>t, <2>2 DEF StaffQueryFails, StaffTypeOK, StaffKnows
  <2> QED BY <2>1, <2>2
<1>4. StaffTypeOK'
    BY <1>t, <1>1, <1>2, <1>3 DEF StaffTypeOK
<1>5. SessionsEndWithTheAccount'
  <2> SUFFICES ASSUME NEW k \in SessionKeys, NEW u \in Usernames,
                      sessions'[k] = u, accounts[u].state = "inactive"
               PROVE  \/ k \in late \/ u \in uncleared'
                      \/ \E q \in Requests : staffPc'[q] = "clear" /\ staffReq'[q].target = u
      BY <1>1 DEF SessionsEndWithTheAccount
  <2>1. \/ k \in late \/ u \in uncleared
        \/ \E q \in Requests : staffPc[q] = "clear" /\ staffReq[q].target = u
      BY <1>3 DEF StaffInv, SessionsEndWithTheAccount
  <2>2. u \in {sessions'[j] : j \in SessionKeys}
      OBVIOUS
  <2> QED BY <1>2, <1>3, <2>1, <2>2 DEF StaffOthersKept
<1> QED BY <1>1, <1>2, <1>4, <1>5, StaffKept

\* StaffInv is inductive, and every step changes accounts for those who may.
LEMMA StaffInvInductive ==
    StaffInv /\ [StaffNext]_staffVars => StaffInv' /\ [\A u \in Usernames : ChangedByAdmin(u)]_staffVars
<1> SUFFICES ASSUME StaffInv, [StaffNext]_staffVars
             PROVE  StaffInv' /\ \A u \in Usernames : ChangedByAdmin(u)
    OBVIOUS
<1>u. UNCHANGED accounts => \A u \in Usernames : ChangedByAdmin(u)
    BY DEF ChangedByAdmin
<1>1. ASSUME NEW r \in Requests, StaffRequest(r) \/ StaffStep(r)
      PROVE  StaffInv' /\ \A u \in Usernames : ChangedByAdmin(u)
  <2>1. CASE StaffRequest(r)
      BY <2>1, <1>u, StaffRequestInv
  <2>2. CASE \E k \in SessionKeys : CreateLoginSession(r, k)
      BY <2>2, <1>u, LoginInv
  <2>3. CASE \/ LogOut(r) \/ ClearMySessions(r) \/ LookUpAccount(r) \/ CountUsername(r)
             \/ ClearSessions(r)
      BY <2>3, <1>u, SessionStepInv
  <2>4. CASE InsertAccount(r) \/ UpdatePassword(r) \/ UpdateRank(r)
      BY <2>4, AccountStepInv
  <2>5. CASE SetActive(r)
      BY <2>5, SetActiveInv
  <2>6. CASE ClearSessionsAgain(r) \/ StaffQueryFails(r)
      BY <2>6, <1>u, ClearAgainInv
  <2> QED BY <1>1, <2>1, <2>2, <2>3, <2>4, <2>5, <2>6 DEF StaffStep
<1>2. CASE UNCHANGED staffVars
  <2>1. StaffInv' = StaffInv
      BY <1>2 DEF staffVars, StaffInv, StaffTypeOK, SessionsEndWithTheAccount, StaffKnows, MayChange
  <2> QED BY <1>2, <1>u, <2>1 DEF staffVars
<1> QED BY <1>1, <1>2 DEF StaffNext

\* The accounts at the start, and no session.
LEMMA StaffInvInit == StaffInit => StaffInv
<1> SUFFICES ASSUME StaffInit PROVE StaffInv
    OBVIOUS
<1>1. accounts \in [Usernames -> Account]
  <2>1. ASSUME NEW u \in Usernames
        PROVE  accounts[u] \in Account
    <3>1. CASE u \in DOMAIN InitialRank
        BY <3>1, InitialRankAssumption DEF StaffInit, Account, NoPerms, AdminPerms, Passwords
    <3>2. CASE u \notin DOMAIN InitialRank
        BY <3>2 DEF StaffInit, Account, NoPerms, AdminPerms, Passwords
    <3> QED BY <3>1, <3>2
  <2> QED BY <2>1 DEF StaffInit
<1>2. StaffTypeOK
    BY <1>1, NoStaffLocalsType DEF StaffInit, StaffTypeOK, StaffSteps
<1>3. SessionsEndWithTheAccount
    BY NamesAssumption DEF StaffInit, SessionsEndWithTheAccount
<1>4. \A r \in Requests : StaffKnows(r) /\ MayChange(r)
    BY DEF StaffInit, StaffKnows, MayChange
<1> QED BY <1>2, <1>3, <1>4 DEF StaffInv

\* The rows of staff and sessions, and the locals of the pages, have their types.
THEOREM StaffTypeCorrect == StaffSpec => []StaffTypeOK
<1>1. StaffInit => StaffInv
    BY StaffInvInit
<1>2. StaffInv /\ [StaffNext]_staffVars => StaffInv'
    BY StaffInvInductive
<1>3. StaffInv => StaffTypeOK
    BY DEF StaffInv
<1> QED BY <1>1, <1>2, <1>3, PTL DEF StaffSpec

\* A session of a deactivated account was inserted by a login that had checked the password
\* before, or is one that the request deactivating the account has yet to end or failed to end.
THEOREM SessionsEndCorrect == StaffSpec => []SessionsEndWithTheAccount
<1>1. StaffInit => StaffInv
    BY StaffInvInit
<1>2. StaffInv /\ [StaffNext]_staffVars => StaffInv'
    BY StaffInvInductive
<1>3. StaffInv => SessionsEndWithTheAccount
    BY DEF StaffInv
<1> QED BY <1>1, <1>2, <1>3, PTL DEF StaffSpec

\* No form, whatever accounts its three fields name, and no step that other requests come
\* between changes an account for somebody who was no administrator when authenticated, but
\* for the own password.
THEOREM OnlyAdminsChangeOthersCorrect == StaffSpec => OnlyAdminsChangeOthers
<1>1. StaffInit => StaffInv
    BY StaffInvInit
<1>2. StaffInv /\ [StaffNext]_staffVars => StaffInv' /\ [\A u \in Usernames : ChangedByAdmin(u)]_staffVars
    BY StaffInvInductive
<1> QED BY <1>1, <1>2, PTL DEF StaffSpec, OnlyAdminsChangeOthers, ChangedByAdmin

-----------------------------------------------------------------------------
(* Reports. *)

\* The table gives ids that no row has.
FreeIDs == \A id \in ReportIDs : id >= nextReport => reports[id] = NoReport

\* What a request remembers to be blocked still is, and it reports no such post.
StillAreBlocked == \A r \in Requests : stillBlocked[r] \subseteq BlockedPosts(reports)
CreatesAllowed ==
    \A r \in Requests : reportPc[r] = "create" => reportReq[r].post \in ReportedPosts \ stillBlocked[r]

\* The reports of one post with one reason, and the requests that are about to add one: a request
\* gets there only as long as there is no report.
Copies(p, reason) == {id \in ReportIDs : reports[id].post = p /\ reports[id].reason = reason}
Creating(p, reason) ==
    {r \in Requests : reportPc[r] = "create" /\ reportReq[r].post = p /\ reportReq[r].reason = reason}
RoomForCopies ==
    \A p \in ReportedPosts, reason \in Reasons :
       Cardinality(Copies(p, reason)) + Cardinality(Creating(p, reason)) <= Cardinality(Requests)

ReportsInv == ReportsTypeOK /\ FreeIDs /\ StillAreBlocked /\ CreatesAllowed /\ RoomForCopies

\* A report is inserted only for a post that is not remembered to be blocked.
ReportsOnlyUnblocked ==
    \A r \in Requests :
       reportPc[r] = "create" /\ reportPc'[r] = "check" => reportReq[r].post \notin stillBlocked[r]

ReportOthersKept(r) ==
    \A q \in Requests \ {r} : reportPc'[q] = reportPc[q] /\ reportReq'[q] = reportReq[q]

\* What the assumptions on the numbers of posts and reports come to.
LEMMA ReportNumbers ==
    /\ MaxReportID \in Nat /\ MaxReportID # 0 /\ MaxReportID + 1 \in Nat
    /\ 0 \notin ReportedPosts /\ ReportedPosts \subseteq Nat
<1>1. MaxReportID \in Nat /\ MaxReportID # 0 /\ MaxReportID + 1 \in Nat
    BY MaxReportIDAssumption
<1>2. 0 \notin ReportedPosts /\ ReportedPosts \subseteq Nat
    BY ReportedPostsAssumption, Zenon
<1> QED BY <1>1, <1>2

\* Copies and the requests that add them are finitely many.
LEMMA CopiesAreFinite ==
    \A p, reason : /\ IsFiniteSet(Copies(p, reason)) /\ IsFiniteSet(Creating(p, reason))
                   /\ IsFiniteSet(Copies(p, reason)') /\ IsFiniteSet(Creating(p, reason)')
<1> SUFFICES ASSUME NEW p, NEW reason
             PROVE  /\ IsFiniteSet(Copies(p, reason)) /\ IsFiniteSet(Creating(p, reason))
                    /\ IsFiniteSet(Copies(p, reason)') /\ IsFiniteSet(Creating(p, reason)')
    OBVIOUS
<1>1. IsFiniteSet(ReportIDs)
  <2>1. 1 \in Int /\ MaxReportID \in Int
      BY ReportNumbers
  <2> QED BY <2>1, FS_Interval DEF ReportIDs
<1>2. /\ Copies(p, reason) \in SUBSET ReportIDs /\ Creating(p, reason) \in SUBSET Requests
      /\ Copies(p, reason)' \in SUBSET ReportIDs /\ Creating(p, reason)' \in SUBSET Requests
    BY DEF Copies, Creating
<1> QED BY <1>1, <1>2, RequestsAssumption, FS_Subset

\* Fewer reports and fewer requests that add one leave room.
LEMMA RoomKept ==
    ASSUME RoomForCopies, NEW p \in ReportedPosts, NEW reason \in Reasons,
           Copies(p, reason)' \subseteq Copies(p, reason), Creating(p, reason)' \subseteq Creating(p, reason)
    PROVE  Cardinality(Copies(p, reason)') + Cardinality(Creating(p, reason)') <= Cardinality(Requests)
<1>1. /\ Cardinality(Copies(p, reason)') \in Nat /\ Cardinality(Creating(p, reason)') \in Nat
      /\ Cardinality(Copies(p, reason)) \in Nat /\ Cardinality(Creating(p, reason)) \in Nat
      /\ Cardinality(Requests) \in Nat
    BY CopiesAreFinite, RequestsAssumption, FS_CardinalityType
<1>2. /\ Cardinality(Copies(p, reason)') <= Cardinality(Copies(p, reason))
      /\ Cardinality(Creating(p, reason)') <= Cardinality(Creating(p, reason))
    BY CopiesAreFinite, FS_Subset
<1>3. Cardinality(Copies(p, reason)) + Cardinality(Creating(p, reason)) <= Cardinality(Requests)
    BY DEF RoomForCopies
<1> QED BY <1>1, <1>2, <1>3

\* Without any report there is room for one of every request.
LEMMA RoomForFirst ==
    ASSUME NEW p, NEW reason, Copies(p, reason)' = {}
    PROVE  Cardinality(Copies(p, reason)') + Cardinality(Creating(p, reason)') <= Cardinality(Requests)
<1>1. Creating(p, reason)' \subseteq Requests
    BY DEF Creating
<1>2. /\ Cardinality(Creating(p, reason)') \in Nat /\ Cardinality(Requests) \in Nat
      /\ Cardinality(Creating(p, reason)') <= Cardinality(Requests)
    BY <1>1, RequestsAssumption, CopiesAreFinite, FS_Subset, FS_CardinalityType
<1>3. Cardinality(Copies(p, reason)') = 0
    BY FS_EmptySet
<1> QED BY <1>2, <1>3

\* A request turns into the report it adds.
LEMMA RoomForReport ==
    ASSUME RoomForCopies, NEW p \in ReportedPosts, NEW reason \in Reasons, NEW id, NEW r,
           r \in Creating(p, reason), Creating(p, reason)' \subseteq Creating(p, reason) \ {r},
           Copies(p, reason)' \subseteq Copies(p, reason) \cup {id}
    PROVE  Cardinality(Copies(p, reason)') + Cardinality(Creating(p, reason)') <= Cardinality(Requests)
<1> DEFINE C == Copies(p, reason)
           Q == Creating(p, reason)
<1>1. Cardinality(C) + Cardinality(Q) <= Cardinality(Requests)
    BY DEF RoomForCopies
<1>2. IsFiniteSet(C) /\ IsFiniteSet(Q) /\ IsFiniteSet(C') /\ IsFiniteSet(Q')
    BY CopiesAreFinite
<1>3. /\ Cardinality(C) \in Nat /\ Cardinality(Q) \in Nat /\ Cardinality(Requests) \in Nat
      /\ Cardinality(C') \in Nat /\ Cardinality(Q') \in Nat
    BY <1>2, RequestsAssumption, FS_CardinalityType
<1>4. IsFiniteSet(Q \ {r}) /\ Cardinality(Q \ {r}) = Cardinality(Q) - 1
    BY <1>2, FS_RemoveElement
<1>5. /\ IsFiniteSet(C \cup {id})
      /\ Cardinality(C \cup {id}) = IF id \in C THEN Cardinality(C) ELSE Cardinality(C) + 1
    BY <1>2, FS_AddElement
<1>6. Cardinality(C') <= Cardinality(C \cup {id}) /\ Cardinality(Q') <= Cardinality(Q \ {r})
    BY <1>4, <1>5, FS_Subset
<1> HIDE DEF C, Q
<1>7. Cardinality(C') + Cardinality(Q') <= Cardinality(Requests)
    BY <1>1, <1>3, <1>4, <1>5, <1>6
<1> QED BY <1>7 DEF C, Q

\* A request that has returned.
LEMMA ReportDoneType ==
    ASSUME ReportsTypeOK, NEW r \in Requests, ReportDone(r)
    PROVE  /\ ReportOthersKept(r) /\ reportPc'[r] = "idle"
           /\ reportPc' \in [Requests -> {"idle", "check", "create", "clear", "clean"}]
           /\ reportReq' \in [Requests -> ReportLocals]
<1>1. NoReportLocals \in ReportLocals
    BY DEF NoReportLocals, ReportLocals, Open, Blocked
<1> QED BY <1>1 DEF ReportsTypeOK, ReportDone, ReportGoto, ReportOthersKept

\* Reports that keep their post and reason, or go, and requests of which none starts to add one.
LEMMA ReportsKept ==
    ASSUME ReportsInv, ReportsTypeOK', nextReport' = nextReport,
           \A id \in ReportIDs : \/ reports'[id] = NoReport
                                 \/ /\ reports[id] # NoReport
                                    /\ reports'[id].post = reports[id].post
                                    /\ reports'[id].reason = reports[id].reason,
           StillAreBlocked',
           \A q \in Requests :
              reportPc'[q] = "create" => /\ reportPc[q] = "create" /\ reportReq'[q] = reportReq[q]
                                         /\ stillBlocked'[q] \subseteq stillBlocked[q]
    PROVE  ReportsInv' /\ ReportsOnlyUnblocked
<1>1. FreeIDs'
    BY DEF ReportsInv, FreeIDs
<1>2. CreatesAllowed'
    BY DEF ReportsInv, CreatesAllowed
<1>3. RoomForCopies'
  <2> SUFFICES ASSUME NEW p \in ReportedPosts, NEW reason \in Reasons
               PROVE  Cardinality(Copies(p, reason)') + Cardinality(Creating(p, reason)') <= Cardinality(Requests)
      BY DEF RoomForCopies
  <2>1. NoReport.post # p
      BY ReportNumbers DEF NoReport
  <2>2. Copies(p, reason)' \subseteq Copies(p, reason)
      BY <2>1 DEF Copies
  <2>3. Creating(p, reason)' \subseteq Creating(p, reason)
      BY DEF Creating
  <2> QED BY <2>2, <2>3, RoomKept DEF ReportsInv
<1>4. ReportsOnlyUnblocked
    BY DEF ReportsInv, CreatesAllowed, ReportsOnlyUnblocked
<1> QED BY <1>1, <1>2, <1>3, <1>4 DEF ReportsInv

\* Steps that leave the tables of reports alone and start no insert.
LEMMA ReportPcInv ==
    ASSUME ReportsInv, NEW r \in Requests, ReportOthersKept(r), reportPc'[r] # "create",
           reportPc' \in [Requests -> {"idle", "check", "create", "clear", "clean"}],
           reportReq' \in [Requests -> ReportLocals],
           UNCHANGED <<postRow, reports, audits, nextReport>>,
           \/ UNCHANGED stillBlocked
           \/ stillBlocked' = [stillBlocked EXCEPT ![r] = BlockedPosts(reports)]
    PROVE  ReportsInv' /\ ReportsOnlyUnblocked
<1>1. /\ stillBlocked' \in [Requests -> SUBSET ReportedPosts]
      /\ \A q \in Requests : stillBlocked'[q] \in {stillBlocked[q], BlockedPosts(reports)}
      /\ \A q \in Requests \ {r} : stillBlocked'[q] = stillBlocked[q]
  <2>1. BlockedPosts(reports) \in SUBSET ReportedPosts
      BY DEF BlockedPosts
  <2> QED BY <2>1 DEF ReportsInv, ReportsTypeOK
<1>2. StillAreBlocked'
  <2>1. BlockedPosts(reports)' = BlockedPosts(reports)
      BY DEF BlockedPosts
  <2> QED BY <1>1, <2>1 DEF ReportsInv, StillAreBlocked
<1>3. ReportsTypeOK'
    BY <1>1 DEF ReportsInv, ReportsTypeOK
<1>4. \A id \in ReportIDs : reports'[id] = NoReport \/ reports[id] # NoReport
    OBVIOUS
<1>5. \A q \in Requests :
         reportPc'[q] = "create" => /\ reportPc[q] = "create" /\ reportReq'[q] = reportReq[q]
                                    /\ stillBlocked'[q] \subseteq stillBlocked[q]
    BY <1>1 DEF ReportOthersKept
<1> QED BY <1>2, <1>3, <1>4, <1>5, ReportsKept

\* CheckReport passes a post only if no report of it has the reason and none is blocked.
LEMMA CheckReportInv ==
    ASSUME ReportsInv, NEW r \in Requests, NEW p \in ReportedPosts, CheckReport(r, p)
    PROVE  ReportsInv' /\ ReportsOnlyUnblocked
<1>t. ReportsTypeOK
    BY DEF ReportsInv
<1> DEFINE reason == reportReq[r].reason
           rest == [reportReq[r] EXCEPT !.todo = @ \ {p}]
<1>1. UNCHANGED <<postRow, reports, audits, nextReport, stillBlocked>> /\ reportPc[r] = "check"
    BY DEF CheckReport
<1>2. rest \in ReportLocals /\ rest.reason = reason /\ [rest EXCEPT !.post = p] \in ReportLocals
      /\ [rest EXCEPT !.post = p].post = p /\ [rest EXCEPT !.post = p].reason = reason
    BY <1>t DEF ReportsTypeOK, ReportLocals
<1>3. CASE CheckPostReports(p, reason)
  <2>1. reportReq' = [reportReq EXCEPT ![r] = rest] /\ UNCHANGED reportPc
      BY <1>3 DEF CheckReport
  <2> HIDE DEF rest
  <2>2. /\ reportPc' \in [Requests -> {"idle", "check", "create", "clear", "clean"}]
        /\ reportReq' \in [Requests -> ReportLocals]
        /\ ReportOthersKept(r) /\ reportPc'[r] # "create"
      BY <1>1, <1>2, <1>t, <2>1 DEF ReportsTypeOK, ReportOthersKept
  <2> QED BY <1>1, <2>2, ReportPcInv
<1>4. CASE ~CheckPostReports(p, reason)
  <2> DEFINE locals == [rest EXCEPT !.post = p]
  <2>1. reportReq' = [reportReq EXCEPT ![r] = locals] /\ reportPc' = [reportPc EXCEPT ![r] = "create"]
      BY <1>4 DEF CheckReport, ReportGoto
  <2>2. locals \in ReportLocals /\ locals.post = p /\ locals.reason = reason
      BY <1>2
  <2> HIDE DEF locals, rest
  <2>3. /\ ReportsTypeOK' /\ ReportOthersKept(r) /\ reportPc'[r] = "create" /\ reportReq'[r] = locals
      BY <1>1, <1>t, <2>1, <2>2 DEF ReportsTypeOK, ReportOthersKept
  <2>4. \A id \in ReportIDs : reports[id].post = p => reports[id].reason # reason /\ reports[id].cleared # Blocked
      BY <1>4 DEF CheckPostReports
  <2>5. FreeIDs' /\ StillAreBlocked'
      BY <1>1 DEF ReportsInv, FreeIDs, StillAreBlocked, BlockedPosts
  <2>6. p \notin stillBlocked[r]
      BY <2>4 DEF ReportsInv, StillAreBlocked, BlockedPosts
  <2>7. CreatesAllowed'
      BY <1>1, <2>2, <2>3, <2>6 DEF ReportsInv, CreatesAllowed, ReportOthersKept
  <2>8. RoomForCopies'
    <3> SUFFICES ASSUME NEW o \in ReportedPosts, NEW why \in Reasons
                 PROVE  Cardinality(Copies(o, why)') + Cardinality(Creating(o, why)') <= Cardinality(Requests)
        BY DEF RoomForCopies
    <3>1. Copies(o, why)' = Copies(o, why)
        BY <1>1 DEF Copies
    <3>2. CASE o = p /\ why = reason
      <4>1. Copies(o, why)' = {}
          BY <2>4, <3>1, <3>2 DEF Copies
      <4> QED BY <4>1, RoomForFirst
    <3>3. CASE ~(o = p /\ why = reason)
      <4>1. Creating(o, why)' \subseteq Creating(o, why)
          BY <2>2, <2>3, <3>3 DEF Creating, ReportOthersKept
      <4> QED BY <3>1, <4>1, RoomKept DEF ReportsInv
    <3> QED BY <3>2, <3>3
  <2>9. ReportsOnlyUnblocked
      BY <1>1, <2>3 DEF ReportsOnlyUnblocked, ReportOthersKept
  <2> QED BY <2>3, <2>5, <2>7, <2>8, <2>9 DEF ReportsInv
<1> QED BY <1>3, <1>4

\* CreateReport inserts the report its request was about to add.
LEMMA CreateReportInv ==
    ASSUME ReportsInv, NEW r \in Requests, CreateReport(r)
    PROVE  ReportsInv' /\ ReportsOnlyUnblocked
<1>t. ReportsTypeOK
    BY DEF ReportsInv
<1> DEFINE p == reportReq[r].post
           reason == reportReq[r].reason
           row == [post |-> p, reason |-> reason, cleared |-> Open]
<1>1. /\ UNCHANGED <<postRow, stillBlocked>> /\ reportPc[r] = "create" /\ nextReport <= MaxReportID
      /\ p \in ReportedPosts \ stillBlocked[r]
    BY DEF CreateReport, ReportsInv, CreatesAllowed
<1>2. CASE postRow[p] = "removed"
  <2>1. ReportDone(r) /\ UNCHANGED <<reports, audits, nextReport>>
      BY <1>2 DEF CreateReport
  <2> QED BY <1>t, <1>1, <2>1, ReportDoneType, ReportPcInv
<1>3. CASE postRow[p] # "removed"
  <2>1. /\ reports' = [reports EXCEPT ![nextReport] = row]
        /\ audits' = [audits EXCEPT ![nextReport] = Open]
        /\ nextReport' = nextReport + 1
        /\ reportPc' = [reportPc EXCEPT ![r] = "check"]
        /\ reportReq' = [reportReq EXCEPT ![r].post = 0]
      BY <1>3 DEF CreateReport, ReportGoto
  <2>2. nextReport \in ReportIDs /\ nextReport + 1 \in 1..(MaxReportID + 1)
    <3>1. nextReport \in 1..(MaxReportID + 1)
        BY <1>t DEF ReportsTypeOK
    <3> QED BY <1>1, <3>1, ReportNumbers DEF ReportIDs
  <2>n. nextReport \in Nat
      BY <2>2, ReportNumbers DEF ReportIDs
  <2>v. Open \in Open..Blocked /\ Open \in -1..Blocked /\ Open # Blocked
      BY DEF Open, Blocked
  <2>3. /\ ReportsTypeOK' /\ ReportOthersKept(r) /\ reportPc'[r] = "check"
    <3>l. reason \in Reasons \cup {""}
        BY <1>t DEF ReportsTypeOK, ReportLocals
    <3>1. row \in [post: ReportedPosts \cup {0}, reason: Reasons \cup {""}, cleared: Open..Blocked]
      <4> HIDE DEF p, reason
      <4> QED BY <1>1, <2>v, <3>l
    <3> HIDE DEF row
    <3>2. reports' \in [ReportIDs -> [post: ReportedPosts \cup {0}, reason: Reasons \cup {""},
                                      cleared: Open..Blocked]]
        BY <1>t, <2>1, <2>2, <3>1 DEF ReportsTypeOK
    <3>3. audits' \in [ReportIDs -> -1..Blocked] /\ nextReport' \in 1..(MaxReportID + 1)
        BY <1>t, <2>v, <2>1, <2>2 DEF ReportsTypeOK
    <3>4. reportReq' \in [Requests -> ReportLocals] /\ ReportOthersKept(r)
        BY <1>t, <2>1 DEF ReportsTypeOK, ReportLocals, ReportOthersKept
    <3>5. reportPc' \in [Requests -> {"idle", "check", "create", "clear", "clean"}] /\ reportPc'[r] = "check"
        BY <1>t, <2>1 DEF ReportsTypeOK
    <3> QED BY <1>t, <1>1, <3>2, <3>3, <3>4, <3>5 DEF ReportsTypeOK
  <2>4. reports[nextReport] = NoReport
      BY <2>2, <2>n DEF ReportsInv, FreeIDs
  <2>5. /\ reports'[nextReport] = row
        /\ \A id \in ReportIDs : id # nextReport => reports'[id] = reports[id]
    <3> HIDE DEF row
    <3> QED BY <1>t, <2>1, <2>2 DEF ReportsTypeOK
  <2>6. FreeIDs'
    <3> SUFFICES ASSUME NEW id \in ReportIDs, id >= nextReport + 1
                 PROVE  reports'[id] = NoReport
        BY <2>1 DEF FreeIDs
    <3>1. id # nextReport /\ id >= nextReport
        BY <2>n DEF ReportIDs
    <3> QED BY <2>5, <3>1 DEF ReportsInv, FreeIDs
  <2>7. StillAreBlocked'
    <3>1. ASSUME NEW o \in ReportedPosts, o \in BlockedPosts(reports)
          PROVE  o \in BlockedPosts(reports')
      <4>1. PICK id \in ReportIDs : reports[id].post = o /\ reports[id].cleared = Blocked
          BY <3>1 DEF BlockedPosts
      <4>2. id # nextReport
        <5>1. NoReport.cleared # Blocked
            BY DEF NoReport, Open, Blocked
        <5> QED BY <2>4, <4>1, <5>1
      <4> QED BY <2>5, <4>1, <4>2 DEF BlockedPosts
    <3>2. \A q \in Requests : stillBlocked[q] \subseteq ReportedPosts
        BY <1>t DEF ReportsTypeOK
    <3> QED BY <1>1, <3>1, <3>2 DEF ReportsInv, StillAreBlocked
  <2>8. CreatesAllowed'
      BY <1>1, <2>3 DEF ReportsInv, CreatesAllowed, ReportOthersKept
  <2>9. RoomForCopies'
    <3> SUFFICES ASSUME NEW o \in ReportedPosts, NEW why \in Reasons
                 PROVE  Cardinality(Copies(o, why)') + Cardinality(Creating(o, why)') <= Cardinality(Requests)
        BY DEF RoomForCopies
    <3>1. Creating(o, why)' \subseteq Creating(o, why) \ {r}
        BY <2>3 DEF Creating, ReportOthersKept
    <3>2. CASE o = p /\ why = reason
      <4>1. r \in Creating(o, why)
          BY <1>1, <3>2 DEF Creating
      <4>2. Copies(o, why)' \subseteq Copies(o, why) \cup {nextReport}
          BY <2>5 DEF Copies
      <4> QED BY <3>1, <4>1, <4>2, RoomForReport DEF ReportsInv
    <3>3. CASE ~(o = p /\ why = reason)
      <4>1. Copies(o, why)' \subseteq Copies(o, why)
          BY <2>5, <3>3 DEF Copies
      <4> QED BY <3>1, <4>1, RoomKept DEF ReportsInv
    <3> QED BY <3>2, <3>3
  <2>10. ReportsOnlyUnblocked
      BY DEF ReportsInv, CreatesAllowed, ReportsOnlyUnblocked
  <2> QED BY <2>3, <2>6, <2>7, <2>8, <2>9, <2>10 DEF ReportsInv
<1> QED BY <1>2, <1>3

\* Steps that delete reports or change what they are cleared as, and forget what is not blocked
\* any more.
LEMMA ClearedInv ==
    ASSUME ReportsInv, nextReport' = nextReport,
           reports' \in [ReportIDs -> [post: ReportedPosts \cup {0}, reason: Reasons \cup {""},
                                       cleared: Open..Blocked]],
           postRow' \in [ReportedPosts -> {"live", "deleted", "removed"}],
           audits' \in [ReportIDs -> -1..Blocked],
           reportPc' \in [Requests -> {"idle", "check", "create", "clear", "clean"}],
           reportReq' \in [Requests -> ReportLocals],
           \A id \in ReportIDs : \/ reports'[id] = NoReport
                                 \/ /\ reports[id] # NoReport
                                    /\ reports'[id].post = reports[id].post
                                    /\ reports'[id].reason = reports[id].reason,
           stillBlocked' \in [Requests -> SUBSET ReportedPosts],
           \A q \in Requests : stillBlocked'[q] \subseteq stillBlocked[q] \cap BlockedPosts(reports'),
           \A q \in Requests : reportPc'[q] = "create" => reportPc[q] = "create" /\ reportReq'[q] = reportReq[q]
    PROVE  ReportsInv' /\ ReportsOnlyUnblocked
<1>1. StillAreBlocked'
    BY DEF StillAreBlocked
<1>2. ReportsTypeOK'
    BY DEF ReportsInv, ReportsTypeOK
<1> QED BY <1>1, <1>2, ReportsKept

\* The range of is_cleared, and the row of no report in it.
LEMMA ClearedRange ==
    /\ Dismissed \in Open..Blocked /\ Blocked \in Open..Blocked /\ Open \in Open..Blocked
    /\ -1 \in -1..Blocked /\ \A value \in Open..Blocked : value \in -1..Blocked
    BY DEF Open, Dismissed, Blocked

\* The table without rows is a table of reports.
LEMMA NoReportType ==
    NoReport \in [post: ReportedPosts \cup {0}, reason: Reasons \cup {""}, cleared: Open..Blocked]
    BY ClearedRange DEF NoReport

\* Deleting the reports of some posts leaves the others as they are.
LEMMA KeepReportsOfKeeps ==
    ASSUME ReportsTypeOK, NEW posts \in SUBSET ReportedPosts, KeepReportsOf(posts)
    PROVE  /\ reports' \in [ReportIDs -> [post: ReportedPosts \cup {0}, reason: Reasons \cup {""},
                                          cleared: Open..Blocked]]
           /\ \A id \in ReportIDs : \/ reports'[id] = NoReport
                                    \/ reports[id] # NoReport /\ reports'[id] = reports[id]
           /\ stillBlocked' \in [Requests -> SUBSET ReportedPosts]
           /\ \A q \in Requests : stillBlocked'[q] \subseteq stillBlocked[q] \cap BlockedPosts(reports')
<1>1. NoReport.post \notin posts
    BY ReportNumbers DEF NoReport
<1>2. reports' = [id \in ReportIDs |-> IF reports[id].post \in posts THEN reports[id] ELSE NoReport]
    BY DEF KeepReportsOf
<1>3. stillBlocked' = [q \in Requests |-> stillBlocked[q] \cap BlockedPosts(reports')]
    BY DEF KeepReportsOf
<1>4. reports' \in [ReportIDs -> [post: ReportedPosts \cup {0}, reason: Reasons \cup {""},
                                 cleared: Open..Blocked]]
    BY <1>2, NoReportType DEF ReportsTypeOK
<1>5. \A id \in ReportIDs : reports'[id] = NoReport \/ (reports[id] # NoReport /\ reports'[id] = reports[id])
    BY <1>1, <1>2
<1>6. \A q \in Requests : stillBlocked[q] \cap BlockedPosts(reports') \in SUBSET ReportedPosts
    BY DEF ReportsTypeOK
<1> QED BY <1>3, <1>4, <1>5, <1>6

\* Dismissing all reports.
LEMMA DismissAllInv ==
    ASSUME ReportsInv, NEW r \in Requests, DismissAll(r)
    PROVE  ReportsInv' /\ ReportsOnlyUnblocked
<1>t. ReportsTypeOK
    BY DEF ReportsInv
<1>1. /\ UNCHANGED <<postRow, audits, nextReport, reportReq>>
      /\ reportPc' = [reportPc EXCEPT ![r] = "clean"]
      /\ stillBlocked' = [q \in Requests |-> {}]
      /\ reports' = [id \in ReportIDs |->
                       IF reports[id] # NoReport THEN [reports[id] EXCEPT !.cleared = Dismissed] ELSE NoReport]
    BY DEF DismissAll, ReportGoto, IsReport
<1>2. \A id \in ReportIDs :
         /\ [reports[id] EXCEPT !.cleared = Dismissed]
              \in [post: ReportedPosts \cup {0}, reason: Reasons \cup {""}, cleared: Open..Blocked]
         /\ [reports[id] EXCEPT !.cleared = Dismissed].post = reports[id].post
         /\ [reports[id] EXCEPT !.cleared = Dismissed].reason = reports[id].reason
    BY <1>t, ClearedRange DEF ReportsTypeOK
<1>3. reports' \in [ReportIDs -> [post: ReportedPosts \cup {0}, reason: Reasons \cup {""},
                                 cleared: Open..Blocked]]
    BY <1>1, <1>2, NoReportType
<1>4. \A id \in ReportIDs : \/ reports'[id] = NoReport
                            \/ /\ reports[id] # NoReport
                               /\ reports'[id].post = reports[id].post
                               /\ reports'[id].reason = reports[id].reason
    BY <1>1, <1>2
<1>5. /\ reportPc' \in [Requests -> {"idle", "check", "create", "clear", "clean"}]
      /\ \A q \in Requests : reportPc'[q] = "create" => reportPc[q] = "create" /\ reportReq'[q] = reportReq[q]
    BY <1>1, <1>t DEF ReportsTypeOK
<1>6. /\ stillBlocked' \in [Requests -> SUBSET ReportedPosts]
      /\ \A q \in Requests : stillBlocked'[q] \subseteq stillBlocked[q] \cap BlockedPosts(reports')
    BY <1>1
<1>7. /\ postRow' \in [ReportedPosts -> {"live", "deleted", "removed"}] /\ audits' \in [ReportIDs -> -1..Blocked]
      /\ reportReq' \in [Requests -> ReportLocals] /\ nextReport' = nextReport
    BY <1>1, <1>t DEF ReportsTypeOK
<1> QED BY <1>3, <1>4, <1>5, <1>6, <1>7, ClearedInv

\* Clearing one selected report.
LEMMA ClearReportInv ==
    ASSUME ReportsInv, NEW r \in Requests, NEW id \in ReportIDs, ClearReport(r, id)
    PROVE  ReportsInv' /\ ReportsOnlyUnblocked
<1>t. ReportsTypeOK
    BY DEF ReportsInv
<1> DEFINE value == reportReq[r].clear
           row == [reports[id] EXCEPT !.cleared = value]
           table == [reports EXCEPT ![id].cleared = value]
           rest == [reportReq[r] EXCEPT !.todo = @ \ {id}]
<1>1. UNCHANGED <<postRow, nextReport>> /\ reportPc[r] = "clear"
    BY DEF ClearReport
<1>2. value \in Open..Blocked /\ rest \in ReportLocals
    BY <1>t DEF ReportsTypeOK, ReportLocals
<1>3. /\ row \in [post: ReportedPosts \cup {0}, reason: Reasons \cup {""}, cleared: Open..Blocked]
      /\ row.post = reports[id].post /\ row.reason = reports[id].reason
  <2> HIDE DEF value
  <2> QED BY <1>t, <1>2 DEF ReportsTypeOK
<1>4. table = [reports EXCEPT ![id] = row]
    BY <1>t DEF ReportsTypeOK
<1>5. /\ reportPc' \in [Requests -> {"idle", "check", "create", "clear", "clean"}]
      /\ reportReq' \in [Requests -> ReportLocals]
      /\ ReportOthersKept(r) /\ reportPc'[r] # "create"
  <2>1. CASE ReportDone(r)
      BY <2>1, <1>t, ReportDoneType
  <2>2. CASE ~ReportDone(r)
    <3>1. PICK step \in {"clean", "clear"} : reportPc' = [reportPc EXCEPT ![r] = step]
        BY <2>2 DEF ClearReport, ReportGoto
    <3>2. reportReq' = [reportReq EXCEPT ![r].todo = @ \ {id}]
        BY <2>2 DEF ClearReport
    <3>3. reportReq' = [reportReq EXCEPT ![r] = rest]
        BY <1>t, <3>2 DEF ReportsTypeOK
    <3> HIDE DEF rest
    <3> QED BY <1>t, <1>2, <3>1, <3>3 DEF ReportsTypeOK, ReportOthersKept
  <2> QED BY <2>1, <2>2
<1>6. CASE reports[id] # NoReport
  <2>1. /\ reports' = table
        /\ audits' = IF audits[id] = -1 THEN audits ELSE [audits EXCEPT ![id] = value]
        /\ stillBlocked' = [q \in Requests |-> stillBlocked[q] \cap BlockedPosts(table)]
      BY <1>6 DEF ClearReport, IsReport
  <2>2. reports' = [reports EXCEPT ![id] = row]
      BY <1>4, <2>1
  <2>3. audits' \in [ReportIDs -> -1..Blocked]
    <3>1. value \in -1..Blocked
        BY <1>2, ClearedRange
    <3> HIDE DEF value
    <3> QED BY <1>t, <2>1, <3>1 DEF ReportsTypeOK
  <2>4. /\ stillBlocked' \in [Requests -> SUBSET ReportedPosts]
        /\ \A q \in Requests : stillBlocked'[q] \subseteq stillBlocked[q] \cap BlockedPosts(reports')
    <3>1. stillBlocked' = [q \in Requests |-> stillBlocked[q] \cap BlockedPosts(reports')]
        BY <2>1
    <3>2. \A q \in Requests : stillBlocked[q] \cap BlockedPosts(reports') \in SUBSET ReportedPosts
        BY <1>t DEF ReportsTypeOK
    <3> QED BY <3>1, <3>2
  <2> HIDE DEF row
  <2>5. /\ reports' \in [ReportIDs -> [post: ReportedPosts \cup {0}, reason: Reasons \cup {""},
                                      cleared: Open..Blocked]]
        /\ \A i \in ReportIDs : \/ reports'[i] = NoReport
                                \/ /\ reports[i] # NoReport
                                   /\ reports'[i].post = reports[i].post
                                   /\ reports'[i].reason = reports[i].reason
      BY <1>t, <1>3, <1>6, <2>2 DEF ReportsTypeOK
  <2>6. \A q \in Requests : reportPc'[q] = "create" => reportPc[q] = "create" /\ reportReq'[q] = reportReq[q]
      BY <1>5 DEF ReportOthersKept
  <2>7. postRow' \in [ReportedPosts -> {"live", "deleted", "removed"}] /\ nextReport' = nextReport
      BY <1>1, <1>t DEF ReportsTypeOK
  <2> QED BY <1>5, <2>3, <2>4, <2>5, <2>6, <2>7, ClearedInv
<1>7. CASE reports[id] = NoReport
  <2>1. UNCHANGED <<reports, audits, stillBlocked>>
      BY <1>7 DEF ClearReport, IsReport
  <2> QED BY <1>1, <1>5, <2>1, ReportPcInv
<1> QED BY <1>6, <1>7

\* The last step of the reports page.
LEMMA DeleteReportsOfDeletedPostsInv ==
    ASSUME ReportsInv, NEW r \in Requests, DeleteReportsOfDeletedPosts(r)
    PROVE  ReportsInv' /\ ReportsOnlyUnblocked
<1>t. ReportsTypeOK
    BY DEF ReportsInv
<1>1. /\ KeepReportsOf(ReportedPosts \ PostsIn("deleted")) /\ ReportDone(r)
      /\ UNCHANGED <<postRow, nextReport>>
      /\ audits' = [id \in ReportIDs |->
                      IF reports'[id] = NoReport \/ id \in PostsIn("deleted") THEN -1 ELSE audits[id]]
    BY DEF DeleteReportsOfDeletedPosts
<1>2. audits' \in [ReportIDs -> -1..Blocked]
    BY <1>1, <1>t, ClearedRange DEF ReportsTypeOK
<1>3. postRow' \in [ReportedPosts -> {"live", "deleted", "removed"}] /\ nextReport' = nextReport
    BY <1>1, <1>t DEF ReportsTypeOK
<1>4. /\ reportPc' \in [Requests -> {"idle", "check", "create", "clear", "clean"}]
      /\ reportReq' \in [Requests -> ReportLocals]
      /\ ReportOthersKept(r) /\ reportPc'[r] = "idle"
    BY <1>1, <1>t, ReportDoneType
<1>5. \A q \in Requests : reportPc'[q] = "create" => reportPc[q] = "create" /\ reportReq'[q] = reportReq[q]
    BY <1>4 DEF ReportOthersKept
<1>6. /\ reports' \in [ReportIDs -> [post: ReportedPosts \cup {0}, reason: Reasons \cup {""},
                                    cleared: Open..Blocked]]
      /\ \A id \in ReportIDs : reports'[id] = NoReport \/ (reports[id] # NoReport /\ reports'[id] = reports[id])
      /\ stillBlocked' \in [Requests -> SUBSET ReportedPosts]
      /\ \A q \in Requests : stillBlocked'[q] \subseteq stillBlocked[q] \cap BlockedPosts(reports')
  <2>1. ReportedPosts \ PostsIn("deleted") \in SUBSET ReportedPosts
      OBVIOUS
  <2> QED BY <1>t, <1>1, <2>1, KeepReportsOfKeeps
<1>7. \A id \in ReportIDs : \/ reports'[id] = NoReport
                            \/ /\ reports[id] # NoReport
                               /\ reports'[id].post = reports[id].post
                               /\ reports'[id].reason = reports[id].reason
    BY <1>6
<1> QED BY <1>2, <1>3, <1>4, <1>5, <1>6, <1>7, ClearedInv

\* The cleanup page.
LEMMA PermanentlyRemoveDeletedPostsInv ==
    ASSUME ReportsInv, PermanentlyRemoveDeletedPosts
    PROVE  ReportsInv' /\ ReportsOnlyUnblocked
<1>t. ReportsTypeOK
    BY DEF ReportsInv
<1>1. /\ KeepReportsOf(PostsIn("live")) /\ UNCHANGED <<nextReport, reportPc, reportReq>>
      /\ audits' = [id \in ReportIDs |-> IF reports'[id] = NoReport THEN -1 ELSE audits[id]]
      /\ postRow' = [p \in ReportedPosts |-> IF postRow[p] = "deleted" THEN "removed" ELSE postRow[p]]
    BY DEF PermanentlyRemoveDeletedPosts
<1>2. audits' \in [ReportIDs -> -1..Blocked]
    BY <1>1, <1>t, ClearedRange DEF ReportsTypeOK
<1>3. postRow' \in [ReportedPosts -> {"live", "deleted", "removed"}] /\ nextReport' = nextReport
    BY <1>1, <1>t DEF ReportsTypeOK
<1>4. /\ reportPc' \in [Requests -> {"idle", "check", "create", "clear", "clean"}]
      /\ reportReq' \in [Requests -> ReportLocals]
      /\ \A q \in Requests : reportPc'[q] = "create" => reportPc[q] = "create" /\ reportReq'[q] = reportReq[q]
    BY <1>1, <1>t DEF ReportsTypeOK
<1>6. /\ reports' \in [ReportIDs -> [post: ReportedPosts \cup {0}, reason: Reasons \cup {""},
                                    cleared: Open..Blocked]]
      /\ \A id \in ReportIDs : reports'[id] = NoReport \/ (reports[id] # NoReport /\ reports'[id] = reports[id])
      /\ stillBlocked' \in [Requests -> SUBSET ReportedPosts]
      /\ \A q \in Requests : stillBlocked'[q] \subseteq stillBlocked[q] \cap BlockedPosts(reports')
  <2>1. PostsIn("live") \in SUBSET ReportedPosts
      BY DEF PostsIn
  <2> QED BY <1>t, <1>1, <2>1, KeepReportsOfKeeps
<1>7. \A id \in ReportIDs : \/ reports'[id] = NoReport
                            \/ /\ reports[id] # NoReport
                               /\ reports'[id].post = reports[id].post
                               /\ reports'[id].reason = reports[id].reason
    BY <1>6
<1> QED BY <1>2, <1>3, <1>4, <1>6, <1>7, ClearedInv

\* ReportsInv is inductive, and no step inserts a report of a post remembered to be blocked.
LEMMA ReportsInvInductive ==
    ReportsInv /\ [ReportsNext]_reportVars => ReportsInv' /\ [ReportsOnlyUnblocked]_reportVars
<1> SUFFICES ASSUME ReportsInv, [ReportsNext]_reportVars
             PROVE  ReportsInv' /\ ReportsOnlyUnblocked
    OBVIOUS
<1>t. ReportsTypeOK
    BY DEF ReportsInv
<1>1. ASSUME NEW r \in Requests, NEW posts \in SUBSET ReportedPosts, NEW reason \in Reasons,
             StartReport(r, posts, reason)
      PROVE  ReportsInv' /\ ReportsOnlyUnblocked
  <2> DEFINE locals == [NoReportLocals EXCEPT !.todo = posts, !.reason = reason]
  <2>1. /\ reportPc' = [reportPc EXCEPT ![r] = "check"] /\ reportReq' = [reportReq EXCEPT ![r] = locals]
        /\ stillBlocked' = [stillBlocked EXCEPT ![r] = BlockedPosts(reports)]
        /\ UNCHANGED <<postRow, reports, audits, nextReport>>
      BY <1>1 DEF StartReport, ReportGoto
  <2>2. locals \in ReportLocals
      BY ClearedRange DEF NoReportLocals, ReportLocals
  <2> HIDE DEF locals
  <2>3. /\ reportPc' \in [Requests -> {"idle", "check", "create", "clear", "clean"}]
        /\ reportReq' \in [Requests -> ReportLocals] /\ ReportOthersKept(r) /\ reportPc'[r] # "create"
      BY <1>t, <2>1, <2>2 DEF ReportsTypeOK, ReportOthersKept
  <2> QED BY <2>1, <2>3, ReportPcInv
<1>2. ASSUME NEW r \in Requests, NEW ids \in SUBSET ReportIDs, NEW value \in {Dismissed, Blocked},
             NEW rank \in {2, 3}, StartClearing(r, ids, value, rank)
      PROVE  ReportsInv' /\ ReportsOnlyUnblocked
  <2> DEFINE locals == [NoReportLocals EXCEPT !.todo = ids, !.clear = value]
  <2>1. /\ reportReq' = [reportReq EXCEPT ![r] = locals]
        /\ UNCHANGED <<postRow, reports, audits, nextReport, stillBlocked>>
      BY <1>2 DEF StartClearing
  <2>2. PICK step \in {"clean", "clear"} : reportPc' = [reportPc EXCEPT ![r] = step]
      BY <1>2 DEF StartClearing, ReportGoto
  <2>3. locals \in ReportLocals
    <3>1. value \in Open..Blocked
        BY ClearedRange
    <3> QED BY <3>1 DEF NoReportLocals, ReportLocals
  <2> HIDE DEF locals
  <2>4. /\ reportPc' \in [Requests -> {"idle", "check", "create", "clear", "clean"}]
        /\ reportReq' \in [Requests -> ReportLocals] /\ ReportOthersKept(r) /\ reportPc'[r] # "create"
      BY <1>t, <2>1, <2>2, <2>3 DEF ReportsTypeOK, ReportOthersKept
  <2> QED BY <2>1, <2>4, ReportPcInv
<1>3. ASSUME NEW r \in Requests, ReportAnswered(r) \/ ReportQueryFails(r)
      PROVE  ReportsInv' /\ ReportsOnlyUnblocked
  <2>1. ReportDone(r) /\ UNCHANGED <<postRow, reports, audits, nextReport, stillBlocked>>
      BY <1>3 DEF ReportAnswered, ReportQueryFails
  <2> QED BY <1>t, <2>1, ReportDoneType, ReportPcInv
<1>4. ASSUME NEW p \in ReportedPosts, DeleteReportedPost(p)
      PROVE  ReportsInv' /\ ReportsOnlyUnblocked
  <2>1. /\ UNCHANGED <<reports, audits, nextReport, reportPc, reportReq, stillBlocked>>
        /\ postRow' = [postRow EXCEPT ![p] = "deleted"]
      BY <1>4 DEF DeleteReportedPost
  <2>2. ReportsTypeOK'
      BY <1>t, <2>1 DEF ReportsTypeOK
  <2>3. StillAreBlocked'
      BY <2>1 DEF ReportsInv, StillAreBlocked, BlockedPosts
  <2> QED BY <2>1, <2>2, <2>3, ReportsKept
<1>5. CASE UNCHANGED reportVars
  <2>1. UNCHANGED <<postRow, reports, audits, nextReport, reportPc, reportReq, stillBlocked>>
      BY <1>5 DEF reportVars
  <2>2. ReportsTypeOK'
      BY <1>t, <2>1 DEF ReportsTypeOK
  <2>3. StillAreBlocked'
      BY <2>1 DEF ReportsInv, StillAreBlocked, BlockedPosts
  <2> QED BY <2>1, <2>2, <2>3, ReportsKept
<1> QED BY <1>1, <1>2, <1>3, <1>4, <1>5, CheckReportInv, CreateReportInv, DismissAllInv, ClearReportInv,
           DeleteReportsOfDeletedPostsInv, PermanentlyRemoveDeletedPostsInv DEF ReportsNext

\* ReportsInv holds before the first request.
LEMMA ReportsInvInit == ReportsInit => ReportsInv
<1> SUFFICES ASSUME ReportsInit
             PROVE  ReportsInv
    OBVIOUS
<1>1. ReportsTypeOK
  <2>1. 1 \in 1..(MaxReportID + 1)
      BY ReportNumbers
  <2>2. NoReportLocals \in ReportLocals
      BY ClearedRange DEF NoReportLocals, ReportLocals
  <2> QED BY <2>1, <2>2, NoReportType, ClearedRange DEF ReportsInit, ReportsTypeOK
<1>2. FreeIDs /\ StillAreBlocked /\ CreatesAllowed
    BY DEF ReportsInit, FreeIDs, StillAreBlocked, CreatesAllowed
<1>3. RoomForCopies
  <2> SUFFICES ASSUME NEW p \in ReportedPosts, NEW reason \in Reasons
               PROVE  Cardinality(Copies(p, reason)) + Cardinality(Creating(p, reason)) <= Cardinality(Requests)
      BY DEF RoomForCopies
  <2>1. NoReport.post # p
      BY ReportNumbers DEF NoReport
  <2>2. Copies(p, reason) = {} /\ Creating(p, reason) = {}
      BY <2>1 DEF Copies, Creating, ReportsInit
  <2>3. Cardinality({}) = 0 /\ Cardinality(Requests) \in Nat
      BY FS_EmptySet, RequestsAssumption, FS_CardinalityType
  <2> QED BY <2>2, <2>3
<1> QED BY <1>1, <1>2, <1>3 DEF ReportsInv

\* The tables of reports and what the requests hold keep their types.
THEOREM ReportsTypeCorrect == ReportsSpec => []ReportsTypeOK
<1>1. ReportsInv => ReportsTypeOK
    BY DEF ReportsInv
<1> QED BY <1>1, ReportsInvInit, ReportsInvInductive, PTL DEF ReportsSpec

\* A post that was blocked before a report of it was submitted, and still is, gets no report from
\* that request (gcsql.CheckPostReports), however the requests are interleaved.
THEOREM BlockedPostsAreNotReportedCorrect == ReportsSpec => BlockedPostsAreNotReported
<1>1. ReportsInv /\ [ReportsNext]_reportVars =>
         [\A r \in Requests :
             reportPc[r] = "create" /\ reportPc'[r] = "check" => reportReq[r].post \notin stillBlocked[r]]_reportVars
    BY ReportsInvInductive DEF ReportsOnlyUnblocked
<1> QED BY <1>1, ReportsInvInit, ReportsInvInductive, PTL DEF ReportsSpec, BlockedPostsAreNotReported

\* There are at most as many reports of a post with one reason as requests served at a time: the
\* check of gcsql.CheckPostReports and the insert of gcsql.CreateReport are apart, and a request
\* passes the check only while there is no such report.
THEOREM DuplicatesOnlyByRaceCorrect == ReportsSpec => []DuplicatesOnlyByRace
<1>1. ReportsInv => DuplicatesOnlyByRace
  <2> SUFFICES ASSUME ReportsInv, NEW p \in ReportedPosts, NEW reason \in Reasons
               PROVE  Cardinality(Copies(p, reason)) <= Cardinality(Requests)
      BY DEF DuplicatesOnlyByRace, Copies
  <2>1. Cardinality(Copies(p, reason)) \in Nat /\ Cardinality(Creating(p, reason)) \in Nat
        /\ Cardinality(Requests) \in Nat
      BY CopiesAreFinite, RequestsAssumption, FS_CardinalityType
  <2>2. Cardinality(Copies(p, reason)) + Cardinality(Creating(p, reason)) <= Cardinality(Requests)
      BY DEF ReportsInv, RoomForCopies
  <2> QED BY <2>1, <2>2
<1> QED BY <1>1, ReportsInvInit, ReportsInvInductive, PTL DEF ReportsSpec

(* Edits. *)

\* A request that handles an edit knows both messages.
EditKnows == \A r \in Requests : editPc[r] # "idle" => editReq[r] \in [text: Texts, old: Texts]

\* As long as no edits overlapped and none was cut short, at most one is handled; while it is, the
\* row holds the old message or the new one, and the old one is not refused.
OneEdit ==
    /\ \A r, q \in Requests : editPc[r] # "idle" /\ editPc[q] # "idle" => r = q
    /\ (\A r \in Requests : editPc[r] = "idle") => message \notin refused
    /\ \A r \in Requests : editPc[r] # "idle" =>
          /\ message = IF editPc[r] = "update" THEN editReq[r].old ELSE editReq[r].text
          /\ editReq[r].old \notin refused

EditInv == EditTypeOK /\ EditKnows /\ (~tainted => OneEdit)

\* The requests have their types, and those that handle an edit know both messages.
EditRequestsOK ==
    /\ editPc \in [Requests -> {"idle", "update", "filter", "restore"}]
    /\ editReq \in [Requests -> [text: Texts \cup {""}, old: Texts \cup {""}]]
    /\ EditKnows

EditOthersIdle(r) == \A q \in Requests \ {r} : editPc[q] = "idle"

\* An edit that has returned.
LEMMA EditDoneType ==
    ASSUME EditRequestsOK, NEW r \in Requests, EditDone(r)
    PROVE  /\ EditRequestsOK' /\ editPc'[r] = "idle"
           /\ \A q \in Requests \ {r} : editPc'[q] = editPc[q]
<1>1. NoEditLocals \in [text: Texts \cup {""}, old: Texts \cup {""}]
    BY DEF NoEditLocals
<1> QED BY <1>1 DEF EditRequestsOK, EditKnows, EditDone, EditGoto

\* An edit that goes on with its next step.
LEMMA EditGotoType ==
    ASSUME EditRequestsOK, NEW r \in Requests, NEW step \in {"update", "filter", "restore"}, EditGoto(r, step),
           NEW locals \in [text: Texts, old: Texts], editReq' = [editReq EXCEPT ![r] = locals]
    PROVE  /\ EditRequestsOK' /\ editPc'[r] = step /\ editReq'[r] = locals
           /\ \A q \in Requests \ {r} : editPc'[q] = editPc[q]
<1>1. locals \in [text: Texts \cup {""}, old: Texts \cup {""}]
    OBVIOUS
<1> QED BY <1>1 DEF EditRequestsOK, EditKnows, EditGoto

\* EditInv holds again once the only edit has returned and left a message that is not refused.
LEMMA EditDoneInv ==
    ASSUME EditInv, NEW r \in Requests, editPc[r] # "idle", EditDone(r),
           message' \in Texts, refused' \subseteq Texts, tainted' \in BOOLEAN,
           ~tainted' => ~tainted /\ message' \notin refused'
    PROVE  EditInv'
<1>1. /\ EditRequestsOK' /\ editPc'[r] = "idle" /\ \A q \in Requests \ {r} : editPc'[q] = editPc[q]
    BY EditDoneType DEF EditInv, EditTypeOK, EditRequestsOK
<1>2. ASSUME ~tainted'
      PROVE  OneEdit'
  <2>1. \A q \in Requests : editPc'[q] = "idle"
      BY <1>1, <1>2 DEF EditInv, OneEdit
  <2> QED BY <1>2, <2>1 DEF OneEdit
<1> QED BY <1>1, <1>2 DEF EditInv, EditTypeOK, EditRequestsOK

\* EditInv holds again after a step of the only edit.
LEMMA EditStepInv ==
    ASSUME EditInv, NEW r \in Requests, NEW step \in {"update", "filter", "restore"}, EditGoto(r, step),
           NEW locals \in [text: Texts, old: Texts], editReq' = [editReq EXCEPT ![r] = locals],
           message' \in Texts, refused' \subseteq Texts, tainted' \in BOOLEAN,
           ~tainted' => /\ EditOthersIdle(r)
                        /\ message' = IF step = "update" THEN locals.old ELSE locals.text
                        /\ locals.old \notin refused'
    PROVE  EditInv'
<1>1. /\ EditRequestsOK' /\ editPc'[r] = step /\ editReq'[r] = locals
      /\ \A q \in Requests \ {r} : editPc'[q] = editPc[q]
  <2>1. EditRequestsOK
      BY DEF EditInv, EditTypeOK, EditRequestsOK
  <2> QED BY <2>1, EditGotoType
<1>2. ASSUME ~tainted'
      PROVE  OneEdit'
  <2>1. \A q \in Requests \ {r} : editPc'[q] = "idle"
      BY <1>1, <1>2 DEF EditOthersIdle
  <2>2. editPc'[r] # "idle"
      BY <1>1
  <2> QED BY <1>1, <1>2, <2>1, <2>2 DEF OneEdit
<1> QED BY <1>1, <1>2 DEF EditInv, EditTypeOK, EditRequestsOK

\* EditInv is inductive.
LEMMA EditInvInductive == EditInv /\ [EditNext]_editVars => EditInv'
<1> SUFFICES ASSUME EditInv, [EditNext]_editVars
             PROVE  EditInv'
    OBVIOUS
<1>t. message \in Texts /\ refused \subseteq Texts /\ tainted \in BOOLEAN
    BY DEF EditInv, EditTypeOK
<1>r. /\ editPc \in [Requests -> {"idle", "update", "filter", "restore"}]
      /\ editReq \in [Requests -> [text: Texts \cup {""}, old: Texts \cup {""}]]
    BY DEF EditInv, EditTypeOK
<1>1. ASSUME NEW r \in Requests, NEW text \in Texts, StartEditing(r, text)
      PROVE  EditInv'
  <2> DEFINE locals == [text |-> text, old |-> message]
  <2>1. /\ EditGoto(r, "update") /\ editReq' = [editReq EXCEPT ![r] = locals]
        /\ tainted' = (tainted \/ \E q \in Requests : editPc[q] # "idle")
        /\ UNCHANGED <<message, refused>>
      BY <1>1 DEF StartEditing
  <2>2. locals \in [text: Texts, old: Texts] /\ locals.old = message
      BY <1>t
  <2>3. ASSUME ~tainted'
        PROVE  EditOthersIdle(r) /\ message' = locals.old /\ locals.old \notin refused'
      BY <2>1, <2>2, <2>3 DEF EditInv, OneEdit, EditOthersIdle
  <2>4. tainted' \in BOOLEAN
      BY <1>t, <2>1
  <2> HIDE DEF locals
  <2> QED BY <1>t, <2>1, <2>2, <2>3, <2>4, EditStepInv
<1>2. ASSUME NEW r \in Requests, editPc[r] # "idle"
      PROVE  /\ editReq[r] \in [text: Texts, old: Texts]
             /\ editReq = [editReq EXCEPT ![r] = editReq[r]]
             /\ ~tainted => /\ EditOthersIdle(r) /\ editReq[r].old \notin refused
                            /\ message = IF editPc[r] = "update" THEN editReq[r].old ELSE editReq[r].text
  <2>1. editReq[r] \in [text: Texts, old: Texts]
      BY <1>2 DEF EditInv, EditKnows
  <2>2. editReq = [editReq EXCEPT ![r] = editReq[r]]
      BY <1>r
  <2>3. ASSUME ~tainted
        PROVE  /\ EditOthersIdle(r) /\ editReq[r].old \notin refused
               /\ message = IF editPc[r] = "update" THEN editReq[r].old ELSE editReq[r].text
      BY <1>2, <2>3 DEF EditInv, OneEdit, EditOthersIdle
  <2> QED BY <2>1, <2>2, <2>3
<1>3. ASSUME NEW r \in Requests, UpdateContents(r)
      PROVE  EditInv'
  <2>1. /\ editPc[r] = "update" /\ message' = editReq[r].text /\ EditGoto(r, "filter")
        /\ UNCHANGED <<editReq, refused, tainted>>
      BY <1>3 DEF UpdateContents
  <2>2. editPc[r] # "idle"
      BY <2>1
  <2>3. /\ editReq[r] \in [text: Texts, old: Texts] /\ editReq' = [editReq EXCEPT ![r] = editReq[r]]
        /\ message' \in Texts /\ (~tainted => EditOthersIdle(r) /\ editReq[r].old \notin refused)
      BY <1>2, <2>1, <2>2
  <2> QED BY <1>t, <2>1, <2>3, EditStepInv
<1>4. ASSUME NEW r \in Requests, FilterEdit(r)
      PROVE  EditInv'
  <2>1. editPc[r] = "filter" /\ UNCHANGED <<message, tainted>>
      BY <1>4 DEF FilterEdit
  <2>2. editPc[r] # "idle" /\ editPc[r] # "update"
      BY <2>1
  <2>3. /\ editReq[r] \in [text: Texts, old: Texts] /\ editReq = [editReq EXCEPT ![r] = editReq[r]]
        /\ ~tainted => /\ EditOthersIdle(r) /\ message = editReq[r].text /\ editReq[r].old \notin refused
      BY <1>2, <2>2
  <2>4. CASE EditDone(r) /\ refused' = refused \ {editReq[r].text}
      BY <1>t, <2>1, <2>2, <2>3, <2>4, EditDoneInv
  <2>5. CASE /\ EditGoto(r, "restore") /\ UNCHANGED editReq
             /\ refused' = IF editReq[r].text = editReq[r].old THEN refused ELSE refused \cup {editReq[r].text}
    <3>1. refused' \subseteq Texts
        BY <1>t, <2>3, <2>5
    <3>2. ~tainted => editReq[r].old \notin refused'
        BY <2>3, <2>5
    <3> QED BY <1>t, <2>1, <2>3, <2>5, <3>1, <3>2, EditStepInv
  <2> QED BY <1>4, <2>4, <2>5 DEF FilterEdit
<1>5. ASSUME NEW r \in Requests, RestoreContents(r)
      PROVE  EditInv'
  <2>1. /\ editPc[r] = "restore" /\ message' = editReq[r].old /\ EditDone(r) /\ UNCHANGED <<refused, tainted>>
      BY <1>5 DEF RestoreContents
  <2>2. editPc[r] # "idle"
      BY <2>1
  <2>3. message' \in Texts /\ (~tainted => message' \notin refused)
      BY <1>2, <2>1, <2>2
  <2> QED BY <1>t, <2>1, <2>2, <2>3, EditDoneInv
<1>6. ASSUME NEW r \in Requests, EditQueryFails(r)
      PROVE  EditInv'
  <2>1. /\ editPc[r] # "idle" /\ EditDone(r) /\ UNCHANGED <<message, refused>>
        /\ tainted' = (tainted \/ editPc[r] \in {"filter", "restore"})
      BY <1>6 DEF EditQueryFails
  <2>2. tainted' \in BOOLEAN
      BY <1>t, <2>1
  <2>3. ASSUME ~tainted'
        PROVE  ~tainted /\ message' \notin refused'
    <3>1. ~tainted /\ editPc[r] = "update"
        BY <1>r, <2>1, <2>3
    <3> QED BY <1>2, <2>1, <3>1
  <2> QED BY <1>t, <2>1, <2>2, <2>3, EditDoneInv
<1>7. CASE UNCHANGED editVars
    BY <1>7 DEF editVars, EditInv, EditTypeOK, EditKnows, OneEdit
<1> QED BY <1>1, <1>3, <1>4, <1>5, <1>6, <1>7 DEF EditNext

\* EditInv holds at the start, when nothing is handled.
LEMMA EditInvInit == EditInit => EditInv
<1> SUFFICES ASSUME EditInit
             PROVE  EditInv
    OBVIOUS
<1>1. NoEditLocals \in [text: Texts \cup {""}, old: Texts \cup {""}]
    BY DEF NoEditLocals
<1> QED BY <1>1, EditAssumption DEF EditInit, EditInv, EditTypeOK, EditKnows, OneEdit

\* The row and what the requests hold keep their types.
THEOREM EditTypeCorrect == EditSpec => []EditTypeOK
<1>1. EditInv => EditTypeOK
    BY DEF EditInv
<1> QED BY <1>1, EditInvInit, EditInvInductive, PTL DEF EditSpec

\* A message the filters refuse as an edit is not in the row once no edit is handled (editPost puts
\* the old one back), unless edits overlapped or one was cut short before it was undone.
THEOREM RefusedEditIsUndoneCorrect == EditSpec => []RefusedEditIsUndone
<1>1. EditInv => RefusedEditIsUndone
    BY DEF EditInv, OneEdit, RefusedEditIsUndone
<1> QED BY <1>1, EditInvInit, EditInvInductive, PTL DEF EditSpec

(* Moved threads and replaced uploads. *)

Moving == {"change", "files", "moveFiles", "removePage", "build"}
Replacing == {"receive", "unlink", "removeOld", "attach"}
Received(r) == upkeepPc[r] \in {"unlink", "removeOld", "attach"}
InRow(f) == \E p \in ThreadPosts : f \in fileRows[p]
OnDisk(f) == \E b \in BoardDirs : <<b, f>> \in stored

\* What a request that moves a thread or replaces an upload works on.
UpkeepKnows ==
    \A r \in Requests :
       /\ upkeepPc[r] \in Moving => upkeepReq[r].board \in BoardDirs /\ upkeepReq[r].dest \in BoardDirs
       /\ upkeepPc[r] \in Replacing => upkeepReq[r].board \in BoardDirs /\ upkeepReq[r].post \in ThreadPosts

\* Two posts never share an upload.
RowsAreApart == \A p, q \in ThreadPosts : \A f \in fileRows[p] : f \in fileRows[q] => p = q

\* The upload a request replaces is in rows of its own post only, and in none when it is removed.
OldIsOwn ==
    \A r \in Requests :
       /\ \A p \in ThreadPosts : upkeepReq[r].old \in fileRows[p] => p = upkeepReq[r].post
       /\ upkeepPc[r] = "removeOld" => ~InRow(upkeepReq[r].old)

\* A received upload is on disk and in no row yet.
NewIsThere ==
    \A r \in Requests :
       Received(r) => /\ upkeepReq[r].new \in UploadNames
                      /\ OnDisk(upkeepReq[r].new) /\ ~InRow(upkeepReq[r].new)

\* No other request knows it, neither as the one it replaces nor as the one it received.
NewIsOwn ==
    \A r, s \in Requests :
       Received(s) => /\ upkeepReq[s].new # upkeepReq[r].old
                      /\ upkeepReq[r].new = upkeepReq[s].new => r = s

UpkeepInv == UpkeepTypeOK /\ UpkeepKnows /\ NoUploadIsLost /\ RowsAreApart /\ OldIsOwn /\ NewIsThere /\ NewIsOwn

\* The requests, as far as their types and what they work on go.
UpkeepRequestsOK ==
    /\ upkeepPc \in [Requests -> {"idle", "change", "files", "moveFiles", "removePage", "build",
                                  "receive", "unlink", "removeOld", "attach"}]
    /\ upkeepReq \in [Requests -> UpkeepLocals]
    /\ UpkeepKnows
FilesOK ==
    /\ threadBoard \in BoardDirs
    /\ fileRows \in [ThreadPosts -> SUBSET UploadNames]
    /\ stored \subseteq BoardDirs \X UploadNames
    /\ threadPages \subseteq BoardDirs

UpkeepOthersKept(r) ==
    \A q \in Requests \ {r} : upkeepPc'[q] = upkeepPc[q] /\ upkeepReq'[q] = upkeepReq[q]

\* What is left of a request that has returned.
LEMMA NoUpkeepLocalsType ==
    NoUpkeepLocals \in UpkeepLocals /\ NoUpkeepLocals.old = "" /\ NoUpkeepLocals.new = ""
    BY DEF NoUpkeepLocals, UpkeepLocals

\* What is known of a request in the middle of its work.
UpkeepStepOK(step, locals) ==
    /\ step \in {"idle"} \cup Moving \cup Replacing
    /\ locals \in UpkeepLocals
    /\ step \in Moving => locals.board \in BoardDirs /\ locals.dest \in BoardDirs
    /\ step \in Replacing => locals.board \in BoardDirs /\ locals.post \in ThreadPosts

\* A request that goes on, or returns, leaves the others alone.
LEMMA UpkeepGotoOK ==
    ASSUME UpkeepRequestsOK, NEW r \in Requests, NEW step, NEW locals, UpkeepStepOK(step, locals),
           UpkeepGoto(r, step), upkeepReq' = [upkeepReq EXCEPT ![r] = locals]
    PROVE  /\ UpkeepRequestsOK' /\ UpkeepOthersKept(r)
           /\ upkeepPc'[r] = step /\ upkeepReq'[r] = locals
<1>1. /\ upkeepPc' \in [Requests -> {"idle", "change", "files", "moveFiles", "removePage", "build",
                                     "receive", "unlink", "removeOld", "attach"}]
      /\ upkeepReq' \in [Requests -> UpkeepLocals]
      /\ upkeepPc'[r] = step /\ upkeepReq'[r] = locals /\ UpkeepOthersKept(r)
    BY DEF UpkeepRequestsOK, UpkeepStepOK, UpkeepGoto, UpkeepOthersKept, Moving, Replacing
<1>2. UpkeepKnows'
    BY <1>1 DEF UpkeepRequestsOK, UpkeepKnows, UpkeepStepOK, UpkeepOthersKept
<1> QED BY <1>1, <1>2 DEF UpkeepRequestsOK

\* A request that has returned.
LEMMA UpkeepDoneOK ==
    ASSUME UpkeepRequestsOK, NEW r \in Requests, UpkeepDone(r)
    PROVE  /\ UpkeepRequestsOK' /\ UpkeepOthersKept(r)
           /\ upkeepPc'[r] = "idle" /\ upkeepReq'[r] = NoUpkeepLocals
<1>1. UpkeepStepOK("idle", NoUpkeepLocals)
    BY NoUpkeepLocalsType DEF UpkeepStepOK, Moving, Replacing
<1> QED BY <1>1, UpkeepGotoOK DEF UpkeepDone

\* A step that leaves the rows alone and removes no upload, of a request that has received nothing
\* afterwards and replaces what it did before, nothing, or an upload of the post.
LEMMA QuietUpkeepInv ==
    ASSUME UpkeepInv, NEW r \in Requests, UpkeepRequestsOK', FilesOK', UpkeepOthersKept(r),
           fileRows' = fileRows, \A f : OnDisk(f) => OnDisk(f)', ~Received(r)',
           \/ upkeepReq'[r].old = ""
           \/ upkeepReq'[r].old = upkeepReq[r].old /\ upkeepReq'[r].post = upkeepReq[r].post
           \/ \E p \in ThreadPosts : upkeepReq'[r].old \in fileRows[p] /\ upkeepReq'[r].post = p,
           upkeepReq'[r].new \in {"", upkeepReq[r].new}
    PROVE  UpkeepInv'
<1>1. UpkeepTypeOK' /\ UpkeepKnows'
    BY DEF UpkeepRequestsOK, FilesOK, UpkeepTypeOK
<1>n. \A p \in ThreadPosts : "" \notin fileRows[p]
    BY UpkeepAssumption DEF UpkeepInv, UpkeepTypeOK
<1>2. NoUploadIsLost' /\ RowsAreApart'
  <2>1. NoUploadIsLost'
      BY DEF UpkeepInv, NoUploadIsLost, OnDisk
  <2> QED BY <2>1 DEF UpkeepInv, RowsAreApart
<1>3. OldIsOwn'
  <2>1. ASSUME NEW p \in ThreadPosts, upkeepReq'[r].old \in fileRows[p]
        PROVE  p = upkeepReq'[r].post
      BY <1>n, <2>1 DEF UpkeepInv, OldIsOwn, RowsAreApart
  <2>2. upkeepPc'[r] # "removeOld"
      BY DEF Received
  <2>3. \A f : InRow(f)' <=> InRow(f)
      BY DEF InRow
  <2>4. ASSUME NEW q \in Requests, q # r
        PROVE  /\ \A p \in ThreadPosts : upkeepReq'[q].old \in fileRows'[p] => p = upkeepReq'[q].post
               /\ upkeepPc'[q] = "removeOld" => ~InRow(upkeepReq'[q].old)
      BY <2>4 DEF UpkeepInv, OldIsOwn, UpkeepOthersKept
  <2> QED BY <2>1, <2>2, <2>3, <2>4 DEF OldIsOwn
<1>4. \A q \in Requests : Received(q)' => q # r /\ Received(q) /\ upkeepReq'[q] = upkeepReq[q]
    BY DEF Received, UpkeepOthersKept
<1>5. NewIsThere'
  <2>1. \A f : InRow(f)' <=> InRow(f)
      BY DEF InRow
  <2> QED BY <1>4, <2>1 DEF UpkeepInv, NewIsThere
<1>6. NewIsOwn'
  <2> SUFFICES ASSUME NEW q \in Requests, NEW s \in Requests, Received(s)'
               PROVE  /\ upkeepReq'[s].new # upkeepReq'[q].old
                      /\ upkeepReq'[q].new = upkeepReq'[s].new => q = s
      BY DEF NewIsOwn
  <2>1. /\ s # r /\ Received(s) /\ upkeepReq'[s] = upkeepReq[s] /\ upkeepReq[s].new # ""
        /\ ~InRow(upkeepReq[s].new)
      BY <1>4, UpkeepAssumption DEF UpkeepInv, NewIsThere
  <2>2. CASE q = r
      BY <2>1, <2>2 DEF UpkeepInv, NewIsOwn, InRow
  <2>3. CASE q # r
      BY <2>1, <2>3 DEF UpkeepInv, NewIsOwn, UpkeepOthersKept
  <2> QED BY <2>2, <2>3
<1> QED BY <1>1, <1>2, <1>3, <1>5, <1>6 DEF UpkeepInv

\* The steps of a move, up to those on the disk, and the start of a replacement.
LEMMA DatabaseOnlyUpkeepInv ==
    ASSUME UpkeepInv, NEW r \in Requests, NEW step, NEW locals, UpkeepStepOK(step, locals),
           UpkeepGoto(r, step), upkeepReq' = [upkeepReq EXCEPT ![r] = locals],
           step \notin {"unlink", "removeOld", "attach"},
           threadBoard' \in BoardDirs, threadPages' \subseteq BoardDirs, UNCHANGED <<fileRows, stored>>,
           \/ locals.old = ""
           \/ locals.old = upkeepReq[r].old /\ locals.post = upkeepReq[r].post
           \/ \E p \in ThreadPosts : locals.old \in fileRows[p] /\ locals.post = p,
           locals.new \in {"", upkeepReq[r].new}
    PROVE  UpkeepInv'
<1>1. UpkeepRequestsOK /\ FilesOK'
    BY DEF UpkeepInv, UpkeepTypeOK, UpkeepRequestsOK, FilesOK
<1>2. /\ UpkeepRequestsOK' /\ UpkeepOthersKept(r)
      /\ upkeepPc'[r] = step /\ upkeepReq'[r] = locals
    BY <1>1, UpkeepGotoOK
<1>3. ~Received(r)' /\ \A f : OnDisk(f) => OnDisk(f)'
    BY <1>2 DEF Received, OnDisk
<1> QED BY <1>1, <1>2, <1>3, QuietUpkeepInv

\* A request that returns, whatever it left on disk.
LEMMA ReturnedUpkeepInv ==
    ASSUME UpkeepInv, NEW r \in Requests, UpkeepDone(r),
           threadBoard' \in BoardDirs, threadPages' \subseteq BoardDirs, UNCHANGED <<fileRows, stored>>
    PROVE  UpkeepInv'
<1>1. UpkeepStepOK("idle", NoUpkeepLocals)
    BY NoUpkeepLocalsType DEF UpkeepStepOK, Moving, Replacing
<1> QED BY <1>1, NoUpkeepLocalsType, DatabaseOnlyUpkeepInv DEF UpkeepDone

\* MoveFile renames: an upload that was on disk still is, under the other board.
LEMMA MoveFileInv ==
    ASSUME UpkeepInv, NEW r \in Requests, NEW f \in UploadNames, MoveFile(r, f)
    PROVE  UpkeepInv'
<1> DEFINE q == upkeepReq[r]
           moved == [q EXCEPT !.todo = @ \ {f}]
           failed == [moved EXCEPT !.failed = TRUE]
<1>1. /\ upkeepPc[r] = "moveFiles" /\ UNCHANGED <<threadBoard, fileRows, threadPages, upkeepPc>>
      /\ q \in UpkeepLocals /\ q.board \in BoardDirs /\ q.dest \in BoardDirs
      /\ upkeepPc' = [upkeepPc EXCEPT ![r] = "moveFiles"]
    BY DEF MoveFile, UpkeepInv, UpkeepTypeOK, UpkeepKnows, Moving
<1>2. /\ moved \in UpkeepLocals /\ moved.board = q.board /\ moved.dest = q.dest
      /\ moved.old = q.old /\ moved.new = q.new /\ moved.post = q.post
      /\ failed \in UpkeepLocals /\ failed.board = q.board /\ failed.dest = q.dest
      /\ failed.old = q.old /\ failed.new = q.new /\ failed.post = q.post
  <2> HIDE DEF q
  <2> QED BY <1>1 DEF UpkeepLocals
<1>3. PICK locals \in {moved, failed} : upkeepReq' = [upkeepReq EXCEPT ![r] = locals]
    BY DEF MoveFile, UpkeepInv, UpkeepTypeOK
<1>4. /\ locals \in UpkeepLocals /\ locals.board = q.board /\ locals.dest = q.dest
      /\ locals.old = q.old /\ locals.new = q.new /\ locals.post = q.post
  <2> HIDE DEF moved, failed, q
  <2> QED BY <1>2
<1> HIDE DEF moved, failed
<1>5. UpkeepStepOK("moveFiles", locals)
    BY <1>1, <1>4 DEF UpkeepStepOK, Moving, Replacing
<1>6. UpkeepRequestsOK
    BY DEF UpkeepInv, UpkeepTypeOK, UpkeepRequestsOK
<1>7. /\ UpkeepRequestsOK' /\ UpkeepOthersKept(r)
      /\ upkeepPc'[r] = "moveFiles" /\ upkeepReq'[r] = locals
    BY <1>1, <1>3, <1>5, <1>6, UpkeepGotoOK DEF UpkeepGoto
<1>8. FilesOK' /\ \A g : OnDisk(g) => OnDisk(g)'
  <2>1. stored' \in {stored, (stored \ {<<q.board, f>>}) \cup {<<q.dest, f>>}}
      BY DEF MoveFile
  <2>2. stored' \subseteq BoardDirs \X UploadNames
      BY <1>1, <2>1 DEF UpkeepInv, UpkeepTypeOK
  <2>3. ASSUME NEW g, OnDisk(g)
        PROVE  OnDisk(g)'
    <3>1. PICK b \in BoardDirs : <<b, g>> \in stored
        BY <2>3 DEF OnDisk
    <3>2. <<b, g>> \in stored' \/ (g = f /\ <<q.dest, g>> \in stored')
        BY <2>1, <3>1
    <3> QED BY <1>1, <3>2 DEF OnDisk
  <2> QED BY <1>1, <2>2, <2>3 DEF UpkeepInv, UpkeepTypeOK, FilesOK
<1>9. ~Received(r)'
    BY <1>7 DEF Received
<1> QED BY <1>1, <1>4, <1>7, <1>8, <1>9, QuietUpkeepInv

\* ReceiveReplacement writes an upload nobody knows.
LEMMA ReceiveReplacementInv ==
    ASSUME UpkeepInv, NEW r \in Requests, NEW f \in UploadNames, ReceiveReplacement(r, f)
    PROVE  UpkeepInv'
<1> DEFINE q == upkeepReq[r]
           locals == [q EXCEPT !.new = f]
           step == IF q.old = "" THEN "attach" ELSE "unlink"
<1>1. /\ upkeepPc[r] = "receive" /\ UNCHANGED <<threadBoard, fileRows, threadPages>>
      /\ q \in UpkeepLocals /\ q.board \in BoardDirs /\ q.post \in ThreadPosts
      /\ stored' = stored \cup {<<q.board, f>>}
      /\ UpkeepGoto(r, step)
    BY DEF ReceiveReplacement, UpkeepInv, UpkeepTypeOK, UpkeepKnows, Replacing
<1>2. /\ \A s \in Requests : f # upkeepReq[s].old /\ f # upkeepReq[s].new
      /\ ~InRow(f)
    BY DEF ReceiveReplacement, InRow
<1>3. /\ locals \in UpkeepLocals /\ locals.board = q.board /\ locals.post = q.post
      /\ locals.old = q.old /\ locals.new = f
  <2> HIDE DEF q
  <2> QED BY <1>1 DEF UpkeepLocals
<1>4. upkeepReq' = [upkeepReq EXCEPT ![r] = locals]
    BY DEF ReceiveReplacement, UpkeepInv, UpkeepTypeOK
<1>s. step \in {"attach", "unlink"}
    OBVIOUS
<1> HIDE DEF locals, step
<1>5. UpkeepStepOK(step, locals)
    BY <1>1, <1>3, <1>s DEF UpkeepStepOK, Moving, Replacing
<1>6. UpkeepRequestsOK
    BY DEF UpkeepInv, UpkeepTypeOK, UpkeepRequestsOK
<1>7. /\ UpkeepRequestsOK' /\ UpkeepOthersKept(r)
      /\ upkeepPc'[r] = step /\ upkeepReq'[r] = locals
    BY <1>1, <1>4, <1>5, <1>6, UpkeepGotoOK
<1>8. UpkeepTypeOK' /\ UpkeepKnows'
  <2>1. stored' \subseteq BoardDirs \X UploadNames
      BY <1>1 DEF UpkeepInv, UpkeepTypeOK
  <2> QED BY <1>1, <1>7, <2>1 DEF UpkeepInv, UpkeepTypeOK, UpkeepRequestsOK
<1>9. /\ \A g : OnDisk(g) => OnDisk(g)'
      /\ OnDisk(f)' /\ \A g : InRow(g)' <=> InRow(g)
    BY <1>1 DEF OnDisk, InRow
<1>10. NoUploadIsLost' /\ RowsAreApart'
  <2>1. NoUploadIsLost'
      BY <1>1, <1>9 DEF UpkeepInv, NoUploadIsLost, OnDisk
  <2> QED BY <1>1, <2>1 DEF UpkeepInv, RowsAreApart
<1>11. OldIsOwn'
  <2>1. /\ upkeepReq'[r].old = upkeepReq[r].old /\ upkeepReq'[r].post = upkeepReq[r].post
        /\ upkeepPc'[r] # "removeOld"
      BY <1>3, <1>7, <1>s
  <2>2. ASSUME NEW t \in Requests
        PROVE  /\ \A p \in ThreadPosts : upkeepReq'[t].old \in fileRows'[p] => p = upkeepReq'[t].post
               /\ upkeepPc'[t] = "removeOld" => ~InRow(upkeepReq'[t].old)
    <3>1. CASE t = r
        BY <1>1, <2>1, <3>1 DEF UpkeepInv, OldIsOwn
    <3>2. CASE t # r
        BY <1>1, <1>7, <3>2 DEF UpkeepInv, OldIsOwn, UpkeepOthersKept
    <3> QED BY <3>1, <3>2
  <2> QED BY <1>9, <2>2 DEF OldIsOwn
<1>12. \A s \in Requests : Received(s)' => s = r \/ (s # r /\ Received(s) /\ upkeepReq'[s] = upkeepReq[s])
    BY <1>7 DEF Received, UpkeepOthersKept
<1>13. NewIsThere'
    BY <1>2, <1>3, <1>7, <1>9, <1>12 DEF UpkeepInv, NewIsThere
<1>14. NewIsOwn'
  <2> SUFFICES ASSUME NEW t \in Requests, NEW s \in Requests, Received(s)'
               PROVE  /\ upkeepReq'[s].new # upkeepReq'[t].old
                      /\ upkeepReq'[t].new = upkeepReq'[s].new => t = s
      BY DEF NewIsOwn
  <2>1. /\ upkeepReq'[t].old = upkeepReq[t].old
        /\ t # r => upkeepReq'[t].new = upkeepReq[t].new
        /\ s # r => upkeepReq'[s].new = upkeepReq[s].new
        /\ upkeepReq'[r].new = f
      BY <1>3, <1>7 DEF UpkeepOthersKept
  <2> QED BY <1>2, <1>12, <2>1 DEF UpkeepInv, NewIsOwn
<1> QED BY <1>8, <1>10, <1>11, <1>13, <1>14 DEF UpkeepInv

\* A request that goes on with what it holds.
LEMMA UpkeepGoesOn ==
    ASSUME UpkeepInv, NEW r \in Requests, NEW step, step \in Replacing, upkeepPc[r] \in Replacing,
           UpkeepGoto(r, step), UNCHANGED upkeepReq
    PROVE  UpkeepRequestsOK' /\ UpkeepOthersKept(r) /\ upkeepPc'[r] = step
<1>1. UpkeepRequestsOK
    BY DEF UpkeepInv, UpkeepTypeOK, UpkeepRequestsOK
<1>2. UpkeepStepOK(step, upkeepReq[r])
    BY <1>1 DEF UpkeepRequestsOK, UpkeepKnows, UpkeepStepOK, Moving, Replacing
<1>3. upkeepReq' = [upkeepReq EXCEPT ![r] = upkeepReq[r]]
    BY <1>1 DEF UpkeepRequestsOK
<1> QED BY <1>1, <1>2, <1>3, UpkeepGotoOK

\* UnlinkUploads deletes the rows of the post: the old upload is in none afterwards.
LEMMA UnlinkUploadsInv ==
    ASSUME UpkeepInv, NEW r \in Requests, UnlinkUploads(r)
    PROVE  UpkeepInv'
<1> DEFINE q == upkeepReq[r]
<1>1. /\ upkeepPc[r] = "unlink" /\ UpkeepGoto(r, "removeOld")
      /\ UNCHANGED <<threadBoard, stored, threadPages, upkeepReq>>
      /\ fileRows' = [fileRows EXCEPT ![q.post] = {}]
    BY DEF UnlinkUploads
<1>2. /\ UpkeepRequestsOK' /\ UpkeepOthersKept(r) /\ upkeepPc'[r] = "removeOld"
    BY <1>1, UpkeepGoesOn DEF Replacing
<1>3. fileRows \in [ThreadPosts -> SUBSET UploadNames] /\ q.post \in ThreadPosts
    BY <1>1 DEF UpkeepInv, UpkeepTypeOK, UpkeepKnows, Replacing
<1>4. /\ fileRows' \in [ThreadPosts -> SUBSET UploadNames] /\ fileRows'[q.post] = {}
      /\ \A p \in ThreadPosts : fileRows'[p] \subseteq fileRows[p]
    BY <1>1, <1>3
<1>5. UpkeepTypeOK' /\ UpkeepKnows'
    BY <1>1, <1>2, <1>4 DEF UpkeepInv, UpkeepTypeOK, UpkeepRequestsOK
<1>6. (\A f : OnDisk(f)' <=> OnDisk(f)) /\ \A f : InRow(f)' => InRow(f)
    BY <1>1, <1>4 DEF OnDisk, InRow
<1>7. NoUploadIsLost'
    BY <1>1, <1>4 DEF UpkeepInv, NoUploadIsLost
<1>8. RowsAreApart'
    BY <1>4 DEF UpkeepInv, RowsAreApart
<1>9. OldIsOwn'
  <2>1. \A s \in Requests : \A p \in ThreadPosts : upkeepReq[s].old \in fileRows'[p] => p = upkeepReq[s].post
      BY <1>4 DEF UpkeepInv, OldIsOwn
  <2>2. ~InRow(q.old)'
      BY <1>1, <1>4, <2>1 DEF InRow
  <2>3. \A s \in Requests : upkeepPc'[s] = "removeOld" => ~InRow(upkeepReq[s].old)'
    <3> SUFFICES ASSUME NEW s \in Requests, upkeepPc'[s] = "removeOld"
                 PROVE  ~InRow(upkeepReq[s].old)'
        OBVIOUS
    <3>1. CASE s = r
        BY <2>2, <3>1
    <3>2. CASE s # r
        BY <1>1, <1>2, <1>4, <3>2 DEF UpkeepInv, OldIsOwn, UpkeepOthersKept, InRow
    <3> QED BY <3>1, <3>2
  <2> QED BY <1>1, <2>1, <2>3 DEF OldIsOwn
<1>10. \A s \in Requests : Received(s)' <=> Received(s)
    BY <1>1, <1>2 DEF Received, UpkeepOthersKept
<1>11. NewIsThere'
    BY <1>1, <1>6, <1>10 DEF UpkeepInv, NewIsThere
<1>12. NewIsOwn'
    BY <1>1, <1>10 DEF UpkeepInv, NewIsOwn
<1> QED BY <1>5, <1>7, <1>8, <1>9, <1>11, <1>12 DEF UpkeepInv

\* RemoveOldFile removes an upload that is in no row and that nobody received.
LEMMA RemoveOldFileInv ==
    ASSUME UpkeepInv, NEW r \in Requests, RemoveOldFile(r)
    PROVE  UpkeepInv'
<1> DEFINE q == upkeepReq[r]
<1>1. /\ upkeepPc[r] = "removeOld" /\ UpkeepGoto(r, "attach")
      /\ UNCHANGED <<threadBoard, fileRows, threadPages, upkeepReq>>
      /\ stored' = stored \ {<<q.board, q.old>>}
    BY DEF RemoveOldFile
<1>2. /\ UpkeepRequestsOK' /\ UpkeepOthersKept(r) /\ upkeepPc'[r] = "attach"
    BY <1>1, UpkeepGoesOn DEF Replacing
<1>3. stored' \subseteq BoardDirs \X UploadNames
    BY <1>1 DEF UpkeepInv, UpkeepTypeOK
<1>4. UpkeepTypeOK' /\ UpkeepKnows'
    BY <1>1, <1>2, <1>3 DEF UpkeepInv, UpkeepTypeOK, UpkeepRequestsOK
<1>5. (\A f : InRow(f)' <=> InRow(f)) /\ ~InRow(q.old)
    BY <1>1 DEF InRow, UpkeepInv, OldIsOwn
<1>6. \A f : OnDisk(f) /\ f # q.old => OnDisk(f)'
  <2> SUFFICES ASSUME NEW f, OnDisk(f), f # q.old
               PROVE  OnDisk(f)'
      OBVIOUS
  <2>1. PICK b \in BoardDirs : <<b, f>> \in stored
      BY DEF OnDisk
  <2>2. <<b, f>> \in stored'
      BY <1>1, <2>1
  <2> QED BY <2>2 DEF OnDisk
<1>7. NoUploadIsLost'
  <2> SUFFICES ASSUME NEW p \in ThreadPosts, NEW f \in fileRows[p]
               PROVE  OnDisk(f)'
      BY <1>1 DEF NoUploadIsLost, OnDisk
  <2>1. InRow(f) /\ OnDisk(f)
      BY DEF InRow, UpkeepInv, NoUploadIsLost, OnDisk
  <2> QED BY <1>5, <1>6, <2>1
<1>8. RowsAreApart'
    BY <1>1 DEF UpkeepInv, RowsAreApart
<1>9. OldIsOwn'
  <2>1. \A s \in Requests : upkeepPc'[s] = "removeOld" => upkeepPc[s] = "removeOld"
      BY <1>2 DEF UpkeepOthersKept
  <2> QED BY <1>1, <1>5, <2>1 DEF UpkeepInv, OldIsOwn
<1>10. \A s \in Requests : Received(s)' <=> Received(s)
    BY <1>1, <1>2 DEF Received, UpkeepOthersKept
<1>11. NewIsThere'
  <2>1. \A s \in Requests : Received(s) => upkeepReq[s].new # q.old
      BY DEF UpkeepInv, NewIsOwn
  <2> QED BY <1>1, <1>5, <1>6, <1>10, <2>1 DEF UpkeepInv, NewIsThere
<1>12. NewIsOwn'
    BY <1>1, <1>10 DEF UpkeepInv, NewIsOwn
<1> QED BY <1>4, <1>7, <1>8, <1>9, <1>11, <1>12 DEF UpkeepInv

\* AttachReplacement adds the row of an upload that is on disk, or removes one that is in no row.
LEMMA AttachReplacementInv ==
    ASSUME UpkeepInv, NEW r \in Requests, AttachReplacement(r)
    PROVE  UpkeepInv'
<1> DEFINE q == upkeepReq[r]
<1>1. upkeepPc[r] = "attach" /\ UpkeepDone(r) /\ UNCHANGED <<threadBoard, threadPages>>
    BY DEF AttachReplacement
<1>2. UpkeepRequestsOK' /\ UpkeepOthersKept(r) /\ upkeepPc'[r] = "idle" /\ upkeepReq'[r] = NoUpkeepLocals
  <2>1. UpkeepRequestsOK
      BY DEF UpkeepInv, UpkeepTypeOK, UpkeepRequestsOK
  <2> QED BY <1>1, <2>1, UpkeepDoneOK
<1>3. /\ fileRows \in [ThreadPosts -> SUBSET UploadNames] /\ stored \subseteq BoardDirs \X UploadNames
      /\ q.post \in ThreadPosts
    BY <1>1 DEF UpkeepInv, UpkeepTypeOK, UpkeepKnows, Replacing
<1>4. /\ q.new \in UploadNames /\ OnDisk(q.new) /\ ~InRow(q.new)
      /\ \A s \in Requests : /\ upkeepReq[s].old # q.new
                             /\ s # r => upkeepReq[s].new # q.new
    BY <1>1 DEF UpkeepInv, NewIsThere, NewIsOwn, Received
<1>5. \A s \in Requests : Received(s)' => s # r /\ Received(s) /\ upkeepReq'[s] = upkeepReq[s]
    BY <1>2 DEF Received, UpkeepOthersKept
<1>6. NewIsOwn'
  <2> SUFFICES ASSUME NEW t \in Requests, NEW s \in Requests, Received(s)'
               PROVE  /\ upkeepReq'[s].new # upkeepReq'[t].old
                      /\ upkeepReq'[t].new = upkeepReq'[s].new => t = s
      BY DEF NewIsOwn
  <2>1. s # r /\ Received(s) /\ upkeepReq'[s] = upkeepReq[s] /\ upkeepReq[s].new # ""
      BY <1>5, UpkeepAssumption DEF UpkeepInv, NewIsThere
  <2>2. CASE t = r
      BY <1>2, <2>1, <2>2, NoUpkeepLocalsType
  <2>3. CASE t # r
      BY <1>2, <2>1, <2>3 DEF UpkeepInv, NewIsOwn, UpkeepOthersKept
  <2> QED BY <2>2, <2>3
<1>7. CASE fileRows' = [fileRows EXCEPT ![q.post] = @ \cup {q.new}] /\ UNCHANGED stored
  <2>1. /\ fileRows' \in [ThreadPosts -> SUBSET UploadNames]
        /\ \A p \in ThreadPosts : \A f : f \in fileRows'[p] <=> f \in fileRows[p] \/ (p = q.post /\ f = q.new)
      BY <1>3, <1>4, <1>7
  <2>2. UpkeepTypeOK' /\ UpkeepKnows'
      BY <1>1, <1>2, <1>7, <2>1 DEF UpkeepInv, UpkeepTypeOK, UpkeepRequestsOK
  <2>3. (\A f : OnDisk(f)' <=> OnDisk(f)) /\ \A f : InRow(f)' => InRow(f) \/ f = q.new
      BY <1>7, <2>1 DEF OnDisk, InRow
  <2>4. NoUploadIsLost'
    <3> SUFFICES ASSUME NEW p \in ThreadPosts, NEW f \in fileRows'[p]
                 PROVE  OnDisk(f)'
        BY DEF NoUploadIsLost, OnDisk
    <3>1. OnDisk(f)
        BY <1>4, <2>1 DEF UpkeepInv, NoUploadIsLost, OnDisk
    <3> QED BY <2>3, <3>1
  <2>5. RowsAreApart'
      BY <1>4, <2>1 DEF UpkeepInv, RowsAreApart, InRow
  <2>6. OldIsOwn'
    <3> SUFFICES ASSUME NEW s \in Requests
                 PROVE  /\ \A p \in ThreadPosts : upkeepReq'[s].old \in fileRows'[p] => p = upkeepReq'[s].post
                        /\ upkeepPc'[s] = "removeOld" => ~InRow(upkeepReq[s].old)'
        BY DEF OldIsOwn
    <3>1. CASE s = r
      <4>1. "" \notin UploadNames
          BY UpkeepAssumption
      <4> QED BY <1>2, <2>1, <3>1, <4>1, NoUpkeepLocalsType
    <3>2. CASE s # r
      <4>1. upkeepReq'[s] = upkeepReq[s] /\ upkeepPc'[s] = upkeepPc[s]
          BY <1>2, <3>2 DEF UpkeepOthersKept
      <4> QED BY <1>4, <2>1, <2>3, <4>1 DEF UpkeepInv, OldIsOwn
    <3> QED BY <3>1, <3>2
  <2>7. NewIsThere'
      BY <1>4, <1>5, <2>3 DEF UpkeepInv, NewIsThere
  <2> QED BY <1>6, <2>2, <2>4, <2>5, <2>6, <2>7 DEF UpkeepInv
<1>8. CASE stored' = stored \ {<<q.board, q.new>>} /\ UNCHANGED fileRows
  <2>1. stored' \subseteq BoardDirs \X UploadNames
      BY <1>3, <1>8
  <2>2. UpkeepTypeOK' /\ UpkeepKnows'
      BY <1>1, <1>2, <1>8, <2>1 DEF UpkeepInv, UpkeepTypeOK, UpkeepRequestsOK
  <2>3. \A f : InRow(f)' <=> InRow(f)
      BY <1>8 DEF InRow
  <2>4. \A f : OnDisk(f) /\ f # q.new => OnDisk(f)'
    <3> SUFFICES ASSUME NEW f, OnDisk(f), f # q.new
                 PROVE  OnDisk(f)'
        OBVIOUS
    <3>1. PICK b \in BoardDirs : <<b, f>> \in stored
        BY DEF OnDisk
    <3>2. <<b, f>> \in stored'
        BY <1>8, <3>1
    <3> QED BY <3>2 DEF OnDisk
  <2>5. NoUploadIsLost'
    <3> SUFFICES ASSUME NEW p \in ThreadPosts, NEW f \in fileRows[p]
                 PROVE  OnDisk(f)'
        BY <1>8 DEF NoUploadIsLost, OnDisk
    <3>1. InRow(f) /\ OnDisk(f)
        BY DEF InRow, UpkeepInv, NoUploadIsLost, OnDisk
    <3> QED BY <1>4, <2>4, <3>1
  <2>6. RowsAreApart'
      BY <1>8 DEF UpkeepInv, RowsAreApart
  <2>7. OldIsOwn'
    <3> SUFFICES ASSUME NEW s \in Requests
                 PROVE  /\ \A p \in ThreadPosts : upkeepReq'[s].old \in fileRows'[p] => p = upkeepReq'[s].post
                        /\ upkeepPc'[s] = "removeOld" => ~InRow(upkeepReq[s].old)'
        BY DEF OldIsOwn
    <3>1. CASE s = r
      <4>1. "" \notin UploadNames
          BY UpkeepAssumption
      <4> QED BY <1>2, <1>3, <1>8, <3>1, <4>1, NoUpkeepLocalsType
    <3>2. CASE s # r
      <4>1. upkeepReq'[s] = upkeepReq[s] /\ upkeepPc'[s] = upkeepPc[s]
          BY <1>2, <3>2 DEF UpkeepOthersKept
      <4> QED BY <1>8, <2>3, <4>1 DEF UpkeepInv, OldIsOwn
    <3> QED BY <3>1, <3>2
  <2>8. NewIsThere'
      BY <1>4, <1>5, <2>3, <2>4 DEF UpkeepInv, NewIsThere
  <2> QED BY <1>6, <2>2, <2>5, <2>6, <2>7, <2>8 DEF UpkeepInv
<1> QED BY <1>7, <1>8 DEF AttachReplacement

\* UpkeepInv is inductive.
LEMMA UpkeepInvInductive == UpkeepInv /\ [UpkeepNext]_upkeepVars => UpkeepInv'
<1> SUFFICES ASSUME UpkeepInv, [UpkeepNext]_upkeepVars
             PROVE  UpkeepInv'
    OBVIOUS
<1>t. /\ threadBoard \in BoardDirs /\ threadPages \subseteq BoardDirs /\ upkeepReq \in [Requests -> UpkeepLocals]
      /\ fileRows \in [ThreadPosts -> SUBSET UploadNames]
    BY DEF UpkeepInv, UpkeepTypeOK
<1>k. \A r \in Requests : upkeepPc[r] \in Moving => upkeepReq[r].board \in BoardDirs /\ upkeepReq[r].dest \in BoardDirs
    BY DEF UpkeepInv, UpkeepKnows
<1>l. ASSUME NEW r \in Requests
      PROVE  upkeepReq[r] \in UpkeepLocals /\ upkeepReq = [upkeepReq EXCEPT ![r] = upkeepReq[r]]
    BY <1>t
<1>m. ASSUME NEW r \in Requests, upkeepPc[r] \in Moving, NEW step \in Moving, UpkeepGoto(r, step),
             upkeepReq' = upkeepReq, threadBoard' \in BoardDirs, threadPages' \subseteq BoardDirs,
             UNCHANGED <<fileRows, stored>>
      PROVE  UpkeepInv'
  <2> DEFINE locals == upkeepReq[r]
  <2>1. UpkeepStepOK(step, locals) /\ upkeepReq' = [upkeepReq EXCEPT ![r] = locals]
      BY <1>k, <1>l, <1>m DEF UpkeepStepOK, Moving, Replacing
  <2>2. step \notin {"unlink", "removeOld", "attach"}
      BY DEF Moving
  <2>3. /\ locals.old = upkeepReq[r].old /\ locals.post = upkeepReq[r].post
        /\ locals.new \in {"", upkeepReq[r].new}
      OBVIOUS
  <2> HIDE DEF locals
  <2> QED BY <1>m, <2>1, <2>2, <2>3, DatabaseOnlyUpkeepInv
<1>1. ASSUME NEW r \in Requests, NEW src \in BoardDirs, NEW dest \in BoardDirs, StartMove(r, src, dest)
      PROVE  UpkeepInv'
  <2> DEFINE locals == [NoUpkeepLocals EXCEPT !.board = src, !.dest = dest]
  <2>1. /\ UpkeepGoto(r, "change") /\ upkeepReq' = [upkeepReq EXCEPT ![r] = locals]
        /\ UNCHANGED <<threadBoard, fileRows, stored, threadPages>>
      BY <1>1 DEF StartMove, FilesUnchanged
  <2>2. locals \in UpkeepLocals /\ locals.old = "" /\ locals.new = "" /\ locals.board = src /\ locals.dest = dest
      BY NoUpkeepLocalsType DEF UpkeepLocals
  <2> HIDE DEF locals
  <2>3. UpkeepStepOK("change", locals)
      BY <2>2 DEF UpkeepStepOK, Moving, Replacing
  <2> QED BY <1>t, <2>1, <2>2, <2>3, DatabaseOnlyUpkeepInv
<1>2. ASSUME NEW r \in Requests, ChangeBoardID(r)
      PROVE  UpkeepInv'
  <2>1. /\ upkeepPc[r] \in Moving /\ "files" \in Moving /\ UpkeepGoto(r, "files")
        /\ upkeepReq' = upkeepReq /\ UNCHANGED <<fileRows, stored, threadPages>>
        /\ threadBoard' = upkeepReq[r].dest
      BY <1>2 DEF ChangeBoardID, Moving
  <2> QED BY <1>k, <1>m, <1>t, <2>1
<1>3. ASSUME NEW r \in Requests, GetThreadFiles(r)
      PROVE  UpkeepInv'
  <2> DEFINE q == upkeepReq[r]
             names == UNION {fileRows[p] : p \in ThreadPosts}
             locals == [q EXCEPT !.todo = names]
  <2>1. /\ upkeepPc[r] = "files" /\ UpkeepGoto(r, "moveFiles")
        /\ upkeepReq' = [upkeepReq EXCEPT ![r].todo = names]
        /\ UNCHANGED <<threadBoard, fileRows, stored, threadPages>>
      BY <1>3 DEF GetThreadFiles, FilesUnchanged
  <2>2. names \in SUBSET UploadNames
      BY <1>t
  <2>3. upkeepReq' = [upkeepReq EXCEPT ![r] = locals]
      BY <1>t, <2>1
  <2>4. q \in UpkeepLocals /\ q.board \in BoardDirs /\ q.dest \in BoardDirs
      BY <1>t, <1>k, <2>1 DEF Moving
  <2> HIDE DEF names, q
  <2>5. /\ locals \in UpkeepLocals /\ locals.old = q.old /\ locals.new = q.new /\ locals.post = q.post
        /\ locals.board = q.board /\ locals.dest = q.dest
      BY <2>2, <2>4 DEF UpkeepLocals
  <2> HIDE DEF locals
  <2>6. UpkeepStepOK("moveFiles", locals)
      BY <2>4, <2>5 DEF UpkeepStepOK, Moving, Replacing
  <2> QED BY <1>t, <2>1, <2>3, <2>5, <2>6, DatabaseOnlyUpkeepInv DEF q
<1>4. ASSUME NEW r \in Requests, FilesMoved(r)
      PROVE  UpkeepInv'
  <2>1. /\ upkeepPc[r] \in Moving /\ "removePage" \in Moving
        /\ UNCHANGED <<threadBoard, fileRows, stored, threadPages>>
      BY <1>4 DEF FilesMoved, FilesUnchanged, Moving
  <2>2. CASE UpkeepDone(r)
      BY <1>t, <2>1, <2>2, ReturnedUpkeepInv
  <2>3. CASE UpkeepGoto(r, "removePage") /\ UNCHANGED upkeepReq
      BY <1>m, <1>t, <2>1, <2>3
  <2> QED BY <1>4, <2>2, <2>3 DEF FilesMoved
<1>5. ASSUME NEW r \in Requests, RemoveOldPage(r)
      PROVE  UpkeepInv'
  <2>1. /\ upkeepPc[r] \in Moving /\ "build" \in Moving
        /\ UNCHANGED <<threadBoard, fileRows, stored>> /\ threadPages' \subseteq BoardDirs
      BY <1>5, <1>t DEF RemoveOldPage, Moving
  <2>2. CASE UpkeepDone(r)
      BY <1>t, <2>1, <2>2, ReturnedUpkeepInv
  <2>3. CASE UpkeepGoto(r, "build") /\ UNCHANGED upkeepReq
      BY <1>m, <1>t, <2>1, <2>3
  <2> QED BY <1>5, <2>2, <2>3 DEF RemoveOldPage
<1>6. ASSUME NEW r \in Requests, BuildMovedThread(r) \/ UpkeepQueryFails(r)
      PROVE  UpkeepInv'
  <2>1. UpkeepDone(r) /\ UNCHANGED <<threadBoard, fileRows, stored>> /\ threadPages' \subseteq BoardDirs
      BY <1>6, <1>t DEF BuildMovedThread, UpkeepQueryFails, FilesUnchanged
  <2> QED BY <1>t, <2>1, ReturnedUpkeepInv
<1>7. ASSUME NEW r \in Requests, NEW p \in ThreadPosts, NEW b \in BoardDirs, StartReplacing(r, p, b)
      PROVE  UpkeepInv'
  <2>1. UpkeepGoto(r, "receive") /\ UNCHANGED <<threadBoard, fileRows, stored, threadPages>>
      BY <1>7 DEF StartReplacing, FilesUnchanged
  <2>2. CASE upkeepReq' = [upkeepReq EXCEPT ![r] = [NoUpkeepLocals EXCEPT !.board = b, !.post = p]]
    <3> DEFINE locals == [NoUpkeepLocals EXCEPT !.board = b, !.post = p]
    <3>1. locals \in UpkeepLocals /\ locals.old = "" /\ locals.new = "" /\ locals.board = b /\ locals.post = p
        BY NoUpkeepLocalsType DEF UpkeepLocals
    <3> HIDE DEF locals
    <3>2. UpkeepStepOK("receive", locals)
        BY <3>1 DEF UpkeepStepOK, Moving, Replacing
    <3>3. upkeepReq' = [upkeepReq EXCEPT ![r] = locals]
        BY <2>2 DEF locals
    <3> QED BY <1>t, <2>1, <3>1, <3>2, <3>3, DatabaseOnlyUpkeepInv
  <2>3. CASE \E old \in fileRows[p] :
                upkeepReq' = [upkeepReq EXCEPT ![r] =
                   [NoUpkeepLocals EXCEPT !.board = b, !.post = p, !.old = old]]
    <3>1. PICK old \in fileRows[p] :
                upkeepReq' = [upkeepReq EXCEPT ![r] =
                   [NoUpkeepLocals EXCEPT !.board = b, !.post = p, !.old = old]]
        BY <2>3
    <3> DEFINE locals == [NoUpkeepLocals EXCEPT !.board = b, !.post = p, !.old = old]
    <3>2. old \in UploadNames
        BY <1>t, <3>1
    <3>3. locals \in UpkeepLocals /\ locals.old = old /\ locals.new = "" /\ locals.board = b /\ locals.post = p
        BY <3>2, NoUpkeepLocalsType DEF UpkeepLocals
    <3>4. upkeepReq' = [upkeepReq EXCEPT ![r] = locals]
        BY <3>1
    <3> HIDE DEF locals
    <3>5. UpkeepStepOK("receive", locals)
        BY <3>3 DEF UpkeepStepOK, Moving, Replacing
    <3> QED BY <1>t, <2>1, <3>3, <3>4, <3>5, DatabaseOnlyUpkeepInv
  <2> QED BY <1>7, <2>2, <2>3 DEF StartReplacing
<1>8. CASE UpkeepCrash
  <2>1. /\ UNCHANGED <<threadBoard, fileRows, stored, threadPages>>
        /\ upkeepPc' = [r \in Requests |-> "idle"] /\ upkeepReq' = [r \in Requests |-> NoUpkeepLocals]
      BY <1>8 DEF UpkeepCrash, FilesUnchanged
  <2>2. UpkeepTypeOK'
      BY <2>1, NoUpkeepLocalsType DEF UpkeepInv, UpkeepTypeOK
  <2>3. UpkeepKnows' /\ NewIsThere' /\ NewIsOwn'
      BY <2>1 DEF UpkeepKnows, NewIsThere, NewIsOwn, Received, Moving, Replacing
  <2>4. "" \notin UploadNames
      BY UpkeepAssumption
  <2>5. OldIsOwn'
      BY <1>t, <2>1, <2>4, NoUpkeepLocalsType DEF OldIsOwn
  <2>6. NoUploadIsLost' /\ RowsAreApart'
      BY <2>1 DEF UpkeepInv, NoUploadIsLost, RowsAreApart
  <2> QED BY <2>2, <2>3, <2>5, <2>6 DEF UpkeepInv
<1>9. CASE UNCHANGED upkeepVars
    BY <1>9 DEF upkeepVars, UpkeepInv, UpkeepTypeOK, UpkeepKnows, NoUploadIsLost, RowsAreApart, OldIsOwn,
                NewIsThere, NewIsOwn, Received, InRow, OnDisk
<1> QED BY <1>1, <1>2, <1>3, <1>4, <1>5, <1>6, <1>7, <1>8, <1>9, MoveFileInv, ReceiveReplacementInv,
           UnlinkUploadsInv, RemoveOldFileInv, AttachReplacementInv DEF UpkeepNext

\* UpkeepInv holds at the start: every post has its first upload, on the board of the thread.
LEMMA UpkeepInvInit == UpkeepInit => UpkeepInv
<1> SUFFICES ASSUME UpkeepInit
             PROVE  UpkeepInv
    OBVIOUS
<1>1. /\ threadBoard \in BoardDirs /\ stored = {threadBoard} \X (UploadNames \ NewFiles)
      /\ threadPages = {threadBoard}
      /\ fileRows = [p \in ThreadPosts |-> IF p \in DOMAIN FirstFiles THEN {FirstFiles[p]} ELSE {}]
      /\ upkeepPc = [r \in Requests |-> "idle"] /\ upkeepReq = [r \in Requests |-> NoUpkeepLocals]
    BY DEF UpkeepInit
<1>2. \A p \in ThreadPosts : \A f \in fileRows[p] : p \in DOMAIN FirstFiles /\ f = FirstFiles[p]
    BY <1>1
<1>3. \A p \in DOMAIN FirstFiles : FirstFiles[p] \in UploadNames \ NewFiles
    BY UpkeepAssumption DEF UploadNames
<1>4. fileRows \in [ThreadPosts -> SUBSET UploadNames]
    BY <1>1, <1>3
<1>5. UpkeepTypeOK
    BY <1>1, <1>4, NoUpkeepLocalsType DEF UpkeepTypeOK
<1>6. NoUploadIsLost
    BY <1>1, <1>2, <1>3 DEF NoUploadIsLost
<1>7. RowsAreApart
    BY <1>2, UpkeepAssumption DEF RowsAreApart
<1>8. UpkeepKnows /\ NewIsThere /\ NewIsOwn
    BY <1>1 DEF UpkeepKnows, NewIsThere, NewIsOwn, Received, Moving, Replacing
<1>9. OldIsOwn
  <2>1. "" \notin UploadNames
      BY UpkeepAssumption
  <2> QED BY <1>1, <1>4, <2>1, NoUpkeepLocalsType DEF OldIsOwn
<1> QED BY <1>5, <1>6, <1>7, <1>8, <1>9 DEF UpkeepInv

\* The tables, the uploads on disk and what the requests hold keep their types.
THEOREM UpkeepTypeCorrect == UpkeepSpec => []UpkeepTypeOK
<1>1. UpkeepInv => UpkeepTypeOK
    BY DEF UpkeepInv
<1> QED BY <1>1, UpkeepInvInit, UpkeepInvInductive, PTL DEF UpkeepSpec

\* The upload of every row in the files table is on disk, on one board or another, whatever moves
\* (manage.moveThread), replacements (main.editPost), failures and crashes overlap.
THEOREM NoUploadIsLostCorrect == UpkeepSpec => []NoUploadIsLost
<1>1. UpkeepInv => NoUploadIsLost
    BY DEF UpkeepInv
<1> QED BY <1>1, UpkeepInvInit, UpkeepInvInductive, PTL DEF UpkeepSpec

(* The components side by side, as TLC explores them. *)

\* A behaviour of the instance is a behaviour of each component, of the staff pages, the reports, the
\* edits and the moved threads alike: what is proved of one holds of the instance.
THEOREM ComponentsOfStaffAndReports == Spec => StaffSpec /\ ReportsSpec /\ EditSpec /\ UpkeepSpec
<1>1. Init => StaffInit /\ ReportsInit /\ EditInit /\ UpkeepInit
    BY DEF Init
<1>2. [Next]_vars => /\ [StaffNext]_staffVars /\ [ReportsNext]_reportVars
                     /\ [EditNext]_editVars /\ [UpkeepNext]_upkeepVars
    BY DEF Next, vars
<1> QED BY <1>1, <1>2, PTL DEF Spec, StaffSpec, ReportsSpec, EditSpec, UpkeepSpec

\* The tables, the uploads on disk and what the requests hold keep their types in all four.
THEOREM StaffAndReportsTypesCorrect == Spec => []TypesOK
<1>1. StaffTypeOK /\ ReportsTypeOK /\ EditTypeOK /\ UpkeepTypeOK => TypesOK
    BY DEF TypesOK
<1> QED BY <1>1, ComponentsOfStaffAndReports, StaffTypeCorrect, ReportsTypeCorrect, EditTypeCorrect,
           UpkeepTypeCorrect, PTL

===============================================================================
