---------------------------- MODULE StaffSessions -----------------------------
(***************************************************************************)
(* Staff accounts and login sessions: the login page, the check every page  *)
(* below /manage starts with, and the pages that end sessions or change     *)
(* accounts; the newstaff and delstaff commands.  A password is what it is  *)
(* compared with, a session key is a fresh random string.                   *)
(***************************************************************************)
EXTENDS Handlers

CONSTANTS
    Usernames,
    InitialRank,    \* the accounts that exist at the start and their ranks
    NewRanks,       \* the ranks accounts are given
    SessionKeys     \* bound: keys ever generated

ASSUME InitialRankAssumption ==
    /\ DOMAIN InitialRank \subseteq Usernames
    /\ \A u \in DOMAIN InitialRank : InitialRank[u] \in 1..3
    /\ NewRanks \subseteq 0..3
ASSUME NamesAssumption == "" \notin SessionKeys /\ Usernames \cap {"", "console", "unused", "ended"} = {}

NoPerms == 0
JanitorPerms == 1
AdminPerms == 3

Passwords == {"first", "second"}

VARIABLES
    accounts,   \* accounts[u]: row of the staff table
    sessions,   \* sessions[k]: owner of the row of the sessions table with data = k
    staffPc,    \* staffPc[r]: the next step of request r
    staffReq,   \* staffReq[r]: who makes the request, with which rank, and for whom
    late,       \* history: sessions inserted after their account was deactivated
    uncleared   \* history: accounts deactivated by a request that failed to end the sessions

staffVars == <<accounts, sessions, staffPc, staffReq, late, uncleared>>

Account == [state: {"none", "active", "inactive"}, rank: NoPerms..AdminPerms, password: Passwords]
StaffLocals == [as: Usernames \cup {"", "console"}, rank: NoPerms..AdminPerms,
                cookie: SessionKeys \cup {""}, do: {"", "add", "changepass", "changerank", "del"},
                named: Usernames \cup {""}, target: Usernames \cup {""}, newRank: NoPerms..AdminPerms]
NoStaffLocals == [as |-> "", rank |-> NoPerms, cookie |-> "", do |-> "", named |-> "", target |-> "",
                  newRank |-> NoPerms]
StaffSteps == {"idle", "login", "logout", "endMine", "lookup",
               "add", "insert", "changepass", "changerank", "del", "deactivate", "clear"}

StaffTypeOK ==
    /\ accounts \in [Usernames -> Account]
    /\ sessions \in [SessionKeys -> Usernames \cup {"unused", "ended"}]
    /\ staffPc \in [Requests -> StaffSteps]
    /\ staffReq \in [Requests -> StaffLocals]
    /\ late \subseteq SessionKeys
    /\ uncleared \subseteq Usernames

StaffInit ==
    /\ accounts = [u \in Usernames |->
          IF u \in DOMAIN InitialRank
          THEN [state |-> "active", rank |-> InitialRank[u], password |-> "first"]
          ELSE [state |-> "none", rank |-> NoPerms, password |-> "first"]]
    /\ sessions = [k \in SessionKeys |-> "unused"]
    /\ staffPc = [r \in Requests |-> "idle"]
    /\ staffReq = [r \in Requests |-> NoStaffLocals]
    /\ late = {}
    /\ uncleared = {}

-----------------------------------------------------------------------------
SessionsOf(u) == {k \in SessionKeys : sessions[k] = u}
StaffGoto(r, step) == staffPc' = [staffPc EXCEPT ![r] = step]
StaffDone(r) ==
    /\ StaffGoto(r, "idle")
    /\ staffReq' = [staffReq EXCEPT ![r] = NoStaffLocals]

\* DELETE FROM sessions WHERE staff_id = ?
WithoutSessionsOf(u) == [k \in SessionKeys |-> IF sessions[k] = u THEN "ended" ELSE sessions[k]]

\* GetStaffByUsername(u, TRUE)
ActiveAccount(u) == accounts[u].state = "active"

\* GetStaffBySession: neither is_active nor expires is part of the query.
StaffBySession(k) ==
    IF sessions[k] \in Usernames
    THEN [NoStaffLocals EXCEPT !.as = sessions[k], !.rank = accounts[sessions[k]].rank, !.cookie = k]
    ELSE NoStaffLocals

-----------------------------------------------------------------------------
(* The login page. *)

\* loginCallback, createSession: the account is read and its checksum compared...
CheckCredentials(r, u, password) ==
    /\ staffPc[r] = "idle"
    /\ ActiveAccount(u)
    /\ accounts[u].password = password
    /\ StaffGoto(r, "login")
    /\ staffReq' = [staffReq EXCEPT ![r] = [NoStaffLocals EXCEPT !.as = u, !.rank = accounts[u].rank]]
    /\ UNCHANGED <<accounts, sessions, late, uncleared>>

\* ... and the session inserted by a transaction of its own.
CreateLoginSession(r, k) ==
    /\ staffPc[r] = "login"
    /\ sessions[k] = "unused"
    /\ sessions' = [sessions EXCEPT ![k] = staffReq[r].as]
    /\ late' = IF accounts[staffReq[r].as].state = "active" THEN late ELSE late \cup {k}
    /\ StaffDone(r)
    /\ UNCHANGED <<accounts, uncleared>>

-----------------------------------------------------------------------------
(* The pages.  setupManageFunction reads the staff of the session once; the   *)
(* callback uses that rank and name to the end of the request.                *)

MayOpen(staff, permissions) == staff.as # "" /\ staff.rank >= permissions

OpenPage(r, k, page) ==
    /\ staffPc[r] = "idle"
    /\ MayOpen(StaffBySession(k), JanitorPerms)
    /\ StaffGoto(r, page)
    /\ staffReq' = [staffReq EXCEPT ![r] = StaffBySession(k)]
    /\ UNCHANGED <<accounts, sessions, late, uncleared>>

\* logoutCallback, EndStaffSession: the row of the request's own cookie.
LogOut(r) ==
    /\ staffPc[r] = "logout"
    /\ sessions' = [sessions EXCEPT ![staffReq[r].cookie] = "ended"]
    /\ StaffDone(r)
    /\ UNCHANGED <<accounts, late, uncleared>>

\* clearMySessionsCallback: the session must still be there when it is looked up again.
ClearMySessions(r) ==
    /\ staffPc[r] = "endMine"
    /\ sessions' = IF sessions[staffReq[r].cookie] \in Usernames THEN WithoutSessionsOf(staffReq[r].as) ELSE sessions
    /\ StaffDone(r)
    /\ UNCHANGED <<accounts, late, uncleared>>

\* staffForm.validate: what is done, to the account of which field, and whether the staff may.
\* changepass and changerank are the accounts the query string names, username the form's.
StaffForm == [do: {"add", "changepass", "changerank", "del"}, username: Usernames,
              changepass: Usernames \cup {""}, changerank: Usernames \cup {""}]

FormValid_AnyPassword(form, staff) ==
    /\ form.do \in {"add", "changerank", "del"} => staff.rank >= AdminPerms
    /\ IF form.changepass = "" /\ form.changerank # "" THEN staff.rank >= AdminPerms ELSE TRUE
FormValid(form, staff) ==
    /\ form.do = "add" \/ (form.do = "changepass" /\ form.username # staff.as)
          \/ form.do = "changerank" \/ form.do = "del" => staff.rank >= AdminPerms
    /\ IF form.changepass # "" THEN form.changepass = staff.as \/ staff.rank >= AdminPerms
       ELSE form.changerank # "" => staff.rank >= AdminPerms

\* The account of a change-password or change-rank form is read first and must be active, also if
\* the form then adds an account.
FormNames(form) == IF form.changepass # "" THEN form.changepass ELSE form.changerank
NeedsLookup(form) == FormNames(form) # ""

\* staffCallback: the account the form is about.
FormTarget(form) == IF form.do # "add" /\ NeedsLookup(form) THEN FormNames(form) ELSE form.username

SubmitStaffForm(r, k, form, newRank) ==
    LET staff == StaffBySession(k) IN
    /\ staffPc[r] = "idle"
    /\ MayOpen(staff, JanitorPerms)
    /\ FormValid(form, staff)
    /\ StaffGoto(r, IF NeedsLookup(form) THEN "lookup" ELSE form.do)
    /\ staffReq' = [staffReq EXCEPT ![r] =
          [staff EXCEPT !.named = FormNames(form), !.target = FormTarget(form), !.cookie = "",
                        !.newRank = IF form.do \in {"add", "changerank"} THEN newRank ELSE NoPerms,
                        !.do = IF NeedsLookup(form) THEN form.do ELSE ""]]
    /\ UNCHANGED <<accounts, sessions, late, uncleared>>

\* GetStaffByUsername(form.ChangePasswordForUser, true)
LookUpAccount(r) ==
    /\ staffPc[r] = "lookup"
    /\ IF ActiveAccount(staffReq[r].named)
       THEN StaffGoto(r, staffReq[r].do) /\ UNCHANGED staffReq
       ELSE StaffDone(r)
    /\ UNCHANGED <<accounts, sessions, late, uncleared>>

\* NewStaff: the name is counted, then inserted; the table has a UNIQUE constraint on it.
CountUsername(r) ==
    /\ staffPc[r] = "add"
    /\ IF accounts[staffReq[r].target].state = "none"
       THEN StaffGoto(r, "insert") /\ UNCHANGED staffReq
       ELSE StaffDone(r)
    /\ UNCHANGED <<accounts, sessions, late, uncleared>>

InsertAccount(r) ==
    LET u == staffReq[r].target IN
    /\ staffPc[r] = "insert"
    /\ accounts' = IF accounts[u].state = "none"
                   THEN [accounts EXCEPT ![u].state = "active", ![u].rank = staffReq[r].newRank]
                   ELSE accounts
    /\ StaffDone(r)
    /\ UNCHANGED <<sessions, late, uncleared>>

\* UpdatePassword: the sessions of the account stay.
UpdatePassword(r) ==
    /\ staffPc[r] = "changepass"
    /\ accounts' = IF accounts[staffReq[r].target].state = "none" THEN accounts
                   ELSE [accounts EXCEPT ![staffReq[r].target].password = "second"]
    /\ StaffDone(r)
    /\ UNCHANGED <<sessions, late, uncleared>>

UpdateRank(r) ==
    /\ staffPc[r] = "changerank"
    /\ accounts' = IF accounts[staffReq[r].target].state = "none" THEN accounts
                   ELSE [accounts EXCEPT ![staffReq[r].target].rank = staffReq[r].newRank]
    /\ StaffDone(r)
    /\ UNCHANGED <<sessions, late, uncleared>>

\* "del": ClearSessions, which fails for a name without an account...
ClearSessions(r) ==
    LET u == staffReq[r].target IN
    /\ staffPc[r] = "del"
    /\ IF accounts[u].state = "none"
       THEN StaffDone(r) /\ UNCHANGED sessions
       ELSE /\ sessions' = WithoutSessionsOf(u)
            /\ StaffGoto(r, "deactivate")
            /\ UNCHANGED staffReq
    /\ UNCHANGED <<accounts, late, uncleared>>

\* ... then SetActive(false): is_active, and the sessions once more.
SetActive(r) ==
    LET u == staffReq[r].target IN
    /\ staffPc[r] = "deactivate"
    /\ accounts' = IF accounts[u].state = "none" THEN accounts ELSE [accounts EXCEPT ![u].state = "inactive"]
    /\ StaffGoto(r, "clear")
    /\ UNCHANGED <<sessions, staffReq, late, uncleared>>

ClearSessionsAgain_Skipped(r) ==
    /\ staffPc[r] = "clear"
    /\ StaffDone(r)
    /\ UNCHANGED <<accounts, sessions, late, uncleared>>
ClearSessionsAgain(r) ==
    /\ staffPc[r] = "clear"
    /\ sessions' = WithoutSessionsOf(staffReq[r].target)
    /\ uncleared' = uncleared \ {staffReq[r].target}
    /\ StaffDone(r)
    /\ UNCHANGED <<accounts, late>>

\* gochan newstaff, gochan delstaff: a second process on the same database.
CommandLine(r, u, newRank) ==
    /\ staffPc[r] = "idle"
    /\ \E do \in {"add", "deactivate"} :
          /\ StaffGoto(r, do)
          /\ staffReq' = [staffReq EXCEPT ![r] =
                [NoStaffLocals EXCEPT !.as = "console", !.rank = AdminPerms, !.target = u,
                                      !.newRank = IF do = "add" THEN newRank ELSE NoPerms]]
    /\ UNCHANGED <<accounts, sessions, late, uncleared>>

\* A query fails: the handler answers with the error, what it did so far stays.
StaffQueryFails(r) ==
    /\ MayFail
    /\ staffPc[r] # "idle"
    /\ uncleared' = IF staffPc[r] = "clear" THEN uncleared \cup {staffReq[r].target} ELSE uncleared
    /\ StaffDone(r)
    /\ UNCHANGED <<accounts, sessions, late>>

StaffStep(r) ==
    \/ \E k \in SessionKeys : CreateLoginSession(r, k)
    \/ LogOut(r) \/ ClearMySessions(r)
    \/ LookUpAccount(r) \/ CountUsername(r) \/ InsertAccount(r)
    \/ UpdatePassword(r) \/ UpdateRank(r)
    \/ ClearSessions(r) \/ SetActive(r) \/ ClearSessionsAgain(r)
    \/ StaffQueryFails(r)

StaffRequest(r) ==
    \/ \E u \in Usernames, p \in Passwords : CheckCredentials(r, u, p)
    \/ \E k \in SessionKeys, page \in {"logout", "endMine"} : OpenPage(r, k, page)
    \/ \E k \in SessionKeys, form \in StaffForm, rank \in NewRanks :
          SubmitStaffForm(r, k, form, rank)
    \/ \E u \in Usernames, rank \in NewRanks : CommandLine(r, u, rank)

StaffNext == \E r \in Requests : StaffRequest(r) \/ StaffStep(r)

StaffSpec == StaffInit /\ [][StaffNext]_staffVars

-----------------------------------------------------------------------------
\* An account is changed only for a request whose staff was an administrator when it was
\* authenticated, except that everybody may change the own password: the three fields of the
\* form that name an account cannot be combined to reach somebody else's.
OnlyAdminsChangeOthers ==
    [][\A u \in Usernames : accounts'[u] # accounts[u] =>
          \E r \in Requests : /\ staffPc[r] # "idle" /\ staffReq[r].target = u
                              /\ \/ staffReq[r].rank = AdminPerms
                                 \/ /\ staffReq[r].as = u
                                    /\ accounts'[u] = [accounts[u] EXCEPT !.password = "second"]]_staffVars

\* Deactivating an account ends its sessions: one that is left was inserted by a login that had
\* checked the password before, or the request that deactivated the account has not ended them.
SessionsEndWithTheAccount ==
    \A k \in SessionKeys, u \in Usernames :
       sessions[k] = u /\ accounts[u].state = "inactive" =>
          \/ k \in late
          \/ u \in uncleared
          \/ \E r \in Requests : staffPc[r] = "clear" /\ staffReq[r].target = u

\* A deactivated account has no login session once no request is being served.
DeactivatedStaffHasNoSession ==
    (\A r \in Requests : staffPc[r] = "idle") =>
       \A u \in Usernames : accounts[u].state = "inactive" => SessionsOf(u) = {}
===============================================================================
