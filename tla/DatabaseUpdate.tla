---------------------------- MODULE DatabaseUpdate ----------------------------
(***************************************************************************)
(* The database at the start of the process: a new one is filled from       *)
(* initdb_*.sql, an older one is updated statement by statement, the        *)
(* version last.  A statement that fails ends the process, and the operator *)
(* starts it again; nothing undoes the statements before it.                *)
(***************************************************************************)
EXTENDS Handlers, Sequences

CONSTANTS
    SQLDrivers,     \* the drivers the instance looks at
    OldBans,        \* rows of ip_ban in an old database
    LegacyTables,   \* the filter tables of old databases that hold rows
    MaxStarts       \* bound: starts of the process

ASSUME UpdateAssumption ==
    /\ SQLDrivers \subseteq {"mysql", "postgres", "sqlite3"}
    /\ LegacyTables \subseteq {"file_ban", "filename_ban", "username_ban", "wordfilters"}
    /\ IsFiniteSet(OldBans)
    /\ MaxStarts \in Nat \ {0}

FilterTables == <<"filters", "filter_boards", "filter_conditions", "filter_hits">>
LegacyOrder == <<"file_ban", "filename_ban", "username_ban", "wordfilters">>

VARIABLES
    driver,
    foundOld,       \* was the database made by an older release?
    db,             \* the layout of the database, as far as the update looks at it
    migrated,       \* migrated[t]: how often the rows of legacy table t were made into filters
    startPc,        \* the next step of the process
    startReq,       \* which block, which statement of it, which rows of its loop
    starts,         \* how often the process was started
    interrupted     \* history: a start was cut short or one of its statements failed

updateVars == <<driver, foundOld, db, migrated, startPc, startReq, starts, interrupted>>

\* A layout says which columns there are and what is in them.  A table is "rebuilt" when sqlite3's
\* update drops it and makes it from a temporary copy: CREATE TABLE ... AS SELECT has no primary key,
\* foreign keys, defaults or types, and with PRAGMA foreign_keys = ON the drop deletes the rows that
\* refer to the table's (files and reports to posts, audits and appeals to ip_ban, reports_audit to
\* reports).  What becomes of the column ip of posts and reports: "renamed" to ip_str, "added" anew without
\* values, "copied" into, and "binary" once ip_str is dropped; "gone" is a table that was dropped.
Conversions == {"string", "renamed", "added", "copied", "binary", "gone"}
Rebuildable == {"ip_ban", "posts", "reports"}
PostColumns == {"flag", "country", "is_secure_tripcode"}
Columns == PostColumns \cup {"is_spoilered", "expires", "data"}

Layout == [version: {"clean", "norow", "info", "old", "current", "newer"},
           missing: SUBSET Columns, cyclic: {"none", "cyclical", "cyclic"},
           filterTables: 0..Len(FilterTables),
           conv: [{"posts", "reports"} -> Conversions],
           banTable: BOOLEAN, banIP: BOOLEAN, range: {"none", "string", "binary"},
           ranged: SUBSET OldBans, rebuilt: SUBSET Rebuildable, admin: BOOLEAN, board: BOOLEAN]

StartLocals == [block: Nat, stmt: Nat, rows: SUBSET OldBans]
NoStartLocals == [block |-> 1, stmt |-> 1, rows |-> {}]

UpdateTypeOK ==
    /\ driver \in SQLDrivers /\ foundOld \in BOOLEAN
    /\ db \in Layout
    /\ migrated \in [LegacyTables -> 0..MaxStarts]
    /\ startPc \in {"down", "install", "admin", "board", "filterTables", "block", "stmt", "row",
                    "dropIP", "legacy", "version", "views", "serving"}
    /\ startReq \in StartLocals
    /\ starts \in 0..MaxStarts
    /\ interrupted \in BOOLEAN

-----------------------------------------------------------------------------
(* The blocks of updateMysqlDB, updatePostgresDB and updateSqliteDB in their order. *)

Blocks ==
    CASE driver = "mysql" -> <<"collation", "ip_ban", "posts", "reports", "flag", "country",
                               "is_secure_tripcode", "is_spoilered", "cyclic">>
      [] driver = "postgres" -> <<"posts", "reports", "ip_ban", "flag", "country",
                                  "is_secure_tripcode", "is_spoilered", "cyclic">>
      [] driver = "sqlite3" -> <<"foreign_keys", "cyclic", "is_secure_tripcode", "flag", "country",
                                 "expires", "data", "ip_ban", "is_spoilered", "posts", "reports">>

\* The conditions on ColumnType, to which a table that is gone has no columns; sqlite3 converts ranges
\* stored as strings, the others the column ip.
Needed(b) ==
    CASE b \in Columns -> b \in db.missing \/ (b \in PostColumns /\ db.conv["posts"] = "gone")
      [] b \in {"posts", "reports"} -> db.conv[b] = "string"
      [] b = "ip_ban" -> IF driver = "sqlite3" THEN ~db.banTable \/ db.range # "binary" ELSE db.banIP
      [] b = "cyclic" -> IF driver = "sqlite3" THEN db.cyclic = "cyclical" ELSE db.cyclic # "cyclic"
      [] OTHER -> TRUE

\* The statements of a block.  "refused" is one the server rejects whatever the layout is: postgres
\* assigns no string to a column of type INET, and has no CHANGE in ALTER TABLE.
ViaTemporaryTable == <<"toTemp", "convertTemp", "dropTable", "createTable", "dropTemp">>
Statements_DropsFirst(b) ==
    CASE b = "posts" /\ driver = "postgres" -> <<"rename", "add", "refused">>
      [] b = "reports" /\ driver = "postgres" -> <<"refused">>
      [] b \in {"posts", "reports"} /\ driver = "mysql" -> <<"rename", "add", "copy", "dropStr">>
      [] b \in {"posts", "reports"} /\ driver = "sqlite3" -> ViaTemporaryTable
      [] b = "ip_ban" /\ driver = "sqlite3" -> ViaTemporaryTable
      [] b = "ip_ban" /\ driver = "postgres" -> <<"addRange", "dropIP", "setRanges">>
      [] b = "ip_ban" /\ driver = "mysql" -> <<"addRange">>
      [] OTHER -> <<"alter">>
Statements(b) ==
    CASE b = "posts" /\ driver = "postgres" -> <<"rename", "add", "refused">>
      [] b = "reports" /\ driver = "postgres" -> <<"refused">>
      [] b \in {"posts", "reports"} /\ driver = "mysql" -> <<"rename", "add", "copy", "dropStr">>
      [] b \in {"posts", "reports"} /\ driver = "sqlite3" -> ViaTemporaryTable
      [] b = "ip_ban" /\ driver = "sqlite3" -> ViaTemporaryTable
      [] b = "ip_ban" /\ driver = "postgres" -> <<"addRange", "setRanges", "dropIP">>
      [] b = "ip_ban" /\ driver = "mysql" -> <<"addRange">>
      [] OTHER -> <<"alter">>

\* The layouts statement st of block b may leave; none if the database refuses it.
AfterConversion_DropsFirst(b, st) ==
    LET to(c) == {[db EXCEPT !.conv[b] = c]} IN
    CASE st = "rename" /\ db.conv[b] = "string" -> to("renamed")
      [] st = "add" /\ db.conv[b] = "renamed" -> to("added")
      [] st = "copy" /\ db.conv[b] = "added" -> to("added")
      [] st = "dropStr" /\ db.conv[b] = "added" -> to("added")
      [] st \in {"toTemp", "convertTemp"} /\ db.conv[b] = "string" -> {db}
      [] st = "dropTable" /\ db.conv[b] = "string" -> {[db EXCEPT !.conv[b] = "gone", !.rebuilt = @ \cup {b}]}
      [] st = "createTable" /\ db.conv[b] = "gone" -> to("binary")
      [] st = "dropTemp" -> {db}
      [] OTHER -> {}
AfterConversion(b, st) ==
    LET to(c) == {[db EXCEPT !.conv[b] = c]} IN
    CASE st = "rename" /\ db.conv[b] = "string" -> to("renamed")
      [] st = "add" /\ db.conv[b] = "renamed" -> to("added")
      [] st = "copy" /\ db.conv[b] = "added" -> to("copied")
      [] st = "dropStr" /\ db.conv[b] = "copied" -> to("binary")
      [] st \in {"toTemp", "convertTemp"} /\ db.conv[b] = "string" -> {db}
      [] st = "dropTable" /\ db.conv[b] = "string" -> {[db EXCEPT !.conv[b] = "gone", !.rebuilt = @ \cup {b}]}
      [] st = "createTable" /\ db.conv[b] = "gone" -> to("binary")
      [] st = "dropTemp" -> {db}
      [] OTHER -> {}

\* In a table with a column ip the temporary copy has no addresses to convert, which its
\* NOT NULL columns refuse if there is a row.
AfterBanStatement(st) ==
    CASE st = "addRange" -> {[db EXCEPT !.range = "binary"]}
      [] st = "setRanges" /\ db.banIP -> {[db EXCEPT !.ranged = OldBans]}
      [] st = "dropIP" -> {[db EXCEPT !.banIP = FALSE]}
      [] st = "toTemp" /\ db.banTable -> {db}
      [] st = "convertTemp" /\ (db.range = "string" \/ OldBans = {}) -> {db}
      [] st = "dropTable" -> {[db EXCEPT !.banTable = FALSE, !.rebuilt = @ \cup {"ip_ban"}]}
      [] st = "createTable" -> {[db EXCEPT !.banTable = TRUE, !.range = "binary", !.banIP = FALSE,
                                           !.ranged = OldBans]}
      [] st = "dropTemp" -> {db}
      [] OTHER -> {}

After(b, st) ==
    CASE b \in {"posts", "reports"} -> AfterConversion(b, st)
      [] b = "ip_ban" -> AfterBanStatement(st)
      [] b \in Columns -> IF b \in PostColumns /\ db.conv["posts"] = "gone"
                          THEN {} ELSE {[db EXCEPT !.missing = @ \ {b}]}
      [] b = "cyclic" -> IF db.cyclic = "cyclical" \/ driver = "mysql"
                         THEN {[db EXCEPT !.cyclic = "cyclic"]} ELSE {}
      [] OTHER -> {db}

-----------------------------------------------------------------------------
(* The layouts a start may find: an empty database, one from before versions   *)
(* were kept, one of a later release, and older ones the driver's update is    *)
(* written for.                                                                *)

Fresh(v) == [version |-> v, missing |-> {}, cyclic |-> "cyclic", filterTables |-> Len(FilterTables),
             conv |-> [t \in {"posts", "reports"} |-> "binary"], banTable |-> TRUE, banIP |-> FALSE,
             range |-> "binary", ranged |-> OldBans, rebuilt |-> {}, admin |-> TRUE, board |-> TRUE]
Empty == [Fresh("clean") EXCEPT !.filterTables = 0, !.ranged = {}, !.admin = FALSE, !.board = FALSE]

\* The columns an update adds, and the bans before it: "none" has the address in the column ip.
AddedColumns(d) == IF d = "sqlite3" THEN Columns ELSE Columns \ {"expires", "data"}
OldRanges(d) == IF d = "sqlite3" THEN {"none", "string", "binary"} ELSE {"none", "binary"}
OldCyclic(d) == IF d = "mysql" THEN {"none", "cyclical", "cyclic"} ELSE {"cyclical", "cyclic"}

OldLayout(missing, cyclic, tables, conv, range) ==
    [Fresh("old") EXCEPT !.missing = missing, !.cyclic = cyclic, !.filterTables = tables, !.conv = conv,
                         !.banIP = (range = "none"), !.range = range,
                         !.ranged = IF range = "none" THEN {} ELSE OldBans]
OldLayouts(d) ==
    {OldLayout(m, c, f, v, r) :
        m \in {{}, {"is_spoilered"}, AddedColumns(d)}, c \in OldCyclic(d), f \in {0, Len(FilterTables)},
        v \in [{"posts", "reports"} -> {"string", "binary"}], r \in OldRanges(d)}

UpdateInit ==
    /\ driver \in SQLDrivers
    /\ db \in OldLayouts(driver) \cup {Empty, Fresh("info"), Fresh("newer")}
    /\ foundOld = (db.version = "old")
    /\ migrated = [t \in LegacyTables |-> 0]
    /\ startPc = "down"
    /\ startReq = NoStartLocals
    /\ starts = 0
    /\ interrupted = FALSE

-----------------------------------------------------------------------------
StartGoto(step) == startPc' = step
\* The error ends the process: zerolog's Fatal event exits after it is written.
ExitWithError ==
    /\ startPc' = "down"
    /\ startReq' = NoStartLocals

\* GetCompleteDatabaseVersion, CheckAndInitializeDatabase, and the beginning of UpdateDatabase.
\* Without database_version the update of a database with the table info ends with an error.
CheckAndInitializeDatabase ==
    /\ startPc = "down"
    /\ starts < MaxStarts
    /\ starts' = starts + 1
    /\ startReq' = NoStartLocals
    /\ startPc' = CASE db.version = "clean" -> "install"
                    [] db.version = "current" -> "views"
                    [] db.version = "old" -> IF db.filterTables = 0 THEN "filterTables" ELSE "block"
                    [] OTHER -> "down"
    /\ UNCHANGED <<driver, foundOld, db, migrated, interrupted>>

\* buildNewDatabase, RunSQLFile: one transaction, but mysql commits every CREATE TABLE at once;
\* database_version is the first table and its row the last statement.
BuildNewDatabase_VersionFirst ==
    /\ startPc = "install"
    /\ IF driver = "mysql" /\ db.version = "clean"
       THEN db' = [db EXCEPT !.version = "current"] /\ UNCHANGED <<startPc, startReq>>
       ELSE /\ db' = [Fresh("current") EXCEPT !.admin = FALSE, !.board = FALSE]
            /\ StartGoto("admin")
            /\ UNCHANGED startReq
    /\ UNCHANGED <<driver, foundOld, migrated, starts, interrupted>>
BuildNewDatabase ==
    /\ startPc = "install"
    /\ IF driver = "mysql" /\ db.version = "clean"
       THEN db' = [db EXCEPT !.version = "norow"] /\ UNCHANGED <<startPc, startReq>>
       ELSE /\ db' = [Fresh("current") EXCEPT !.admin = FALSE, !.board = FALSE]
            /\ StartGoto("admin")
            /\ UNCHANGED startReq
    /\ UNCHANGED <<driver, foundOld, migrated, starts, interrupted>>

CreateDefaultAdminIfNoStaff ==
    /\ startPc = "admin"
    /\ db' = [db EXCEPT !.admin = TRUE]
    /\ StartGoto("board")
    /\ UNCHANGED <<driver, foundOld, migrated, startReq, starts, interrupted>>

CreateDefaultBoardIfNoneExist ==
    /\ startPc = "board"
    /\ db' = [db EXCEPT !.board = TRUE]
    /\ StartGoto("views")
    /\ UNCHANGED <<driver, foundOld, migrated, startReq, starts, interrupted>>

-----------------------------------------------------------------------------
\* addFilterTables: one CREATE TABLE after the other, only if DBPREFIXfilters was not there.
AddFilterTable ==
    /\ startPc = "filterTables"
    /\ db' = [db EXCEPT !.filterTables = @ + 1]
    /\ StartGoto(IF db.filterTables + 1 = Len(FilterTables) THEN "block" ELSE "filterTables")
    /\ UNCHANGED <<driver, foundOld, migrated, startReq, starts, interrupted>>

CheckBlock_SetsVersion ==
    /\ startPc = "block"
    /\ \/ /\ startReq.block > Len(Blocks)
          /\ StartGoto("legacy")
          /\ startReq' = [NoStartLocals EXCEPT !.block = 1]
          /\ db' = [db EXCEPT !.version = "current"]
       \/ /\ startReq.block <= Len(Blocks)
          /\ IF Needed(Blocks[startReq.block])
             THEN StartGoto("stmt") /\ startReq' = [startReq EXCEPT !.stmt = 1]
             ELSE startReq' = [startReq EXCEPT !.block = @ + 1] /\ UNCHANGED startPc
          /\ UNCHANGED db
    /\ UNCHANGED <<driver, foundOld, migrated, starts, interrupted>>
CheckBlock ==
    /\ startPc = "block"
    /\ \/ /\ startReq.block > Len(Blocks)
          /\ StartGoto("legacy")
          /\ startReq' = [NoStartLocals EXCEPT !.block = 1]
       \/ /\ startReq.block <= Len(Blocks)
          /\ IF Needed(Blocks[startReq.block])
             THEN StartGoto("stmt") /\ startReq' = [startReq EXCEPT !.stmt = 1]
             ELSE startReq' = [startReq EXCEPT !.block = @ + 1] /\ UNCHANGED startPc
    /\ UNCHANGED <<driver, foundOld, db, migrated, starts, interrupted>>

\* mysql reads the rows of ip_ban after adding the columns, and converts them one by one.
ExecStatement ==
    LET b == Blocks[startReq.block]
        st == Statements(b)[startReq.stmt]
    IN
    /\ startPc = "stmt"
    /\ \/ /\ After(b, st) = {}
          /\ interrupted' = TRUE
          /\ ExitWithError
          /\ UNCHANGED db
       \/ /\ db' \in After(b, st)
          /\ IF startReq.stmt < Len(Statements(b))
             THEN startReq' = [startReq EXCEPT !.stmt = @ + 1] /\ UNCHANGED startPc
             ELSE IF b = "ip_ban" /\ driver = "mysql"
             THEN startReq' = [startReq EXCEPT !.rows = OldBans] /\ StartGoto("row")
             ELSE startReq' = [startReq EXCEPT !.block = @ + 1] /\ StartGoto("block")
          /\ UNCHANGED interrupted
    /\ UNCHANGED <<driver, foundOld, migrated, starts>>

ConvertBan ==
    /\ startPc = "row"
    /\ \/ /\ startReq.rows = {}
          /\ startReq' = [startReq EXCEPT !.block = @ + 1]
          /\ StartGoto("block")
          /\ UNCHANGED db
       \/ \E ban \in startReq.rows :
             /\ db' = [db EXCEPT !.ranged = @ \cup {ban}]
             /\ startReq' = [startReq EXCEPT !.rows = @ \ {ban}]
             /\ StartGoto("dropIP")
    /\ UNCHANGED <<driver, foundOld, migrated, starts, interrupted>>

\* DROP COLUMN IF EXISTS ip is inside the loop over the rows.
DropBanIP ==
    /\ startPc = "dropIP"
    /\ db' = [db EXCEPT !.banIP = FALSE]
    /\ StartGoto("row")
    /\ UNCHANGED <<driver, foundOld, migrated, startReq, starts, interrupted>>

\* updateFileBans, updateFilenameBans, updateUsernameBans, updateWordfilters: a transaction
\* for each table that exists; without all filter tables its inserts fail.  The tables stay.
MigrateLegacyTable ==
    LET t == LegacyOrder[startReq.block] IN
    /\ startPc = "legacy"
    /\ IF startReq.block > Len(LegacyOrder)
       THEN StartGoto("version") /\ UNCHANGED <<startReq, migrated>>
       ELSE IF t \notin LegacyTables
       THEN startReq' = [startReq EXCEPT !.block = @ + 1] /\ UNCHANGED <<startPc, migrated>>
       ELSE IF db.filterTables < Len(FilterTables) - 1
       THEN ExitWithError /\ UNCHANGED migrated
       ELSE /\ migrated' = [migrated EXCEPT ![t] = @ + 1]
            /\ startReq' = [startReq EXCEPT !.block = @ + 1]
            /\ UNCHANGED startPc
    /\ UNCHANGED <<driver, foundOld, db, starts, interrupted>>

SetVersion ==
    /\ startPc = "version"
    /\ db' = [db EXCEPT !.version = "current"]
    /\ StartGoto("views")
    /\ startReq' = NoStartLocals
    /\ UNCHANGED <<driver, foundOld, migrated, starts, interrupted>>

\* ResetViews; mysql and postgres refuse a view of a column that is not there.
ResetViews ==
    /\ startPc = "views"
    /\ IF driver # "sqlite3" /\ (\E t \in {"posts", "reports"} : db.conv[t] = "renamed")
       THEN ExitWithError
       ELSE StartGoto("serving") /\ UNCHANGED startReq
    /\ UNCHANGED <<driver, foundOld, db, migrated, starts, interrupted>>

\* A statement fails, the 20 seconds of the update are over, or the process is killed.
StartInterrupted ==
    /\ MayFail
    /\ startPc # "down"
    /\ interrupted' = (interrupted \/ startPc # "serving")
    /\ ExitWithError
    /\ UNCHANGED <<driver, foundOld, db, migrated, starts>>

UpdateNext ==
    \/ CheckAndInitializeDatabase
    \/ BuildNewDatabase \/ CreateDefaultAdminIfNoStaff \/ CreateDefaultBoardIfNoneExist
    \/ AddFilterTable \/ CheckBlock \/ ExecStatement \/ ConvertBan \/ DropBanIP
    \/ MigrateLegacyTable \/ SetVersion \/ ResetViews
    \/ StartInterrupted

UpdateSpec == UpdateInit /\ [][UpdateNext]_updateVars

-----------------------------------------------------------------------------
\* The columns of this release with the values they should have, every ban with its range.
LayoutConverted ==
    /\ db.missing = {} /\ db.cyclic = "cyclic"
    /\ db.filterTables = Len(FilterTables)
    /\ \A t \in {"posts", "reports"} : db.conv[t] = "binary"
    /\ db.banTable /\ db.range = "binary" /\ db.ranged = OldBans

\* The layout initdb_*.sql makes: its tables have their keys, types and defaults as well.
Complete == LayoutConverted /\ db.rebuilt = {}

\* However often the update is cut short and started again, the server never runs before the rows
\* of every filter table of the old database were made into filters.
LegacyFiltersSurvive ==
    startPc = "serving" /\ foundOld => \A t \in LegacyTables : migrated[t] > 0

\* A new database is served only when every table was created, also if its creation was cut short
\* on a server that commits each of them at once: the version is written last.
NewDatabaseIsWhole == startPc = "serving" /\ ~foundOld => Complete

\* An update that is not cut short and whose statements succeed leaves every column this release
\* reads, converts their values, loses no ban and makes the rows of a legacy table into filters once,
\* whichever old layout the driver's update found.  Only mysql and postgres are promised to keep the
\* keys of their tables and the rows that refer to them: for sqlite3 see UpdateKeepsKeys.
UninterruptedUpdateConverts ==
    startPc = "serving" /\ ~interrupted =>
       /\ LayoutConverted
       /\ driver # "sqlite3" => db.rebuilt = {}
       /\ \A t \in LegacyTables : migrated[t] <= 1

\* However often an update is cut short, an old database is served only with every column this
\* release adds and with its table of posts; for postgres and sqlite3 no ban was lost either: a
\* start that finds one of the steps undone repeats it, or ends with an error.  (The other tables and
\* the addresses of posts have no such promise, nor have the bans in mysql: see NoBanIsLost.)
RestartsRepairTheUpdate ==
    startPc = "serving" /\ foundOld =>
       /\ db.missing = {} /\ db.cyclic = "cyclic"
       /\ db.conv["posts"] # "gone"
       /\ driver # "mysql" => db.banTable /\ db.ranged = OldBans

\* The server runs on a database in which every ban of the old one has its range.
NoBanIsLost == startPc = "serving" /\ foundOld => db.banTable /\ db.ranged = OldBans

\* The update converts columns and keeps the tables with their keys, defaults and types, and the
\* rows that refer to theirs.
UpdateKeepsKeys == startPc = "serving" /\ foundOld => db.rebuilt = {}

\* The server runs on a database that has its table of reports.
ReportsTableStays == startPc = "serving" /\ foundOld => db.conv["reports"] # "gone"
===============================================================================
