------------------------ MODULE BoardsAndUpdatesProofs ------------------------
(***************************************************************************)
(* The update of the database at the start, the ids of the rows an insert   *)
(* has made, the insert as a single step, and the list of boards.  The      *)
(* modules share no variable; each part gives the inductive invariant of    *)
(* one of them, one lemma for each action, and the theorems that follow     *)
(* from it.  The last one puts the components of the instance together.     *)
(***************************************************************************)
EXTENDS MCBoardsAndUpdates, PagesAndConnectionsProofs

(* The update of the database. *)

\* The update before the filter tables of the old release, and a table whose turn is still to come.
Altering == {"filterTables", "block", "stmt", "row", "dropIP"}
Pending(t) ==
    \/ startPc \in Altering
    \/ startPc = "legacy" /\ \E i \in 1..Len(LegacyOrder) : startReq.block <= i /\ LegacyOrder[i] = t

\* The version says where the database came from and how far a start may have got.
VersionInv ==
    /\ db.version = "old" => foundOld
    /\ foundOld => db.version \in {"old", "current"} /\ startPc \notin {"install", "admin", "board"}
    /\ startPc \in Altering \cup {"legacy", "version"} => db.version = "old"
    /\ startPc \in {"admin", "board", "views", "serving"} => db.version = "current"
    /\ startPc = "install" => db.version \in {"clean", "norow"}
    /\ ~foundOld /\ db.version = "current" => Complete

\* A start makes the rows of a table into filters at most once, and the version is written after
\* all of them.
MigratedInv ==
    /\ \A t \in LegacyTables : migrated[t] <= starts /\ (Pending(t) => migrated[t] < starts)
    /\ foundOld /\ (startPc = "version" \/ db.version = "current") => \A t \in LegacyTables : migrated[t] > 0
    /\ startPc = "legacy" => \A i \in 1..Len(LegacyOrder) :
          i < startReq.block /\ LegacyOrder[i] \in LegacyTables => migrated[LegacyOrder[i]] > 0
    /\ startPc = "filterTables" => db.filterTables < Len(FilterTables)

\* What a block of the update is about: before the block, and after it.
Found(b) ==
    CASE b \in {"posts", "reports"} -> db.conv[b] \in {"string", "binary"}
      [] b = "ip_ban" -> /\ db.banTable
                         /\ db.banIP <=> db.range = "none"
                         /\ db.range = "string" => driver = "sqlite3"
                         /\ db.range # "none" => db.ranged = OldBans
      [] b = "cyclic" -> db.cyclic = "none" => driver = "mysql"
      [] OTHER -> TRUE
Converted(b) ==
    CASE b \in Columns -> b \notin db.missing
      [] b \in {"posts", "reports"} -> db.conv[b] = "binary"
      [] b = "ip_ban" -> db.banTable /\ db.range = "binary" /\ db.ranged = OldBans
      [] b = "cyclic" -> db.cyclic = "cyclic"
      [] OTHER -> TRUE

\* Between the statements of a block: what statement st finds.
ConversionFound(b, st) ==
    CASE st = "rename" -> db.conv[b] = "string"
      [] st = "add" -> db.conv[b] = "renamed"
      [] st = "copy" -> db.conv[b] = "added"
      [] st = "dropStr" -> db.conv[b] = "copied"
      [] st = "dropTemp" -> db.conv[b] = "binary"
      [] OTHER -> TRUE
BansFound(st) ==
    CASE st = "addRange" -> db.banTable
      [] st = "setRanges" -> db.banTable /\ db.range = "binary"
      [] st \in {"dropIP", "dropTemp"} -> Converted("ip_ban")
      [] OTHER -> TRUE
UnderWay(b, st) ==
    CASE b \in {"posts", "reports"} -> ConversionFound(b, st)
      [] b = "ip_ban" -> BansFound(st)
      [] OTHER -> Found(b)
RowsUnderWay ==
    /\ driver = "mysql" /\ Blocks[startReq.block] = "ip_ban"
    /\ db.banTable /\ db.range = "binary" /\ db.ranged \cup startReq.rows = OldBans

InBlock == startPc \in {"block", "stmt", "row", "dropIP"}
CountersInv ==
    /\ startReq.block # 0
    /\ startPc = "filterTables" => startReq.block = 1
    /\ startPc = "block" => startReq.block <= Len(Blocks) + 1
    /\ startPc \in {"stmt", "row", "dropIP"} => startReq.block <= Len(Blocks)
BlocksInv ==
    /\ \A i \in 1..Len(Blocks) : i < startReq.block => Converted(Blocks[i])
    /\ \A i \in 1..Len(Blocks) : i > startReq.block => Found(Blocks[i])
    /\ startPc = "block" /\ startReq.block <= Len(Blocks) => Found(Blocks[startReq.block])
    /\ startPc = "stmt" => /\ startReq.stmt \in 1..Len(Statements(Blocks[startReq.block]))
                           /\ UnderWay(Blocks[startReq.block], Statements(Blocks[startReq.block])[startReq.stmt])
    /\ startPc \in {"row", "dropIP"} => RowsUnderWay

\* A database no start of which was cut short: as it was found up to the update, complete after it.
OldLayoutInv ==
    db.version = "old" =>
       /\ \A t \in LegacyTables : startPc = "down" \/ Pending(t) => migrated[t] = 0
       /\ \A c \in db.missing : \E i \in 1..Len(Blocks) : Blocks[i] = c
       /\ startPc = "down" => db.filterTables \in {0, Len(FilterTables)}
       /\ startPc \notin {"down", "filterTables"} => db.filterTables = Len(FilterTables)
       /\ startPc \in {"down", "filterTables"} => \A i \in 1..Len(Blocks) : Found(Blocks[i])
Undisturbed ==
    /\ \A t \in LegacyTables : migrated[t] <= 1
    /\ OldLayoutInv
    /\ InBlock => BlocksInv
    /\ startPc \in {"legacy", "version"} \/ db.version = "current" => LayoutConverted
UndisturbedInv == ~interrupted => Undisturbed

\* An old database whatever start was cut short: what no statement takes away.
KeptInv ==
    /\ \A c \in db.missing : \E i \in 1..Len(Blocks) : Blocks[i] = c
    /\ driver # "mysql" => db.cyclic # "none"
    /\ driver = "postgres" => db.banTable /\ (~db.banIP => db.ranged = OldBans)
    /\ driver = "sqlite3" => db.range = "none" \/ db.ranged = OldBans
    /\ driver # "sqlite3" => db.conv["posts"] # "gone" /\ db.rebuilt = {}

\* What a block sees to, also when it finds what a start that was cut short has left.
Repaired(b) ==
    CASE b \in Columns -> b \notin db.missing
      [] b = "posts" -> db.conv["posts"] # "gone"
      [] b = "ip_ban" -> driver # "mysql" => db.banTable /\ db.ranged = OldBans
      [] b = "cyclic" -> db.cyclic = "cyclic"
      [] OTHER -> TRUE

\* What statement k of block b can rely on.
ReliesOn(b, k) ==
    /\ b = "ip_ban" /\ driver = "postgres" /\ k = 3 => db.ranged = OldBans
    /\ b = "ip_ban" /\ driver = "sqlite3" /\ k = 5 => db.banTable /\ db.ranged = OldBans

\* In sqlite3 a table of posts that is gone stops a start at the third block, is_secure_tripcode.
PostsThere ==
    driver = "sqlite3" /\ startReq.block > 3 /\ db.conv["posts"] = "gone" =>
       startPc = "stmt" /\ Blocks[startReq.block] = "posts" /\ startReq.stmt = 4

RepairInv ==
    foundOld =>
       /\ KeptInv
       /\ InBlock => PostsThere /\ \A i \in 1..Len(Blocks) : i < startReq.block => Repaired(Blocks[i])
       /\ startPc = "stmt" => /\ startReq.stmt \in 1..Len(Statements(Blocks[startReq.block]))
                              /\ ReliesOn(Blocks[startReq.block], startReq.stmt)
       /\ startPc \in {"row", "dropIP"} => driver = "mysql" /\ Blocks[startReq.block] = "ip_ban"
       /\ startPc \in {"legacy", "version"} \/ db.version = "current" =>
             \A i \in 1..Len(Blocks) : Repaired(Blocks[i])

UpdateInv == UpdateTypeOK /\ CountersInv /\ VersionInv /\ MigratedInv /\ UndisturbedInv /\ RepairInv

StartSteps == {"down", "install", "admin", "board", "filterTables", "block", "stmt", "row",
               "dropIP", "legacy", "version", "views", "serving"}
BlockNames == Columns \cup {"collation", "foreign_keys", "posts", "reports", "ip_ban", "cyclic"}

\* The filter tables are four, so are the tables of old releases.
LEMMA TablesCounted ==
    /\ Len(FilterTables) = 4 /\ Len(LegacyOrder) = 4
    /\ LegacyOrder[1] = "file_ban" /\ LegacyOrder[2] = "filename_ban"
    /\ LegacyOrder[3] = "username_ban" /\ LegacyOrder[4] = "wordfilters"
  BY DEF FilterTables, LegacyOrder

\* The variables of a start in any state.
LEMMA StartLocalsType ==
    /\ NoStartLocals \in StartLocals
    /\ \A q \in StartLocals : /\ q.block \in Nat /\ q.stmt \in Nat /\ q.rows \in SUBSET OldBans
                              /\ [q EXCEPT !.block = q.block + 1] \in StartLocals
                              /\ [q EXCEPT !.stmt = q.stmt + 1] \in StartLocals
                              /\ [q EXCEPT !.stmt = 1] \in StartLocals
                              /\ [q EXCEPT !.rows = OldBans] \in StartLocals
                              /\ \A ban : [q EXCEPT !.rows = q.rows \ {ban}] \in StartLocals
  <1>1. NoStartLocals \in StartLocals
    BY DEF NoStartLocals, StartLocals
  <1>2. ASSUME NEW q \in StartLocals
        PROVE  q.block \in Nat /\ q.stmt \in Nat /\ q.rows \in SUBSET OldBans
    BY DEF StartLocals
  <1>3. ASSUME NEW q \in StartLocals
        PROVE  /\ [q EXCEPT !.block = q.block + 1] \in StartLocals
               /\ [q EXCEPT !.stmt = q.stmt + 1] \in StartLocals
               /\ [q EXCEPT !.stmt = 1] \in StartLocals
    BY <1>2 DEF StartLocals
  <1>4. ASSUME NEW q \in StartLocals
        PROVE  [q EXCEPT !.rows = OldBans] \in StartLocals
    BY DEF StartLocals
  <1>5. ASSUME NEW q \in StartLocals, NEW ban
        PROVE  [q EXCEPT !.rows = q.rows \ {ban}] \in StartLocals
    BY DEF StartLocals
  <1> QED
    BY <1>1, <1>2, <1>3, <1>4, <1>5

\* A statement of block b changes what that block is about and nothing else.
LEMMA StatementKeeps ==
    ASSUME db \in Layout, NEW b \in BlockNames, NEW st, NEW d \in After(b, st)
    PROVE  /\ d \in Layout
           /\ d.version = db.version /\ d.filterTables = db.filterTables
           /\ d.missing = IF b \in Columns THEN db.missing \ {b} ELSE db.missing
           /\ b # "cyclic" => d.cyclic = db.cyclic
           /\ \A t \in {"posts", "reports"} : t # b => d.conv[t] = db.conv[t]
           /\ b # "ip_ban" => /\ d.banTable = db.banTable /\ d.banIP = db.banIP
                              /\ d.range = db.range /\ d.ranged = db.ranged
  <1>1. CASE b \in {"posts", "reports"}
    <2>1. d \in AfterConversion(b, st)
      BY <1>1 DEF After, Columns, PostColumns
    <2>2. \/ d = db
          \/ \E c \in Conversions : d = [db EXCEPT !.conv[b] = c]
          \/ st = "dropTable" /\ d = [db EXCEPT !.conv[b] = "gone", !.rebuilt = db.rebuilt \cup {b}]
      BY <2>1 DEF AfterConversion, Conversions
    <2>3. b \notin Columns
      BY <1>1 DEF Columns, PostColumns
    <2>4. CASE d = db
      BY <1>1, <2>3, <2>4
    <2>5. ASSUME NEW c \in Conversions, d = [db EXCEPT !.conv[b] = c]
          PROVE  /\ d \in Layout
                 /\ d.version = db.version /\ d.filterTables = db.filterTables
                 /\ d.missing = db.missing /\ d.cyclic = db.cyclic
                 /\ \A t \in {"posts", "reports"} : t # b => d.conv[t] = db.conv[t]
                 /\ d.banTable = db.banTable /\ d.banIP = db.banIP
                 /\ d.range = db.range /\ d.ranged = db.ranged
      <3>1. db.conv \in [{"posts", "reports"} -> Conversions]
        BY DEF Layout
      <3>2. [db.conv EXCEPT ![b] = c] \in [{"posts", "reports"} -> Conversions]
        BY <3>1
      <3>3. d = [db EXCEPT !.conv = [db.conv EXCEPT ![b] = c]]
        BY <2>5
      <3>4. d \in Layout
        BY <3>2, <3>3 DEF Layout
      <3>5. d.conv = [db.conv EXCEPT ![b] = c]
        BY <3>3 DEF Layout
      <3>6. \A t \in {"posts", "reports"} : t # b => d.conv[t] = db.conv[t]
        BY <3>1, <3>5
      <3>7. /\ d.version = db.version /\ d.filterTables = db.filterTables
            /\ d.missing = db.missing /\ d.cyclic = db.cyclic
            /\ d.banTable = db.banTable /\ d.banIP = db.banIP
            /\ d.range = db.range /\ d.ranged = db.ranged
        BY <3>3 DEF Layout
      <3> QED
        BY <3>4, <3>6, <3>7
    <2>6. ASSUME d = [db EXCEPT !.conv[b] = "gone", !.rebuilt = db.rebuilt \cup {b}]
          PROVE  /\ d \in Layout
                 /\ d.version = db.version /\ d.filterTables = db.filterTables
                 /\ d.missing = db.missing /\ d.cyclic = db.cyclic
                 /\ \A t \in {"posts", "reports"} : t # b => d.conv[t] = db.conv[t]
                 /\ d.banTable = db.banTable /\ d.banIP = db.banIP
                 /\ d.range = db.range /\ d.ranged = db.ranged
      <3>1. db.conv \in [{"posts", "reports"} -> Conversions] /\ db.rebuilt \subseteq Rebuildable
        BY DEF Layout
      <3>2. [db.conv EXCEPT ![b] = "gone"] \in [{"posts", "reports"} -> Conversions]
        BY <3>1 DEF Conversions
      <3>3. d = [db EXCEPT !.conv = [db.conv EXCEPT ![b] = "gone"], !.rebuilt = db.rebuilt \cup {b}]
        BY <2>6
      <3>4. db.rebuilt \cup {b} \in SUBSET Rebuildable
        BY <1>1, <3>1 DEF Rebuildable
      <3>5. d \in Layout
        BY <3>2, <3>3, <3>4 DEF Layout
      <3>6. d.conv = [db.conv EXCEPT ![b] = "gone"]
        BY <3>3 DEF Layout
      <3>7. \A t \in {"posts", "reports"} : t # b => d.conv[t] = db.conv[t]
        BY <3>1, <3>6
      <3>8. /\ d.version = db.version /\ d.filterTables = db.filterTables
            /\ d.missing = db.missing /\ d.cyclic = db.cyclic
            /\ d.banTable = db.banTable /\ d.banIP = db.banIP
            /\ d.range = db.range /\ d.ranged = db.ranged
        BY <3>3 DEF Layout
      <3> QED
        BY <3>5, <3>7, <3>8
    <2> QED
      BY <1>1, <2>2, <2>3, <2>4, <2>5, <2>6
  <1>2. CASE b = "ip_ban"
    <2>1. d \in AfterBanStatement(st)
      BY <1>2 DEF After, Columns, PostColumns
    <2>3. b \notin Columns
      BY <1>2 DEF Columns, PostColumns
    <2>4. CASE st = "addRange"
      <3>1. d = [db EXCEPT !.range = "binary"]
        BY <2>1, <2>4 DEF AfterBanStatement
      <3> QED
        BY <1>2, <2>3, <3>1 DEF Layout
    <2>5. CASE st = "setRanges"
      <3>1. d = [db EXCEPT !.ranged = OldBans]
        BY <2>1, <2>5 DEF AfterBanStatement
      <3> QED
        BY <1>2, <2>3, <3>1 DEF Layout
    <2>6. CASE st = "dropIP"
      <3>1. d = [db EXCEPT !.banIP = FALSE]
        BY <2>1, <2>6 DEF AfterBanStatement
      <3> QED
        BY <1>2, <2>3, <3>1 DEF Layout
    <2>7. CASE st = "dropTable"
      <3>1. d = [db EXCEPT !.banTable = FALSE, !.rebuilt = db.rebuilt \cup {"ip_ban"}]
        BY <2>1, <2>7 DEF AfterBanStatement
      <3>2. db.rebuilt \cup {"ip_ban"} \in SUBSET Rebuildable
        BY DEF Layout, Rebuildable
      <3> QED
        BY <1>2, <2>3, <2>7, <3>1, <3>2 DEF Layout
    <2>8. CASE st = "createTable"
      <3>1. d = [db EXCEPT !.banTable = TRUE, !.range = "binary", !.banIP = FALSE, !.ranged = OldBans]
        BY <2>1, <2>8 DEF AfterBanStatement
      <3> QED
        BY <1>2, <2>3, <3>1 DEF Layout
    <2>9. CASE st \notin {"addRange", "setRanges", "dropIP", "dropTable", "createTable"}
      <3>1. d = db
        BY <2>1, <2>9 DEF AfterBanStatement
      <3> QED
        BY <1>2, <2>3, <3>1
    <2> QED
      BY <2>4, <2>5, <2>6, <2>7, <2>8, <2>9
  <1>3. CASE b \in Columns
    <2>1. b \notin {"posts", "reports", "ip_ban", "cyclic"}
      BY <1>3 DEF Columns, PostColumns
    <2>2. d = [db EXCEPT !.missing = @ \ {b}]
      BY <1>3, <2>1 DEF After, PostColumns
    <2> QED
      BY <1>3, <2>1, <2>2 DEF Layout
  <1>4. CASE b = "cyclic"
    <2>1. b \notin Columns
      BY <1>4 DEF Columns, PostColumns
    <2>2. d = [db EXCEPT !.cyclic = "cyclic"]
      BY <1>4, <2>1 DEF After, PostColumns, Columns
    <2> QED
      BY <1>4, <2>1, <2>2 DEF Layout
  <1>5. CASE b \in {"collation", "foreign_keys"}
    BY <1>5 DEF After, Columns, PostColumns
  <1> QED
    BY <1>1, <1>2, <1>3, <1>4, <1>5 DEF BlockNames

\* The blocks of every driver: each once, and none of the conversions is left out.
LEMMA BlocksListed ==
    ASSUME driver \in {"mysql", "postgres", "sqlite3"}
    PROVE  /\ Len(Blocks) \in 1..11
           /\ \A i \in 1..Len(Blocks) : Blocks[i] \in BlockNames
           /\ \A i, j \in 1..Len(Blocks) : Blocks[i] = Blocks[j] => i = j
           /\ \A b \in {"posts", "reports", "ip_ban", "cyclic"} : \E i \in 1..Len(Blocks) : Blocks[i] = b
  <1>1. CASE driver = "mysql"
    <2>1. Blocks = <<"collation", "ip_ban", "posts", "reports", "flag", "country",
                     "is_secure_tripcode", "is_spoilered", "cyclic">>
      BY <1>1 DEF Blocks
    <2> QED
      BY <2>1 DEF BlockNames, Columns, PostColumns
  <1>2. CASE driver = "postgres"
    <2>1. Blocks = <<"posts", "reports", "ip_ban", "flag", "country",
                     "is_secure_tripcode", "is_spoilered", "cyclic">>
      BY <1>2 DEF Blocks
    <2> QED
      BY <2>1 DEF BlockNames, Columns, PostColumns
  <1>3. CASE driver = "sqlite3"
    <2>1. Blocks = <<"foreign_keys", "cyclic", "is_secure_tripcode", "flag", "country",
                     "expires", "data", "ip_ban", "is_spoilered", "posts", "reports">>
      BY <1>3 DEF Blocks
    <2> QED
      BY <2>1 DEF BlockNames, Columns, PostColumns
  <1> QED
    BY <1>1, <1>2, <1>3

\* The layouts this release makes.
LEMMA FreshType ==
    ASSUME NEW v \in {"clean", "norow", "info", "old", "current", "newer"}
    PROVE  /\ Fresh(v) \in Layout /\ Fresh(v).version = v
           /\ [Fresh(v) EXCEPT !.admin = FALSE, !.board = FALSE] \in Layout
  <1>1. Fresh(v) \in Layout /\ Fresh(v).version = v
    <2>1. 4 \in 0..4
      OBVIOUS
    <2>2. [t \in {"posts", "reports"} |-> "binary"] \in [{"posts", "reports"} -> Conversions]
      BY DEF Conversions
    <2> QED
      BY <2>1, <2>2, TablesCounted DEF Fresh, Layout
  <1>2. [Fresh(v) EXCEPT !.admin = FALSE, !.board = FALSE] \in Layout
    BY <1>1 DEF Layout
  <1> QED
    BY <1>1, <1>2

\* What the names and the numbers of the instance come to.
LEMMA UpdateNumbers ==
    /\ SQLDrivers \subseteq {"mysql", "postgres", "sqlite3"}
    /\ MaxStarts \in Nat /\ MaxStarts # 0
  <1>1. MaxStarts \in Nat \ {0} /\ SQLDrivers \subseteq {"mysql", "postgres", "sqlite3"}
    BY UpdateAssumption
  <1> QED
    BY <1>1

\* Every step keeps the types; a layout is filled table by table, a table is migrated once a start.
LEMMA UpdateTypeStep ==
    ASSUME UpdateTypeOK, CountersInv, MigratedInv, UpdateNext
    PROVE  UpdateTypeOK'
  <1>t. /\ driver \in SQLDrivers /\ foundOld \in BOOLEAN /\ db \in Layout
        /\ migrated \in [LegacyTables -> 0..MaxStarts]
        /\ startReq \in StartLocals /\ starts \in 0..MaxStarts /\ interrupted \in BOOLEAN
        /\ startPc \in StartSteps
    BY DEF UpdateTypeOK, StartSteps
  <1>n. MaxStarts \in Nat /\ MaxStarts # 0
    BY UpdateNumbers
  <1>d. driver \in {"mysql", "postgres", "sqlite3"}
    BY <1>t, UpdateNumbers
  <1> DEFINE Typed ==
        /\ driver' \in SQLDrivers /\ foundOld' \in BOOLEAN /\ db' \in Layout
        /\ migrated' \in [LegacyTables -> 0..MaxStarts]
        /\ startReq' \in StartLocals /\ starts' \in 0..MaxStarts /\ interrupted' \in BOOLEAN
        /\ startPc' \in StartSteps
  <1> SUFFICES Typed
    BY DEF UpdateTypeOK, StartSteps
  <1>1. CASE CheckAndInitializeDatabase
    <2>1. starts' \in 0..MaxStarts
      BY <1>1, <1>t, <1>n DEF CheckAndInitializeDatabase
    <2>2. startPc' \in StartSteps
      <3>1. \/ startPc' = "install" \/ startPc' = "views" \/ startPc' = "filterTables"
            \/ startPc' = "block" \/ startPc' = "down"
        BY <1>1 DEF CheckAndInitializeDatabase
      <3> QED
        BY <3>1 DEF StartSteps
    <2> QED
      BY <1>1, <1>t, <2>1, <2>2, StartLocalsType DEF CheckAndInitializeDatabase
  <1>2. CASE BuildNewDatabase
    <2>1. db' \in Layout
      <3>1. [db EXCEPT !.version = "norow"] \in Layout
        BY <1>t DEF Layout
      <3>2. \/ db' = [db EXCEPT !.version = "norow"]
            \/ db' = [Fresh("current") EXCEPT !.admin = FALSE, !.board = FALSE]
        BY <1>2 DEF BuildNewDatabase
      <3> QED
        BY <3>1, <3>2, FreshType
    <2>2. startPc' \in StartSteps /\ startReq' \in StartLocals
      BY <1>2, <1>t DEF BuildNewDatabase, StartGoto, StartSteps
    <2> QED
      BY <1>2, <1>t, <2>1, <2>2 DEF BuildNewDatabase
  <1>3. CASE CreateDefaultAdminIfNoStaff \/ CreateDefaultBoardIfNoneExist \/ DropBanIP
    <2>1. db' \in Layout
      <3>1. [db EXCEPT !.admin = TRUE] \in Layout /\ [db EXCEPT !.board = TRUE] \in Layout
        BY <1>t DEF Layout
      <3>2. [db EXCEPT !.banIP = FALSE] \in Layout
        BY <1>t DEF Layout
      <3> QED
        BY <1>3, <3>1, <3>2 DEF CreateDefaultAdminIfNoStaff, CreateDefaultBoardIfNoneExist, DropBanIP
    <2> QED
      BY <1>3, <1>t, <2>1
         DEF CreateDefaultAdminIfNoStaff, CreateDefaultBoardIfNoneExist, DropBanIP, StartGoto, StartSteps
  <1>4. CASE AddFilterTable
    <2>1. db.filterTables \in 0..4 /\ db.filterTables < 4
      BY <1>4, <1>t, TablesCounted DEF AddFilterTable, MigratedInv, Layout
    <2>2. db.filterTables + 1 \in 0..4
      BY <2>1
    <2>3. db' = [db EXCEPT !.filterTables = db.filterTables + 1]
      BY <1>4 DEF AddFilterTable
    <2>4. db' \in Layout
      BY <1>t, <2>2, <2>3, TablesCounted DEF Layout
    <2> QED
      BY <1>4, <1>t, <2>4 DEF AddFilterTable, StartGoto, StartSteps
  <1>5. CASE CheckBlock
    <2>1. startReq' \in StartLocals
      <3>1. [NoStartLocals EXCEPT !.block = 1] \in StartLocals
        BY StartLocalsType DEF StartLocals
      <3>2. \/ startReq' = [NoStartLocals EXCEPT !.block = 1]
            \/ startReq' = [startReq EXCEPT !.stmt = 1]
            \/ startReq' = [startReq EXCEPT !.block = startReq.block + 1]
        BY <1>5 DEF CheckBlock
      <3> QED
        BY <1>t, <3>1, <3>2, StartLocalsType
    <2> QED
      BY <1>5, <1>t, <2>1 DEF CheckBlock, StartGoto, StartSteps
  <1>6. CASE ExecStatement
    <2> DEFINE b == Blocks[startReq.block]
               st == Statements(b)[startReq.stmt]
    <2>1. CASE interrupted' = TRUE /\ ExitWithError /\ UNCHANGED db
      BY <1>6, <1>t, <2>1, StartLocalsType DEF ExecStatement, ExitWithError, StartSteps
    <2>2. CASE db' \in After(b, st) /\ UNCHANGED interrupted
      <3>1. \/ startReq' = [startReq EXCEPT !.stmt = startReq.stmt + 1]
            \/ startReq' = [startReq EXCEPT !.rows = OldBans]
            \/ startReq' = [startReq EXCEPT !.block = startReq.block + 1]
            \/ startReq' = NoStartLocals
        BY <1>6 DEF ExecStatement, ExitWithError
      <3>2. db' \in Layout
        <4>1. startReq.block \in 1..Len(Blocks)
          <5>1. startPc = "stmt"
            BY <1>6 DEF ExecStatement
          <5>2. startReq.block \in Nat /\ startReq.block # 0 /\ startReq.block <= Len(Blocks)
            BY <1>t, <5>1, StartLocalsType DEF CountersInv
          <5> QED
            BY <5>2, <1>d, BlocksListed
        <4>2. b \in BlockNames
          BY <1>d, <4>1, BlocksListed
        <4> QED
          BY <1>t, <2>2, <4>2, StatementKeeps
      <3>3. startPc' \in StartSteps
        BY <1>6, <1>t DEF ExecStatement, ExitWithError, StartGoto, StartSteps
      <3> QED
        BY <1>6, <1>t, <2>2, <3>1, <3>2, <3>3, StartLocalsType DEF ExecStatement
    <2> QED
      BY <1>6, <2>1, <2>2 DEF ExecStatement
  <1>7. CASE ConvertBan
    <2>1. CASE startReq.rows = {} /\ UNCHANGED db
      BY <1>7, <1>t, <2>1, StartLocalsType DEF ConvertBan, StartGoto, StartSteps
    <2>2. ASSUME NEW ban \in startReq.rows,
                 db' = [db EXCEPT !.ranged = db.ranged \cup {ban}],
                 startReq' = [startReq EXCEPT !.rows = startReq.rows \ {ban}],
                 StartGoto("dropIP")
          PROVE  Typed
      <3>1. ban \in OldBans /\ db.ranged \in SUBSET OldBans
        BY <1>t, StartLocalsType DEF Layout
      <3>2. db' \in Layout
        BY <1>t, <2>2, <3>1 DEF Layout
      <3> QED
        BY <1>7, <1>t, <2>2, <3>2, StartLocalsType DEF ConvertBan, StartGoto, StartSteps
    <2> QED
      BY <1>7, <2>1, <2>2 DEF ConvertBan
  <1>8. CASE MigrateLegacyTable
    <2> DEFINE t == LegacyOrder[startReq.block]
    <2>1. startReq' \in StartLocals /\ startPc' \in StartSteps
      BY <1>8, <1>t, StartLocalsType DEF MigrateLegacyTable, ExitWithError, StartGoto, StartSteps
    <2>2. CASE migrated' = [migrated EXCEPT ![t] = migrated[t] + 1] /\ t \in LegacyTables
               /\ startReq.block <= Len(LegacyOrder)
      <3>1. startReq.block \in 1..4
        <4>1. startReq.block \in Nat /\ startReq.block # 0
          BY <1>t, StartLocalsType DEF CountersInv
        <4>2. startReq.block <= Len(LegacyOrder) /\ Len(LegacyOrder) = 4
          BY <2>2, TablesCounted
        <4> QED
          BY <4>1, <4>2
      <3>2. Pending(t)
        <4>1. startPc = "legacy"
          BY <1>8 DEF MigrateLegacyTable
        <4>2. startReq.block \in 1..Len(LegacyOrder) /\ startReq.block <= startReq.block
          BY <3>1, TablesCounted
        <4> QED
          BY <4>1, <4>2 DEF Pending
      <3>3. migrated[t] < starts /\ migrated[t] \in 0..MaxStarts
        BY <1>t, <2>2, <3>2 DEF MigratedInv
      <3>4. migrated[t] + 1 \in 0..MaxStarts
        BY <1>t, <1>n, <3>3
      <3>5. migrated' \in [LegacyTables -> 0..MaxStarts]
        BY <1>t, <2>2, <3>4
      <3> QED
        BY <1>8, <1>t, <2>1, <3>5 DEF MigrateLegacyTable
    <2>3. CASE UNCHANGED migrated
      BY <1>8, <1>t, <2>1, <2>3 DEF MigrateLegacyTable
    <2>4. \/ UNCHANGED migrated
          \/ ~(startReq.block > Len(LegacyOrder)) /\ t \in LegacyTables
             /\ migrated' = [migrated EXCEPT ![t] = migrated[t] + 1]
      BY <1>8 DEF MigrateLegacyTable
    <2>5. startReq.block \in Nat /\ Len(LegacyOrder) = 4
      <3>1. startReq.block \in Nat
        BY <1>t, StartLocalsType
      <3> QED
        BY <3>1, TablesCounted
    <2> QED
      BY <2>2, <2>3, <2>4, <2>5
  <1>9. CASE SetVersion
    <2>1. db' \in Layout
      BY <1>9, <1>t DEF SetVersion, Layout
    <2> QED
      BY <1>9, <1>t, <2>1, StartLocalsType DEF SetVersion, StartGoto, StartSteps
  <1>10. CASE ResetViews \/ StartInterrupted
    BY <1>10, <1>t, StartLocalsType DEF ResetViews, StartInterrupted, ExitWithError, StartGoto, StartSteps
  <1> QED
    BY <1>1, <1>2, <1>3, <1>4, <1>5, <1>6, <1>7, <1>8, <1>9, <1>10 DEF UpdateNext

\* The driver, and with it the list of blocks, stays the same.
LEMMA DriverStays ==
    ASSUME UpdateNext
    PROVE  driver' = driver /\ foundOld' = foundOld /\ Blocks' = Blocks
  <1>1. driver' = driver /\ foundOld' = foundOld
    BY DEF UpdateNext, CheckAndInitializeDatabase, BuildNewDatabase, CreateDefaultAdminIfNoStaff,
           CreateDefaultBoardIfNoneExist, AddFilterTable, CheckBlock, ExecStatement, ConvertBan,
           DropBanIP, MigrateLegacyTable, SetVersion, ResetViews, StartInterrupted
  <1> QED
    BY <1>1 DEF Blocks

\* What becomes of the counters of a start.
LEMMA StartLocalsSteps ==
    /\ NoStartLocals.block = 1 /\ [NoStartLocals EXCEPT !.block = 1].block = 1
    /\ \A q \in StartLocals :
          /\ [q EXCEPT !.block = q.block + 1].block = q.block + 1
          /\ [q EXCEPT !.stmt = q.stmt + 1].block = q.block
          /\ [q EXCEPT !.stmt = 1].block = q.block
          /\ [q EXCEPT !.rows = OldBans].block = q.block
          /\ \A ban : [q EXCEPT !.rows = q.rows \ {ban}].block = q.block
  <1>1. NoStartLocals.block = 1 /\ [NoStartLocals EXCEPT !.block = 1].block = 1
    BY DEF NoStartLocals
  <1>2. ASSUME NEW q \in StartLocals
        PROVE  /\ [q EXCEPT !.block = q.block + 1].block = q.block + 1
               /\ [q EXCEPT !.stmt = q.stmt + 1].block = q.block
               /\ [q EXCEPT !.stmt = 1].block = q.block
    BY DEF StartLocals
  <1>3. ASSUME NEW q \in StartLocals
        PROVE  [q EXCEPT !.rows = OldBans].block = q.block
    BY DEF StartLocals
  <1>4. ASSUME NEW q \in StartLocals, NEW ban
        PROVE  [q EXCEPT !.rows = q.rows \ {ban}].block = q.block
    BY DEF StartLocals
  <1> QED
    BY <1>1, <1>2, <1>3, <1>4

\* The update never leaves its list of blocks.
LEMMA CountersStep ==
    ASSUME UpdateTypeOK, CountersInv, UpdateNext
    PROVE  CountersInv'
  <1>t. startReq \in StartLocals /\ startReq.block \in Nat /\ startReq.block # 0
    BY StartLocalsType DEF UpdateTypeOK, CountersInv
  <1>d. Len(Blocks) \in 1..11
    BY BlocksListed, UpdateNumbers DEF UpdateTypeOK
  <1>b. Blocks' = Blocks
    BY DriverStays
  <1>1. CASE CheckAndInitializeDatabase
    <2>1. startReq'.block = 1
      BY <1>1, StartLocalsSteps DEF CheckAndInitializeDatabase
    <2>2. startPc' \notin {"stmt", "row", "dropIP"}
      BY <1>1 DEF CheckAndInitializeDatabase
    <2> QED
      BY <1>d, <1>b, <2>1, <2>2 DEF CountersInv
  <1>2. CASE UNCHANGED startReq /\ startPc' \notin {"filterTables", "block", "stmt", "row", "dropIP"}
    BY <1>t, <1>2 DEF CountersInv
  <1>3. CASE startReq'.block = 1 /\ startPc' \notin {"filterTables", "block", "stmt", "row", "dropIP"}
    BY <1>3 DEF CountersInv
  <1>4. CASE AddFilterTable
    <2>1. startReq'.block = 1 /\ startPc' \in {"filterTables", "block"}
      BY <1>4 DEF AddFilterTable, StartGoto, CountersInv
    <2> QED
      BY <1>d, <1>b, <2>1 DEF CountersInv
  <1>5. CASE CheckBlock
    <2>1. CASE startPc' = "legacy" /\ startReq' = [NoStartLocals EXCEPT !.block = 1]
      BY <2>1, <1>3, StartLocalsSteps
    <2>2. CASE startReq.block <= Len(Blocks) /\ startPc' = "stmt" /\ startReq' = [startReq EXCEPT !.stmt = 1]
      <3>1. startReq'.block = startReq.block
        BY <1>t, <2>2, StartLocalsSteps
      <3> QED
        BY <1>t, <1>b, <2>2, <3>1 DEF CountersInv
    <2>3. CASE /\ startReq.block <= Len(Blocks) /\ startPc' = "block"
               /\ startReq' = [startReq EXCEPT !.block = startReq.block + 1]
      <3>1. startReq'.block = startReq.block + 1
        BY <1>t, <2>3, StartLocalsSteps
      <3> QED
        BY <1>t, <1>d, <1>b, <2>3, <3>1 DEF CountersInv
    <2> QED
      BY <1>5, <2>1, <2>2, <2>3 DEF CheckBlock, StartGoto
  <1>6. CASE ExecStatement
    <2>0. startPc = "stmt" /\ startReq.block <= Len(Blocks)
      BY <1>6 DEF ExecStatement, CountersInv
    <2>1. CASE ExitWithError
      BY <2>1, <1>3, StartLocalsSteps DEF ExitWithError
    <2>2. CASE startReq' = [startReq EXCEPT !.stmt = startReq.stmt + 1] /\ startPc' = "stmt"
      <3>1. startReq'.block = startReq.block
        BY <1>t, <2>2, StartLocalsSteps
      <3> QED
        BY <1>t, <1>b, <2>0, <2>2, <3>1 DEF CountersInv
    <2>3. CASE startReq' = [startReq EXCEPT !.rows = OldBans] /\ startPc' = "row"
      <3>1. startReq'.block = startReq.block
        BY <1>t, <2>3, StartLocalsSteps
      <3> QED
        BY <1>t, <1>b, <2>0, <2>3, <3>1 DEF CountersInv
    <2>4. CASE startReq' = [startReq EXCEPT !.block = startReq.block + 1] /\ startPc' = "block"
      <3>1. startReq'.block = startReq.block + 1
        BY <1>t, <2>4, StartLocalsSteps
      <3> QED
        BY <1>t, <1>d, <1>b, <2>0, <2>4, <3>1 DEF CountersInv
    <2> QED
      BY <1>6, <2>0, <2>1, <2>2, <2>3, <2>4 DEF ExecStatement, StartGoto
  <1>7. CASE ConvertBan
    <2>0. startPc = "row" /\ startReq.block <= Len(Blocks)
      BY <1>7 DEF ConvertBan, CountersInv
    <2>1. CASE startReq' = [startReq EXCEPT !.block = startReq.block + 1] /\ startPc' = "block"
      <3>1. startReq'.block = startReq.block + 1
        BY <1>t, <2>1, StartLocalsSteps
      <3> QED
        BY <1>t, <1>d, <1>b, <2>0, <2>1, <3>1 DEF CountersInv
    <2>2. ASSUME NEW ban, startReq' = [startReq EXCEPT !.rows = startReq.rows \ {ban}], startPc' = "dropIP"
          PROVE  CountersInv'
      <3>1. startReq'.block = startReq.block
        BY <1>t, <2>2, StartLocalsSteps
      <3> QED
        BY <1>t, <1>b, <2>0, <2>2, <3>1 DEF CountersInv
    <2> QED
      BY <1>7, <2>1, <2>2 DEF ConvertBan, StartGoto
  <1>8. CASE DropBanIP
    <2>1. startPc = "dropIP" /\ startPc' = "row" /\ startReq' = startReq
      BY <1>8 DEF DropBanIP, StartGoto
    <2> QED
      BY <1>b, <2>1 DEF CountersInv
  <1>9. CASE MigrateLegacyTable
    <2>1. CASE UNCHANGED startReq \/ ExitWithError
      BY <1>2, <1>3, <1>9, <2>1, StartLocalsSteps DEF MigrateLegacyTable, ExitWithError, StartGoto
    <2>2. CASE startReq' = [startReq EXCEPT !.block = startReq.block + 1] /\ startPc' = "legacy"
      <3>1. startReq'.block = startReq.block + 1
        BY <1>t, <2>2, StartLocalsSteps
      <3> QED
        BY <1>t, <2>2, <3>1 DEF CountersInv
    <2> QED
      BY <1>9, <2>1, <2>2 DEF MigrateLegacyTable
  <1>10. CASE SetVersion \/ ResetViews \/ StartInterrupted
    <2>1. startPc' \notin {"filterTables", "block", "stmt", "row", "dropIP"}
      BY <1>10 DEF SetVersion, ResetViews, StartInterrupted, ExitWithError, StartGoto
    <2>2. startReq' = NoStartLocals \/ UNCHANGED startReq
      BY <1>10 DEF SetVersion, ResetViews, StartInterrupted, ExitWithError
    <2> QED
      BY <1>2, <1>3, <2>1, <2>2, StartLocalsSteps
  <1>11. CASE BuildNewDatabase \/ CreateDefaultAdminIfNoStaff \/ CreateDefaultBoardIfNoneExist
    BY <1>2, <1>11
       DEF BuildNewDatabase, CreateDefaultAdminIfNoStaff, CreateDefaultBoardIfNoneExist, StartGoto
  <1> QED
    BY <1>1, <1>4, <1>5, <1>6, <1>7, <1>8, <1>9, <1>10, <1>11 DEF UpdateNext

\* An alteration of an old layout leaves its version.
LEMMA AlteringKeepsVersion ==
    ASSUME UpdateTypeOK, CountersInv,
           AddFilterTable \/ CheckBlock \/ ExecStatement \/ ConvertBan \/ DropBanIP
    PROVE  /\ db'.version = db.version
           /\ startPc \in Altering /\ startPc' \in Altering \cup {"legacy", "down"}
           /\ startPc' = "legacy" => db' = db
  <1>t. db \in Layout /\ startReq \in StartLocals
    BY DEF UpdateTypeOK
  <1>1. CASE AddFilterTable
    BY <1>1, <1>t DEF AddFilterTable, StartGoto, Altering, Layout
  <1>2. CASE CheckBlock
    BY <1>2 DEF CheckBlock, StartGoto, Altering
  <1>3. CASE ExecStatement
    <2> DEFINE b == Blocks[startReq.block]
               st == Statements(b)[startReq.stmt]
    <2>1. startPc = "stmt" /\ startPc' \in {"stmt", "row", "block", "down"}
      BY <1>3 DEF ExecStatement, StartGoto, ExitWithError
    <2>2. UNCHANGED db \/ db' \in After(b, st)
      BY <1>3 DEF ExecStatement
    <2>3. startReq.block \in Nat /\ startReq.block # 0 /\ startReq.block <= Len(Blocks)
      BY <1>t, <2>1, StartLocalsType DEF CountersInv
    <2>4. driver \in {"mysql", "postgres", "sqlite3"}
      BY UpdateNumbers DEF UpdateTypeOK
    <2>5. b \in BlockNames
      BY <2>3, <2>4, BlocksListed
    <2>6. db'.version = db.version
      BY <1>t, <2>2, <2>5, StatementKeeps
    <2> QED
      BY <2>1, <2>6 DEF Altering
  <1>4. CASE ConvertBan
    <2>1. startPc = "row" /\ startPc' \in {"block", "dropIP"}
      BY <1>4 DEF ConvertBan, StartGoto
    <2>2. UNCHANGED db \/ \E ban : db' = [db EXCEPT !.ranged = db.ranged \cup {ban}]
      BY <1>4 DEF ConvertBan
    <2>3. db'.version = db.version
      BY <1>t, <2>2 DEF Layout
    <2> QED
      BY <2>1, <2>3 DEF Altering
  <1>5. CASE DropBanIP
    BY <1>5, <1>t DEF DropBanIP, StartGoto, Altering, Layout
  <1> QED
    BY <1>1, <1>2, <1>3, <1>4, <1>5

\* A new database is complete as soon as it has its version, an old one has it after the update.
LEMMA VersionStep ==
    ASSUME UpdateTypeOK, CountersInv, VersionInv, UpdateNext
    PROVE  VersionInv'
  <1>t. db \in Layout /\ foundOld \in BOOLEAN
    BY DEF UpdateTypeOK
  <1>f. foundOld' = foundOld
    BY DriverStays
  <1>1. CASE CheckAndInitializeDatabase
    <2>1. db' = db
      BY <1>1 DEF CheckAndInitializeDatabase
    <2>2. /\ startPc' = "install" => db.version = "clean"
          /\ startPc' = "views" => db.version = "current"
          /\ startPc' \in {"filterTables", "block"} => db.version = "old"
          /\ startPc' \in {"install", "views", "filterTables", "block", "down"}
      BY <1>1 DEF CheckAndInitializeDatabase
    <2>3. Complete' = Complete
      BY <2>1 DEF Complete, LayoutConverted
    <2> QED
      BY <1>f, <2>1, <2>2, <2>3 DEF VersionInv, Altering
  <1>2. CASE BuildNewDatabase
    <2>1. startPc = "install" /\ ~foundOld
      BY <1>2, <1>t DEF BuildNewDatabase, VersionInv
    <2>2. CASE db' = [db EXCEPT !.version = "norow"] /\ startPc' = startPc
      <3>1. db'.version = "norow"
        BY <1>t, <2>2 DEF Layout
      <3> QED
        BY <1>f, <2>1, <2>2, <3>1 DEF VersionInv, Altering
    <2>3. CASE db' = [Fresh("current") EXCEPT !.admin = FALSE, !.board = FALSE] /\ startPc' = "admin"
      <3>1. db'.version = "current"
        BY <2>3 DEF Fresh
      <3>2. Complete'
        BY <2>3 DEF Fresh, Complete, LayoutConverted
      <3> QED
        BY <1>f, <2>1, <2>3, <3>1, <3>2 DEF VersionInv, Altering
    <2> QED
      BY <1>2, <2>2, <2>3 DEF BuildNewDatabase, StartGoto
  <1>3. CASE CreateDefaultAdminIfNoStaff \/ CreateDefaultBoardIfNoneExist
    <2>1. startPc \in {"admin", "board"} /\ startPc' \in {"board", "views"}
      BY <1>3 DEF CreateDefaultAdminIfNoStaff, CreateDefaultBoardIfNoneExist, StartGoto
    <2>2. db.version = "current" /\ ~foundOld /\ Complete
      BY <1>t, <2>1 DEF VersionInv
    <2>3. db' = [db EXCEPT !.admin = TRUE] \/ db' = [db EXCEPT !.board = TRUE]
      BY <1>3 DEF CreateDefaultAdminIfNoStaff, CreateDefaultBoardIfNoneExist
    <2>4. db'.version = "current"
      BY <1>t, <2>2, <2>3 DEF Layout
    <2>5. Complete'
      BY <1>t, <2>2, <2>3 DEF Layout, Complete, LayoutConverted
    <2> QED
      BY <1>f, <2>1, <2>2, <2>4, <2>5 DEF VersionInv, Altering
  <1>4. CASE AddFilterTable \/ CheckBlock \/ ExecStatement \/ ConvertBan \/ DropBanIP
    <2>1. /\ db'.version = db.version
          /\ startPc \in Altering /\ startPc' \in Altering \cup {"legacy", "down"}
      BY <1>4, AlteringKeepsVersion
    <2>2. db.version = "old" /\ foundOld
      BY <2>1 DEF VersionInv
    <2> QED
      BY <1>f, <2>1, <2>2 DEF VersionInv, Altering
  <1>5. CASE MigrateLegacyTable
    <2>1. startPc = "legacy" /\ startPc' \in {"legacy", "version", "down"} /\ db' = db
      BY <1>5 DEF MigrateLegacyTable, StartGoto, ExitWithError
    <2>2. db.version = "old" /\ foundOld
      BY <2>1 DEF VersionInv
    <2> QED
      BY <1>f, <2>1, <2>2 DEF VersionInv, Altering
  <1>6. CASE SetVersion
    <2>1. startPc = "version" /\ startPc' = "views" /\ db' = [db EXCEPT !.version = "current"]
      BY <1>6 DEF SetVersion, StartGoto
    <2>2. foundOld
      BY <2>1 DEF VersionInv
    <2>3. db'.version = "current"
      BY <1>t, <2>1 DEF Layout
    <2> QED
      BY <1>f, <2>1, <2>2, <2>3 DEF VersionInv, Altering
  <1>7. CASE ResetViews \/ StartInterrupted
    <2>1. /\ db' = db /\ startPc' \in {"serving", "down"}
          /\ startPc' = "serving" => startPc = "views"
      BY <1>7 DEF ResetViews, StartInterrupted, StartGoto, ExitWithError
    <2>2. Complete' = Complete
      BY <2>1 DEF Complete, LayoutConverted
    <2> QED
      BY <1>f, <2>1, <2>2 DEF VersionInv, Altering
  <1> QED
    BY <1>1, <1>2, <1>3, <1>4, <1>5, <1>6, <1>7 DEF UpdateNext

\* The turn of the next legacy table: the tables still to come were to come before.
LEMMA NextTable ==
    ASSUME startPc = "legacy", startPc' = "legacy",
           startReq.block \in 1..Len(LegacyOrder), startReq'.block = startReq.block + 1
    PROVE  \A s : Pending(s)' => Pending(s) /\ s # LegacyOrder[startReq.block]
  <1>1. SUFFICES ASSUME NEW s, Pending(s)'
                 PROVE  Pending(s) /\ s # LegacyOrder[startReq.block]
    OBVIOUS
  <1>2. PICK i \in 1..Len(LegacyOrder) : startReq'.block <= i /\ LegacyOrder[i] = s
    BY <1>1 DEF Pending, Altering
  <1>3. i \in 1..4 /\ startReq.block \in 1..4
    BY TablesCounted
  <1>4. startReq.block < i
    BY <1>2, <1>3
  <1>5. LegacyOrder[i] # LegacyOrder[startReq.block]
    BY <1>3, <1>4, TablesCounted
  <1>6. startReq.block <= i
    BY <1>3, <1>4
  <1> QED
    BY <1>2, <1>5, <1>6 DEF Pending

\* A start makes the rows of every legacy table into filters before it writes the version.
LEMMA MigratedStep ==
    ASSUME UpdateTypeOK, CountersInv, VersionInv, MigratedInv, UpdateNext
    PROVE  MigratedInv'
  <1>t. /\ db \in Layout /\ foundOld \in BOOLEAN /\ startReq \in StartLocals
        /\ migrated \in [LegacyTables -> 0..MaxStarts] /\ starts \in 0..MaxStarts
    BY DEF UpdateTypeOK
  <1>n. /\ startReq.block \in Nat /\ startReq.block # 0 /\ starts \in Nat /\ MaxStarts \in Nat
        /\ \A t \in LegacyTables : migrated[t] \in Nat
    <2>1. startReq.block \in Nat /\ startReq.block # 0
      BY <1>t, StartLocalsType DEF CountersInv
    <2>2. MaxStarts \in Nat
      BY UpdateNumbers
    <2> QED
      BY <1>t, <2>1, <2>2
  <1>f. foundOld' = foundOld
    BY DriverStays
  <1>1. CASE CheckAndInitializeDatabase
    <2>1. db' = db /\ migrated' = migrated /\ starts' = starts + 1
      BY <1>1 DEF CheckAndInitializeDatabase
    <2>2. startPc' \in {"install", "views", "filterTables", "block", "down"}
      BY <1>1 DEF CheckAndInitializeDatabase
    <2>3. startPc' = "filterTables" => db.filterTables = 0
      BY <1>1 DEF CheckAndInitializeDatabase
    <2>4. \A t \in LegacyTables : migrated'[t] <= starts' /\ migrated'[t] < starts'
      BY <1>n, <2>1 DEF MigratedInv
    <2> QED
      BY <1>f, <2>1, <2>2, <2>3, <2>4, TablesCounted DEF MigratedInv
  <1>2. CASE BuildNewDatabase \/ CreateDefaultAdminIfNoStaff \/ CreateDefaultBoardIfNoneExist
    <2>1. ~foundOld /\ migrated' = migrated /\ starts' = starts
      BY <1>2, <1>t DEF VersionInv, BuildNewDatabase, CreateDefaultAdminIfNoStaff, CreateDefaultBoardIfNoneExist
    <2>2. startPc' \in {"install", "admin", "board", "views"}
      BY <1>2 DEF BuildNewDatabase, CreateDefaultAdminIfNoStaff, CreateDefaultBoardIfNoneExist, StartGoto
    <2>3. \A t : ~Pending(t)'
      BY <2>2 DEF Pending, Altering
    <2> QED
      BY <1>f, <2>1, <2>2, <2>3 DEF MigratedInv
  <1>3. CASE AddFilterTable \/ CheckBlock \/ ExecStatement \/ ConvertBan \/ DropBanIP
    <2>1. /\ db'.version = db.version
          /\ startPc \in Altering /\ startPc' \in Altering \cup {"legacy", "down"}
      BY <1>3, AlteringKeepsVersion
    <2>2. db.version = "old"
      BY <2>1 DEF VersionInv
    <2>3. migrated' = migrated /\ starts' = starts
      BY <1>3 DEF AddFilterTable, CheckBlock, ExecStatement, ConvertBan, DropBanIP
    <2>4. \A t : Pending(t)
      BY <2>1 DEF Pending
    <2>5. startPc' = "legacy" => startReq'.block = 1
      <3>1. CASE CheckBlock
        BY <3>1, StartLocalsSteps DEF CheckBlock, StartGoto
      <3>2. CASE AddFilterTable \/ ExecStatement \/ ConvertBan \/ DropBanIP
        BY <3>2 DEF AddFilterTable, ExecStatement, ConvertBan, DropBanIP, StartGoto, ExitWithError
      <3> QED
        BY <1>3, <3>1, <3>2
    <2>6. startPc' = "filterTables" => db'.filterTables < Len(FilterTables)
      <3>1. CASE AddFilterTable
        <4>1. db.filterTables \in 0..4 /\ db.filterTables < 4
          BY <1>t, <3>1, TablesCounted DEF AddFilterTable, MigratedInv, Layout
        <4>2. db'.filterTables = db.filterTables + 1
          BY <1>t, <3>1 DEF AddFilterTable, Layout
        <4>3. startPc' = "filterTables" => db.filterTables + 1 # 4
          BY <3>1, TablesCounted DEF AddFilterTable, StartGoto
        <4> QED
          BY <4>1, <4>2, <4>3, TablesCounted
      <3>2. CASE CheckBlock \/ ExecStatement \/ ConvertBan \/ DropBanIP
        BY <3>2 DEF CheckBlock, ExecStatement, ConvertBan, DropBanIP, StartGoto, ExitWithError
      <3> QED
        BY <1>3, <3>1, <3>2
    <2>7. startPc' # "version" /\ db'.version # "current"
      BY <2>1, <2>2 DEF Altering
    <2>8. \A t \in LegacyTables : migrated'[t] <= starts' /\ migrated'[t] < starts'
      BY <2>3, <2>4 DEF MigratedInv
    <2>9. startPc' = "legacy" => \A i \in 1..Len(LegacyOrder) : ~(i < startReq'.block)
      BY <2>5, TablesCounted
    <2> QED
      BY <2>6, <2>7, <2>8, <2>9 DEF MigratedInv
  <1>4. CASE MigrateLegacyTable
    <2> DEFINE t == LegacyOrder[startReq.block]
    <2>0. startPc = "legacy" /\ db' = db /\ starts' = starts /\ db.version = "old"
      BY <1>4 DEF MigrateLegacyTable, VersionInv
    <2>1. CASE startReq.block > Len(LegacyOrder) /\ startPc' = "version" /\ UNCHANGED <<startReq, migrated>>
      <3>1. \A s : ~Pending(s)'
        BY <2>1 DEF Pending, Altering
      <3>2. \A i \in 1..Len(LegacyOrder) : i < startReq.block
        BY <1>n, <2>1, TablesCounted
      <3>3. \A i \in 1..Len(LegacyOrder) : LegacyOrder[i] \in LegacyTables => migrated[LegacyOrder[i]] > 0
        BY <2>0, <3>2 DEF MigratedInv
      <3>4. LegacyTables \subseteq {"file_ban", "filename_ban", "username_ban", "wordfilters"}
        BY UpdateAssumption
      <3>5. \A s \in LegacyTables : \E i \in 1..Len(LegacyOrder) : LegacyOrder[i] = s
        <4>1. 1 \in 1..4 /\ 2 \in 1..4 /\ 3 \in 1..4 /\ 4 \in 1..4
          OBVIOUS
        <4> QED
          BY <3>4, <4>1, TablesCounted
      <3>6. \A s \in LegacyTables : migrated[s] > 0
        BY <3>3, <3>5
      <3> QED
        BY <2>0, <2>1, <3>1, <3>6 DEF MigratedInv
    <2>2. CASE ExitWithError /\ UNCHANGED migrated
      <3>1. \A s : ~Pending(s)'
        BY <2>2 DEF Pending, Altering, ExitWithError
      <3> QED
        BY <2>0, <2>2, <3>1 DEF MigratedInv, ExitWithError
    <2>3. CASE /\ startReq.block <= Len(LegacyOrder) /\ startPc' = "legacy"
               /\ startReq' = [startReq EXCEPT !.block = startReq.block + 1]
               /\ \/ t \notin LegacyTables /\ UNCHANGED migrated
                  \/ t \in LegacyTables /\ migrated' = [migrated EXCEPT ![t] = migrated[t] + 1]
      <3>1. startReq'.block = startReq.block + 1
        BY <1>t, <2>3, StartLocalsSteps
      <3>2. startReq.block \in 1..Len(LegacyOrder)
        <4>1. startReq.block <= Len(LegacyOrder)
          BY <2>3
        <4> QED
          BY <1>n, <4>1, TablesCounted
      <3>3. Pending(t)
        <4>1. startReq.block <= startReq.block
          BY <1>n
        <4> QED
          BY <2>0, <3>2, <4>1 DEF Pending
      <3>4. \A s : Pending(s)' => Pending(s) /\ s # t
        BY <2>0, <2>3, <3>1, <3>2, NextTable
      <3>5. \A s \in LegacyTables : s # t => migrated'[s] = migrated[s]
        BY <1>t, <2>3
      <3>6. t \in LegacyTables => migrated'[t] = migrated[t] + 1 /\ migrated[t] < starts
        BY <1>t, <2>3, <3>3 DEF MigratedInv
      <3>7. \A s \in LegacyTables : migrated'[s] <= starts'
        BY <1>n, <2>0, <3>5, <3>6 DEF MigratedInv
      <3>8. \A s \in LegacyTables : Pending(s)' => migrated'[s] < starts'
        BY <2>0, <3>4, <3>5 DEF MigratedInv
      <3>9. ASSUME NEW i \in 1..Len(LegacyOrder), i < startReq'.block, LegacyOrder[i] \in LegacyTables
            PROVE  migrated'[LegacyOrder[i]] > 0
        <4>1. CASE LegacyOrder[i] = t
          BY <1>n, <3>6, <3>9, <4>1
        <4>2. CASE LegacyOrder[i] # t
          <5>1. i # startReq.block /\ i \in 1..4
            BY <4>2, TablesCounted
          <5>2. i < startReq.block
            BY <1>n, <3>1, <3>9, <5>1
          <5>3. migrated[LegacyOrder[i]] > 0
            BY <2>0, <3>9, <5>2 DEF MigratedInv
          <5> QED
            BY <3>5, <3>9, <4>2, <5>3
        <4> QED
          BY <4>1, <4>2
      <3> QED
        BY <2>0, <2>3, <3>7, <3>8, <3>9 DEF MigratedInv
    <2>4. \/ startReq.block > Len(LegacyOrder) /\ startPc' = "version" /\ UNCHANGED <<startReq, migrated>>
          \/ ExitWithError /\ UNCHANGED migrated
          \/ /\ ~(startReq.block > Len(LegacyOrder)) /\ startPc' = "legacy"
             /\ startReq' = [startReq EXCEPT !.block = startReq.block + 1]
             /\ \/ t \notin LegacyTables /\ UNCHANGED migrated
                \/ t \in LegacyTables /\ migrated' = [migrated EXCEPT ![t] = migrated[t] + 1]
      BY <1>4 DEF MigrateLegacyTable, StartGoto
    <2>5. ~(startReq.block > Len(LegacyOrder)) => startReq.block <= Len(LegacyOrder)
      BY <1>n, TablesCounted
    <2> QED
      BY <2>1, <2>2, <2>3, <2>4, <2>5
  <1>5. CASE SetVersion
    <2>1. startPc = "version" /\ startPc' = "views" /\ migrated' = migrated /\ starts' = starts
      BY <1>5 DEF SetVersion, StartGoto
    <2>2. \A t : ~Pending(t)'
      BY <2>1 DEF Pending, Altering
    <2>3. foundOld => \A t \in LegacyTables : migrated[t] > 0
      BY <2>1 DEF MigratedInv
    <2> QED
      BY <1>f, <2>1, <2>2, <2>3 DEF MigratedInv
  <1>6. CASE ResetViews \/ StartInterrupted
    <2>1. db' = db /\ startPc' \in {"serving", "down"} /\ migrated' = migrated /\ starts' = starts
      BY <1>6 DEF ResetViews, StartInterrupted, StartGoto, ExitWithError
    <2>2. \A t : ~Pending(t)'
      BY <2>1 DEF Pending, Altering
    <2> QED
      BY <1>f, <2>1, <2>2 DEF MigratedInv
  <1> QED
    BY <1>1, <1>2, <1>3, <1>4, <1>5, <1>6 DEF UpdateNext

\* The effect of a statement of block b on the layout.
ChangesOnly(b) ==
    /\ db'.missing = IF b \in Columns THEN db.missing \ {b} ELSE db.missing
    /\ b # "cyclic" => db'.cyclic = db.cyclic
    /\ \A t \in {"posts", "reports"} : t # b => db'.conv[t] = db.conv[t]
    /\ b # "ip_ban" => /\ db'.banTable = db.banTable /\ db'.banIP = db.banIP
                       /\ db'.range = db.range /\ db'.ranged = db.ranged

\* The other blocks find what they would have found, and what they converted stays converted.
LEMMA OtherBlocks ==
    ASSUME NEW b \in BlockNames, NEW c \in BlockNames, b # c, driver' = driver, ChangesOnly(b)
    PROVE  (Found(c) => Found(c)') /\ (Converted(c) => Converted(c)')
  <1>1. CASE c \in {"posts", "reports"}
    <2>1. c \notin Columns /\ db'.conv[c] = db.conv[c]
      BY <1>1 DEF ChangesOnly, Columns, PostColumns
    <2> QED
      BY <1>1, <2>1 DEF Found, Converted
  <1>2. CASE c = "ip_ban"
    <2>1. /\ db'.banTable = db.banTable /\ db'.banIP = db.banIP
          /\ db'.range = db.range /\ db'.ranged = db.ranged
      BY <1>2 DEF ChangesOnly
    <2> QED
      BY <1>2, <2>1 DEF Found, Converted, Columns, PostColumns
  <1>3. CASE c = "cyclic"
    <2>1. db'.cyclic = db.cyclic
      BY <1>3 DEF ChangesOnly
    <2> QED
      BY <1>3, <2>1 DEF Found, Converted, Columns, PostColumns
  <1>4. CASE c \in Columns
    <2>1. c \notin {"posts", "reports", "ip_ban", "cyclic"}
      BY <1>4 DEF Columns, PostColumns
    <2>2. c \notin db.missing => c \notin db'.missing
      BY DEF ChangesOnly
    <2> QED
      BY <1>4, <2>1, <2>2 DEF Found, Converted
  <1>5. CASE c \in {"collation", "foreign_keys"}
    BY <1>5 DEF Found, Converted, Columns, PostColumns
  <1> QED
    BY <1>1, <1>2, <1>3, <1>4, <1>5 DEF BlockNames

\* A block that is not needed finds its part of the layout converted.
LEMMA UnneededIsConverted ==
    ASSUME db \in Layout, driver \in {"mysql", "postgres", "sqlite3"},
           NEW b \in BlockNames, Found(b), ~Needed(b)
    PROVE  Converted(b)
  <1>1. CASE b \in {"posts", "reports"}
    <2>1. b \notin Columns
      BY <1>1 DEF Columns, PostColumns
    <2> QED
      BY <1>1, <2>1 DEF Found, Converted, Needed
  <1>2. CASE b = "ip_ban"
    <2>1. b \notin Columns
      BY <1>2 DEF Columns, PostColumns
    <2>2. db.banTable /\ (db.banIP <=> db.range = "none") /\ (db.range = "string" => driver = "sqlite3")
          /\ (db.range # "none" => db.ranged = OldBans)
      BY <1>2 DEF Found
    <2>3. IF driver = "sqlite3" THEN db.banTable /\ db.range = "binary" ELSE ~db.banIP
      BY <1>2, <2>1 DEF Needed
    <2>4. db.range \in {"none", "string", "binary"} /\ db.banIP \in BOOLEAN
      BY DEF Layout
    <2>5. db.range = "binary"
      BY <2>2, <2>3, <2>4
    <2> QED
      BY <1>2, <2>1, <2>2, <2>5 DEF Converted
  <1>3. CASE b = "cyclic"
    <2>1. b \notin Columns
      BY <1>3 DEF Columns, PostColumns
    <2>2. db.cyclic \in {"none", "cyclical", "cyclic"}
      BY DEF Layout
    <2>3. db.cyclic = "none" => driver = "mysql"
      BY <1>3 DEF Found
    <2>4. ~(IF driver = "sqlite3" THEN db.cyclic = "cyclical" ELSE db.cyclic # "cyclic")
      BY <1>3, <2>1 DEF Needed
    <2> QED
      BY <1>3, <2>1, <2>2, <2>3, <2>4 DEF Converted
  <1>4. CASE b \in Columns
    BY <1>4 DEF Converted, Needed, Columns, PostColumns
  <1>5. CASE b \in {"collation", "foreign_keys"}
    BY <1>5 DEF Converted, Columns, PostColumns
  <1> QED
    BY <1>1, <1>2, <1>3, <1>4, <1>5 DEF BlockNames

\* A block that is needed finds what its first statement expects.
LEMMA FirstStatement ==
    ASSUME driver \in {"mysql", "postgres", "sqlite3"}, NEW b \in BlockNames, Found(b), Needed(b)
    PROVE  Len(Statements(b)) \in 1..5 /\ UnderWay(b, Statements(b)[1])
  <1>1. CASE b \in {"posts", "reports"}
    <2>1. db.conv[b] = "string"
      BY <1>1 DEF Needed, Columns, PostColumns
    <2>2. /\ Len(Statements(b)) \in 1..5
          /\ Statements(b)[1] \in {"rename", "refused", "toTemp"}
      <3>1. CASE driver = "mysql"
        BY <1>1, <3>1 DEF Statements
      <3>2. CASE driver = "postgres"
        BY <1>1, <3>2 DEF Statements
      <3>3. CASE driver = "sqlite3"
        BY <1>1, <3>3 DEF Statements, ViaTemporaryTable
      <3> QED
        BY <3>1, <3>2, <3>3
    <2>3. ConversionFound(b, Statements(b)[1])
      BY <2>1, <2>2 DEF ConversionFound
    <2> QED
      BY <1>1, <2>2, <2>3 DEF UnderWay
  <1>2. CASE b = "ip_ban"
    <2>1. db.banTable
      BY <1>2 DEF Found
    <2>2. /\ Len(Statements(b)) \in 1..5
          /\ Statements(b)[1] \in {"addRange", "toTemp"}
      <3>1. CASE driver = "mysql"
        BY <1>2, <3>1 DEF Statements
      <3>2. CASE driver = "postgres"
        BY <1>2, <3>2 DEF Statements
      <3>3. CASE driver = "sqlite3"
        BY <1>2, <3>3 DEF Statements, ViaTemporaryTable
      <3> QED
        BY <3>1, <3>2, <3>3
    <2>3. BansFound(Statements(b)[1])
      BY <2>1, <2>2 DEF BansFound
    <2> QED
      BY <1>2, <2>2, <2>3 DEF UnderWay
  <1>3. CASE b \notin {"posts", "reports", "ip_ban"}
    <2>1. Statements(b) = <<"alter">>
      BY <1>3 DEF Statements
    <2>2. Len(Statements(b)) \in 1..5
      BY <2>1
    <2> QED
      BY <1>3, <2>2 DEF UnderWay
  <1> QED
    BY <1>1, <1>2, <1>3

\* What the statements of a conversion leave.
LEMMA ConversionStatement ==
    ASSUME db \in Layout, NEW b \in {"posts", "reports"}, NEW st, ConversionFound(b, st),
           db' \in AfterConversion(b, st)
    PROVE  /\ st # "refused"
           /\ st = "rename" => db'.conv[b] = "renamed"
           /\ st = "add" => db'.conv[b] = "added"
           /\ st = "copy" => db'.conv[b] = "copied"
           /\ st \in {"dropStr", "createTable", "dropTemp"} => db'.conv[b] = "binary"
  <1>1. db.conv \in [{"posts", "reports"} -> Conversions]
    BY DEF Layout
  <1>2. ASSUME NEW c, db' = [db EXCEPT !.conv[b] = c]
        PROVE  db'.conv[b] = c
    <2>1. db' = [db EXCEPT !.conv = [db.conv EXCEPT ![b] = c]]
      BY <1>2
    <2>2. db'.conv = [db.conv EXCEPT ![b] = c]
      BY <2>1 DEF Layout
    <2> QED
      BY <1>1, <2>2
  <1>3. st # "refused"
    BY DEF AfterConversion
  <1>4. st = "rename" => db' = [db EXCEPT !.conv[b] = "renamed"]
    BY DEF AfterConversion
  <1>5. st = "add" => db' = [db EXCEPT !.conv[b] = "added"]
    BY DEF AfterConversion
  <1>6. st = "copy" => db' = [db EXCEPT !.conv[b] = "copied"]
    BY DEF AfterConversion
  <1>7. st \in {"dropStr", "createTable"} => db' = [db EXCEPT !.conv[b] = "binary"]
    BY DEF AfterConversion
  <1>8. st = "dropTemp" => db' = db /\ db.conv[b] = "binary"
    BY DEF AfterConversion, ConversionFound
  <1> QED
    BY <1>2, <1>3, <1>4, <1>5, <1>6, <1>7, <1>8

\* What the statements for the bans leave.
LEMMA BanStatement ==
    ASSUME db \in Layout, NEW st, BansFound(st), db' \in AfterBanStatement(st)
    PROVE  /\ st = "addRange" => db'.banTable /\ db'.range = "binary"
           /\ st = "setRanges" => db'.banTable /\ db'.range = "binary" /\ db'.ranged = OldBans
           /\ st \in {"dropIP", "createTable", "dropTemp"} =>
                 db'.banTable /\ db'.range = "binary" /\ db'.ranged = OldBans
  <1>1. CASE st = "addRange"
    <2>1. db' = [db EXCEPT !.range = "binary"] /\ db.banTable
      BY <1>1 DEF AfterBanStatement, BansFound
    <2> QED
      BY <1>1, <2>1 DEF Layout
  <1>2. CASE st = "setRanges"
    <2>1. db' = [db EXCEPT !.ranged = OldBans] /\ db.banTable /\ db.range = "binary"
      BY <1>2 DEF AfterBanStatement, BansFound
    <2> QED
      BY <1>2, <2>1 DEF Layout
  <1>3. CASE st \in {"dropIP", "dropTemp"}
    <2>1. db.banTable /\ db.range = "binary" /\ db.ranged = OldBans
      BY <1>3 DEF BansFound, Converted, Columns, PostColumns
    <2>2. db' = [db EXCEPT !.banIP = FALSE] \/ db' = db
      BY <1>3 DEF AfterBanStatement
    <2>3. db'.banTable = db.banTable /\ db'.range = db.range /\ db'.ranged = db.ranged
      BY <2>2 DEF Layout
    <2> QED
      BY <1>3, <2>1, <2>3
  <1>4. CASE st = "createTable"
    <2>1. db' = [db EXCEPT !.banTable = TRUE, !.range = "binary", !.banIP = FALSE, !.ranged = OldBans]
      BY <1>4 DEF AfterBanStatement
    <2> QED
      BY <1>4, <2>1 DEF Layout
  <1> QED
    BY <1>1, <1>2, <1>3, <1>4

\* A statement that succeeds leaves what the next one expects, the last one what the block is for;
\* the rows of ip_ban follow in MySQL.
LEMMA StatementMoves ==
    ASSUME db \in Layout, driver \in {"mysql", "postgres", "sqlite3"},
           NEW b \in BlockNames, NEW k \in 1..Len(Statements(b)),
           UnderWay(b, Statements(b)[k]), db' \in After(b, Statements(b)[k])
    PROVE  /\ k < Len(Statements(b)) => \A next : next = Statements(b)[k + 1] => UnderWay(b, next)'
           /\ k = Len(Statements(b)) => IF b = "ip_ban" /\ driver = "mysql"
                                        THEN db'.banTable /\ db'.range = "binary"
                                        ELSE Converted(b)'
  <1> DEFINE st == Statements(b)[k]
             next == Statements(b)[k + 1]
             last == Len(Statements(b))
  <1>1. CASE b \in {"posts", "reports"}
    <2>1. ConversionFound(b, st) /\ db' \in AfterConversion(b, st)
      BY <1>1 DEF UnderWay, After, Columns, PostColumns
    <2>2. /\ st # "refused"
          /\ st = "rename" => db'.conv[b] = "renamed"
          /\ st = "add" => db'.conv[b] = "added"
          /\ st = "copy" => db'.conv[b] = "copied"
          /\ st \in {"dropStr", "createTable", "dropTemp"} => db'.conv[b] = "binary"
      BY <1>1, <2>1, ConversionStatement
    <2>3. /\ k < last => \/ next \in {"refused", "convertTemp", "dropTable", "createTable"}
                         \/ st = "rename" /\ next = "add"
                         \/ st = "add" /\ next = "copy"
                         \/ st = "copy" /\ next = "dropStr"
                         \/ st = "createTable" /\ next = "dropTemp"
          /\ k = last => st \in {"refused", "dropStr", "dropTemp"}
      <3>1. CASE driver = "mysql"
        <4>1. Statements(b) = <<"rename", "add", "copy", "dropStr">>
          BY <1>1, <3>1 DEF Statements
        <4>2. Len(Statements(b)) = 4
          BY <4>1
        <4>3. k \in 1..4
          BY <4>2
        <4> QED
          BY <4>1, <4>2, <4>3
      <3>2. CASE driver = "postgres" /\ b = "posts"
        <4>1. Statements(b) = <<"rename", "add", "refused">>
          BY <3>2 DEF Statements
        <4>2. Len(Statements(b)) = 3
          BY <4>1
        <4>3. k \in 1..3
          BY <4>2
        <4> QED
          BY <4>1, <4>2, <4>3
      <3>3. CASE driver = "postgres" /\ b = "reports"
        <4>1. Statements(b) = <<"refused">>
          BY <3>3 DEF Statements
        <4>2. Len(Statements(b)) = 1
          BY <4>1
        <4>3. k = 1
          BY <4>2
        <4> QED
          BY <4>1, <4>2, <4>3
      <3>4. CASE driver = "sqlite3"
        <4>1. Statements(b) = <<"toTemp", "convertTemp", "dropTable", "createTable", "dropTemp">>
          BY <1>1, <3>4 DEF Statements, ViaTemporaryTable
        <4>2. Len(Statements(b)) = 5
          BY <4>1
        <4>3. k \in 1..5
          BY <4>2
        <4> QED
          BY <4>1, <4>2, <4>3
      <3> QED
        BY <1>1, <3>1, <3>2, <3>3, <3>4
    <2>4. ASSUME NEW n, n = next, k < last
          PROVE  UnderWay(b, n)'
      <3>1. ConversionFound(b, n)'
        BY <2>2, <2>3, <2>4 DEF ConversionFound
      <3> QED
        BY <1>1, <3>1 DEF UnderWay
    <2>5. k = last => Converted(b)'
      BY <1>1, <2>2, <2>3 DEF Converted, Columns, PostColumns
    <2>6. b # "ip_ban"
      BY <1>1
    <2> QED
      BY <2>4, <2>5, <2>6
  <1>2. CASE b = "ip_ban"
    <2>1. BansFound(st) /\ db' \in AfterBanStatement(st)
      BY <1>2 DEF UnderWay, After, Columns, PostColumns
    <2>2. /\ st = "addRange" => db'.banTable /\ db'.range = "binary"
          /\ st = "setRanges" => db'.banTable /\ db'.range = "binary" /\ db'.ranged = OldBans
          /\ st \in {"dropIP", "createTable", "dropTemp"} =>
                db'.banTable /\ db'.range = "binary" /\ db'.ranged = OldBans
      BY <2>1, BanStatement
    <2>3. /\ k < last => \/ next \in {"convertTemp", "dropTable", "createTable"}
                         \/ st = "addRange" /\ next = "setRanges"
                         \/ st = "setRanges" /\ next = "dropIP"
                         \/ st = "createTable" /\ next = "dropTemp"
          /\ k = last => IF driver = "mysql" THEN st = "addRange" ELSE st \in {"dropIP", "dropTemp"}
      <3>1. CASE driver = "mysql"
        <4>1. Statements(b) = <<"addRange">>
          BY <1>2, <3>1 DEF Statements
        <4>2. Len(Statements(b)) = 1
          BY <4>1
        <4>3. k = 1
          BY <4>2
        <4> QED
          BY <3>1, <4>1, <4>2, <4>3
      <3>2. CASE driver = "postgres"
        <4>1. Statements(b) = <<"addRange", "setRanges", "dropIP">>
          BY <1>2, <3>2 DEF Statements
        <4>2. Len(Statements(b)) = 3
          BY <4>1
        <4>3. k \in 1..3
          BY <4>2
        <4> QED
          BY <3>2, <4>1, <4>2, <4>3
      <3>3. CASE driver = "sqlite3"
        <4>1. Statements(b) = <<"toTemp", "convertTemp", "dropTable", "createTable", "dropTemp">>
          BY <1>2, <3>3 DEF Statements, ViaTemporaryTable
        <4>2. Len(Statements(b)) = 5
          BY <4>1
        <4>3. k \in 1..5
          BY <4>2
        <4> QED
          BY <3>3, <4>1, <4>2, <4>3
      <3> QED
        BY <3>1, <3>2, <3>3
    <2>4. ASSUME NEW n, n = next, k < last
          PROVE  UnderWay(b, n)'
      <3>1. BansFound(n)'
        BY <2>2, <2>3, <2>4 DEF BansFound, Converted, Columns, PostColumns
      <3> QED
        BY <1>2, <3>1 DEF UnderWay
    <2>5. k = last => IF driver = "mysql" THEN db'.banTable /\ db'.range = "binary" ELSE Converted(b)'
      BY <1>2, <2>2, <2>3 DEF Converted, Columns, PostColumns
    <2> QED
      BY <1>2, <2>4, <2>5
  <1>3. CASE b \notin {"posts", "reports", "ip_ban"}
    <2>1. Len(Statements(b)) = 1 /\ st = "alter"
      <3>1. Statements(b) = <<"alter">>
        BY <1>3 DEF Statements
      <3>2. Len(Statements(b)) = 1
        BY <3>1
      <3>3. k = 1
        BY <3>2
      <3> QED
        BY <3>1, <3>2, <3>3
    <2>2. Converted(b)'
      <3>1. CASE b \in Columns
        <4>1. b \notin {"posts", "reports", "ip_ban", "cyclic"}
          BY <3>1 DEF Columns, PostColumns
        <4>2. db' = [db EXCEPT !.missing = db.missing \ {b}]
          BY <3>1, <4>1 DEF After, PostColumns
        <4>3. b \notin db'.missing
          BY <4>2 DEF Layout
        <4> QED
          BY <3>1, <4>1, <4>3 DEF Converted
      <3>2. CASE b = "cyclic"
        <4>1. db' = [db EXCEPT !.cyclic = "cyclic"]
          BY <3>2 DEF After, Columns, PostColumns
        <4>2. db'.cyclic = "cyclic"
          BY <4>1 DEF Layout
        <4> QED
          BY <3>2, <4>2 DEF Converted, Columns, PostColumns
      <3>3. CASE b \in {"collation", "foreign_keys"}
        BY <3>3 DEF Converted, Columns, PostColumns
      <3> QED
        BY <1>3, <3>1, <3>2, <3>3 DEF BlockNames
    <2>3. ~(k < last)
      BY <2>1
    <2> QED
      BY <1>3, <2>2, <2>3
  <1> QED
    BY <1>1, <1>2, <1>3

\* When every block is done the layout is the one of this release.
LEMMA AllConvertedIsComplete ==
    ASSUME driver \in {"mysql", "postgres", "sqlite3"}, db \in Layout,
           \A i \in 1..Len(Blocks) : Converted(Blocks[i]),
           \A c \in db.missing : \E i \in 1..Len(Blocks) : Blocks[i] = c,
           db.filterTables = Len(FilterTables)
    PROVE  LayoutConverted
  <1>1. \A b \in {"posts", "reports", "ip_ban", "cyclic"} : Converted(b)
    BY BlocksListed
  <1>2. \A c \in db.missing : Converted(c) /\ c \in Columns
    BY DEF Layout
  <1>3. db.missing = {}
    BY <1>2 DEF Converted, Columns, PostColumns
  <1>4. \A t \in {"posts", "reports"} : db.conv[t] = "binary"
    <2>1. \A t \in {"posts", "reports"} : t \notin Columns
      BY DEF Columns, PostColumns
    <2> QED
      BY <1>1, <2>1 DEF Converted
  <1>5. db.banTable /\ db.range = "binary" /\ db.ranged = OldBans
    BY <1>1 DEF Converted, Columns, PostColumns
  <1>6. db.cyclic = "cyclic"
    BY <1>1 DEF Converted, Columns, PostColumns
  <1> QED
    BY <1>3, <1>4, <1>5, <1>6 DEF LayoutConverted

\* A step of the blocks: the layout changes in one of them at most.
LEMMA BlocksAdvance ==
    ASSUME UpdateTypeOK, CountersInv, driver' = driver, Blocks' = Blocks, BlocksInv,
           startReq.block <= Len(Blocks), ChangesOnly(Blocks[startReq.block])
    PROVE  /\ \A i \in 1..Len(Blocks) : i < startReq.block => Converted(Blocks[i])'
           /\ \A i \in 1..Len(Blocks) : i > startReq.block => Found(Blocks[i])'
  <1> DEFINE n == startReq.block
  <1>1. driver \in {"mysql", "postgres", "sqlite3"}
    BY UpdateNumbers DEF UpdateTypeOK
  <1>2. n \in Nat /\ n # 0
    BY StartLocalsType DEF UpdateTypeOK, CountersInv
  <1>3. n \in 1..Len(Blocks)
    BY <1>1, <1>2, BlocksListed
  <1>4. \A i \in 1..Len(Blocks) : i # n => Blocks[i] # Blocks[n] /\ Blocks[i] \in BlockNames
    BY <1>1, <1>3, BlocksListed
  <1>5. Blocks[n] \in BlockNames
    BY <1>1, <1>3, BlocksListed
  <1>6. ASSUME NEW c \in BlockNames, c # Blocks[n]
        PROVE  (Found(c) => Found(c)') /\ (Converted(c) => Converted(c)')
    BY <1>5, <1>6, OtherBlocks
  <1>7. ASSUME NEW i \in 1..Len(Blocks), i < n
        PROVE  Converted(Blocks[i])'
    <2>1. i # n
      BY <1>2, <1>7
    <2>2. PICK c \in BlockNames : c = Blocks[i] /\ c # Blocks[n]
      BY <1>4, <2>1
    <2>3. Converted(c)
      BY <1>7, <2>2 DEF BlocksInv
    <2>4. Converted(c)'
      BY <1>6, <2>2, <2>3
    <2>5. Blocks[i]' = c
      BY <2>2
    <2> QED
      BY <2>4, <2>5 DEF Converted
  <1>8. ASSUME NEW i \in 1..Len(Blocks), i > n
        PROVE  Found(Blocks[i])'
    <2>1. i # n
      BY <1>2, <1>8
    <2>2. PICK c \in BlockNames : c = Blocks[i] /\ c # Blocks[n]
      BY <1>4, <2>1
    <2>3. Found(c)
      BY <1>8, <2>2 DEF BlocksInv
    <2>4. Found(c)'
      BY <1>6, <2>2, <2>3
    <2>5. Blocks[i]' = c
      BY <2>2
    <2> QED
      BY <2>4, <2>5 DEF Found
  <1> QED
    BY <1>7, <1>8

\* After the last step of a block the next one has its turn.
LEMMA NextBlock ==
    ASSUME NEW n \in Nat, Len(Blocks) \in 1..11, Blocks' = Blocks,
           startPc' = "block", startReq'.block = n + 1, Converted(Blocks[n])',
           \A i \in 1..Len(Blocks) : i < n => Converted(Blocks[i])',
           \A i \in 1..Len(Blocks) : i > n => Found(Blocks[i])'
    PROVE  BlocksInv'
  <1>1. \A i \in 1..Len(Blocks) : i < n + 1 => Converted(Blocks[i])'
    <2>1. SUFFICES ASSUME NEW i \in 1..Len(Blocks), i < n + 1
                   PROVE  Converted(Blocks[i])'
      OBVIOUS
    <2>2. i < n \/ i = n
      BY <2>1
    <2> QED
      BY <2>2
  <1>2. \A i \in 1..Len(Blocks) : i >= n + 1 => Found(Blocks[i])'
    <2>1. \A i \in 1..Len(Blocks) : i >= n + 1 => i > n
      OBVIOUS
    <2> QED
      BY <2>1
  <1>3. n + 1 <= Len(Blocks) => n + 1 \in 1..Len(Blocks) /\ n + 1 >= n + 1
    OBVIOUS
  <1>4. n + 1 <= Len(Blocks) => Found(Blocks[n + 1])'
    BY <1>2, <1>3
  <1>5. \A i \in 1..Len(Blocks) : i > n + 1 => Found(Blocks[i])'
    <2>1. \A i \in 1..Len(Blocks) : i > n + 1 => i > n
      OBVIOUS
    <2> QED
      BY <2>1
  <1> QED
    BY <1>1, <1>4, <1>5 DEF BlocksInv

\* A database no start of which was cut short: the blocks are done in their order, each of them
\* when it is needed.
LEMMA UndisturbedBlocks ==
    ASSUME UpdateTypeOK, CountersInv, VersionInv, Undisturbed, UpdateNext, ~interrupted',
           CheckBlock \/ ExecStatement \/ ConvertBan \/ DropBanIP
    PROVE  /\ InBlock' => BlocksInv'
           /\ startPc' = "legacy" => LayoutConverted'
           /\ \A c \in db'.missing : \E i \in 1..Len(Blocks) : Blocks[i] = c
           /\ startPc' # "down" /\ db'.filterTables = Len(FilterTables)
  <1> DEFINE n == startReq.block
             last == Len(Blocks)
  <1>t. db \in Layout /\ startReq \in StartLocals /\ n \in Nat /\ n # 0
    BY StartLocalsType DEF UpdateTypeOK, CountersInv
  <1>d. driver \in {"mysql", "postgres", "sqlite3"}
    BY UpdateNumbers DEF UpdateTypeOK
  <1>k. driver' = driver /\ Blocks' = Blocks
    BY DriverStays
  <1>l. last \in 1..11
    BY <1>d, BlocksListed
  <1>b. BlocksInv
    BY DEF Undisturbed, InBlock, CheckBlock, ExecStatement, ConvertBan, DropBanIP
  <1>o. /\ \A c \in db.missing : \E i \in 1..Len(Blocks) : Blocks[i] = c
        /\ db.filterTables = Len(FilterTables)
    <2>1. startPc \in Altering \ {"filterTables"}
      BY DEF CheckBlock, ExecStatement, ConvertBan, DropBanIP, Altering
    <2>2. db.version = "old"
      BY <2>1 DEF VersionInv
    <2> QED
      BY <2>1, <2>2 DEF Undisturbed, OldLayoutInv, Altering
  <1>1. CASE CheckBlock
    <2>1. db' = db /\ startPc = "block"
      BY <1>1 DEF CheckBlock
    <2>2. \A c : Converted(c)' = Converted(c) /\ Found(c)' = Found(c)
      BY <1>k, <2>1 DEF Converted, Found
    <2>3. CASE n > last /\ startPc' = "legacy"
      <3>1. \A i \in 1..Len(Blocks) : Converted(Blocks[i])
        BY <1>t, <1>l, <1>b, <2>3 DEF BlocksInv
      <3>2. LayoutConverted
        BY <1>t, <1>d, <1>o, <3>1, AllConvertedIsComplete
      <3>3. LayoutConverted'
        BY <2>1, <3>2 DEF LayoutConverted
      <3>4. ~InBlock'
        BY <2>3 DEF InBlock
      <3> QED
        BY <1>o, <2>1, <2>3, <3>3, <3>4
    <2>4. CASE /\ n <= last /\ Needed(Blocks[n]) /\ startPc' = "stmt"
               /\ startReq' = [startReq EXCEPT !.stmt = 1]
      <3> DEFINE b == Blocks[n]
      <3>1. n \in 1..last
        BY <1>t, <1>l, <2>4
      <3>2. b \in BlockNames /\ Found(b)
        BY <1>d, <1>b, <2>1, <2>4, <3>1, BlocksListed DEF BlocksInv
      <3>3. Len(Statements(b)) \in 1..5 /\ UnderWay(b, Statements(b)[1])
        BY <1>d, <2>4, <3>2, FirstStatement
      <3>4. startReq'.block = n /\ startReq'.stmt = 1
        BY <1>t, <2>4 DEF StartLocals
      <3>5. \A c : Statements(c)' = Statements(c)
        BY <1>k DEF Statements
      <3>6. \A c, st : UnderWay(c, st)' = UnderWay(c, st)
        BY <1>k, <2>1 DEF UnderWay, ConversionFound, BansFound, Converted, Found
      <3>7. startReq'.stmt \in 1..Len(Statements(b))
        BY <3>3, <3>4
      <3>8. UnderWay(b, Statements(b)[startReq'.stmt])
        BY <3>3, <3>4
      <3>9. BlocksInv'
        BY <1>k, <1>b, <2>2, <2>4, <3>4, <3>5, <3>6, <3>7, <3>8 DEF BlocksInv
      <3> QED
        BY <1>o, <2>1, <2>4, <3>9
    <2>5. CASE /\ n <= last /\ ~Needed(Blocks[n]) /\ startPc' = "block"
               /\ startReq' = [startReq EXCEPT !.block = n + 1]
      <3> DEFINE b == Blocks[n]
      <3>1. n \in 1..last
        BY <1>t, <1>l, <2>5
      <3>2. b \in BlockNames /\ Found(b)
        BY <1>d, <1>b, <2>1, <2>5, <3>1, BlocksListed DEF BlocksInv
      <3>3. Converted(b)
        BY <1>t, <1>d, <2>5, <3>2, UnneededIsConverted
      <3>4. startReq'.block = n + 1
        BY <1>t, <2>5, StartLocalsSteps
      <3>5. \A i \in 1..last : i < n + 1 => Converted(Blocks[i])
        BY <1>t, <1>b, <3>3 DEF BlocksInv
      <3>6. \A i \in 1..last : i >= n + 1 => Found(Blocks[i])
        BY <1>t, <1>b DEF BlocksInv
      <3>7. n + 1 <= last => n + 1 \in 1..last
        BY <1>t, <1>l
      <3>8. n + 1 <= last => Found(Blocks[n + 1])
        BY <1>t, <3>6, <3>7
      <3>9. BlocksInv'
        BY <1>t, <1>k, <2>2, <2>5, <3>4, <3>5, <3>6, <3>8 DEF BlocksInv
      <3> QED
        BY <1>o, <2>1, <2>5, <3>9
    <2> QED
      BY <1>1, <2>1, <2>3, <2>4, <2>5 DEF CheckBlock, StartGoto
  <1>2. CASE ExecStatement
    <2>a. PICK b : b = Blocks[n]
      OBVIOUS
    <2>s. PICK st : st = Statements(b)[startReq.stmt]
      OBVIOUS
    <2>1. startPc = "stmt" /\ n <= last
      BY <1>2 DEF ExecStatement, CountersInv
    <2>2. n \in 1..last
      BY <1>t, <1>l, <2>1
    <2>3. b \in BlockNames
      BY <1>d, <2>a, <2>2, BlocksListed
    <2>4. startReq.stmt \in 1..Len(Statements(b)) /\ UnderWay(b, st)
      BY <1>b, <2>a, <2>s, <2>1 DEF BlocksInv
    <2>5. /\ db' \in After(b, st)
          /\ IF startReq.stmt < Len(Statements(b))
             THEN startReq' = [startReq EXCEPT !.stmt = startReq.stmt + 1] /\ startPc' = startPc
             ELSE IF b = "ip_ban" /\ driver = "mysql"
             THEN startReq' = [startReq EXCEPT !.rows = OldBans] /\ startPc' = "row"
             ELSE startReq' = [startReq EXCEPT !.block = n + 1] /\ startPc' = "block"
      BY <1>2, <2>a, <2>s DEF ExecStatement, StartGoto
    <2>6. ChangesOnly(b) /\ db'.filterTables = db.filterTables /\ db' \in Layout
      BY <1>t, <2>3, <2>5, StatementKeeps DEF ChangesOnly
    <2>7. /\ \A i \in 1..last : i < n => Converted(Blocks[i])'
          /\ \A i \in 1..last : i > n => Found(Blocks[i])'
      BY <1>k, <1>b, <2>a, <2>1, <2>6, BlocksAdvance
    <2>8. /\ startReq.stmt < Len(Statements(b)) =>
                \A next : next = Statements(b)[startReq.stmt + 1] => UnderWay(b, next)'
          /\ startReq.stmt = Len(Statements(b)) => IF b = "ip_ban" /\ driver = "mysql"
                                                   THEN db'.banTable /\ db'.range = "binary"
                                                   ELSE Converted(b)'
      BY <1>t, <1>d, <2>s, <2>3, <2>4, <2>5, StatementMoves
    <2>9. \A c \in db'.missing : \E i \in 1..Len(Blocks) : Blocks[i] = c
      BY <1>o, <2>6 DEF ChangesOnly
    <2>10. startReq.stmt \in Nat /\ Len(Statements(b)) \in 1..5
      <3>1. startReq.stmt \in Nat
        BY <1>t, StartLocalsType
      <3>2. Len(Statements(b)) \in 1..5
        BY DEF Statements, ViaTemporaryTable
      <3> QED
        BY <3>1, <3>2
    <2>11. CASE startReq.stmt < Len(Statements(b))
      <3>1. startReq'.block = n /\ startReq'.stmt = startReq.stmt + 1 /\ startPc' = "stmt"
        BY <1>t, <2>1, <2>5, <2>11 DEF StartLocals
      <3>2. Statements(b)' = Statements(b)
        BY <1>k DEF Statements
      <3>3. startReq'.stmt \in 1..Len(Statements(b))
        BY <2>10, <2>11, <3>1
      <3>4. UnderWay(b, Statements(b)[startReq.stmt])'
        <4>1. PICK next : next = Statements(b)[startReq.stmt + 1]
          OBVIOUS
        <4>2. UnderWay(b, next)'
          BY <2>8, <2>11, <4>1
        <4>3. (Statements(b)[startReq.stmt])' = next
          BY <3>1, <3>2, <4>1
        <4> QED
          BY <4>2, <4>3
      <3>5. BlocksInv'
        <4>1. Blocks[n] = b /\ Blocks'[n] = b
          BY <1>k, <2>a
        <4> QED
          BY <1>k, <2>1, <2>7, <3>1, <3>2, <3>3, <3>4, <4>1 DEF BlocksInv
      <3> QED
        BY <1>o, <2>6, <2>9, <3>1, <3>5
    <2>12. CASE ~(startReq.stmt < Len(Statements(b))) /\ b = "ip_ban" /\ driver = "mysql"
      <3>1. startReq'.block = n /\ startReq'.rows = OldBans /\ startPc' = "row"
        BY <1>t, <2>5, <2>12 DEF StartLocals
      <3>2. db'.banTable /\ db'.range = "binary"
        BY <2>4, <2>8, <2>10, <2>12
      <3>3. db'.ranged \cup OldBans = OldBans
        BY <2>6 DEF Layout
      <3>4. RowsUnderWay'
        BY <1>k, <2>a, <2>12, <3>1, <3>2, <3>3 DEF RowsUnderWay
      <3>5. BlocksInv'
        BY <1>k, <2>1, <2>7, <3>1, <3>4 DEF BlocksInv
      <3> QED
        BY <1>o, <2>6, <2>9, <3>1, <3>5
    <2>13. CASE ~(startReq.stmt < Len(Statements(b))) /\ ~(b = "ip_ban" /\ driver = "mysql")
      <3>1. startReq'.block = n + 1 /\ startPc' = "block"
        BY <1>t, <2>5, <2>13, StartLocalsSteps
      <3>2. Converted(b)'
        BY <2>4, <2>8, <2>10, <2>13
      <3>3. BlocksInv'
        <4>1. PICK m : m = n
          OBVIOUS
        <4>2. m \in Nat /\ startReq'.block = m + 1
          BY <1>t, <3>1, <4>1
        <4>3. Converted(Blocks[m])'
          BY <1>k, <2>a, <3>2, <4>1
        <4>4. /\ \A i \in 1..Len(Blocks) : i < m => Converted(Blocks[i])'
              /\ \A i \in 1..Len(Blocks) : i > m => Found(Blocks[i])'
          BY <2>7, <4>1
        <4> QED
          BY <1>l, <1>k, <3>1, <4>2, <4>3, <4>4, NextBlock
      <3> QED
        BY <1>o, <2>6, <2>9, <3>1, <3>3
    <2> QED
      BY <2>11, <2>12, <2>13
  <1>3. CASE ConvertBan
    <2>1. startPc = "row" /\ n <= last /\ RowsUnderWay
      BY <1>3, <1>b DEF ConvertBan, CountersInv, BlocksInv
    <2>2. CASE startReq.rows = {} /\ db' = db /\ startPc' = "block" /\ startReq' = [startReq EXCEPT !.block = n + 1]
      <3>1. startReq'.block = n + 1
        BY <1>t, <2>2, StartLocalsSteps
      <3>2. \A c : Converted(c)' = Converted(c) /\ Found(c)' = Found(c)
        BY <1>k, <2>2 DEF Converted, Found
      <3>3. Converted(Blocks[n])
        BY <2>1, <2>2 DEF RowsUnderWay, Converted, Columns, PostColumns
      <3>4. /\ \A i \in 1..last : i < n => Converted(Blocks[i])'
            /\ \A i \in 1..last : i > n => Found(Blocks[i])'
        BY <1>k, <1>b, <3>2 DEF BlocksInv
      <3>5. BlocksInv'
        BY <1>t, <1>l, <1>k, <2>2, <3>1, <3>2, <3>3, <3>4, NextBlock
      <3> QED
        BY <1>o, <2>2, <3>5
    <2>3. ASSUME NEW ban \in startReq.rows,
                 db' = [db EXCEPT !.ranged = db.ranged \cup {ban}], startPc' = "dropIP",
                 startReq' = [startReq EXCEPT !.rows = startReq.rows \ {ban}]
          PROVE  BlocksInv' /\ db'.missing = db.missing /\ db'.filterTables = db.filterTables
      <3>1. startReq'.block = n /\ startReq'.rows = startReq.rows \ {ban}
        BY <1>t, <2>3 DEF StartLocals
      <3>2. /\ db'.missing = db.missing /\ db'.filterTables = db.filterTables /\ db'.cyclic = db.cyclic
            /\ db'.conv = db.conv /\ db'.banTable = db.banTable /\ db'.range = db.range
            /\ db'.ranged = db.ranged \cup {ban}
        BY <1>t, <2>3 DEF Layout
      <3>3. Blocks[n] = "ip_ban"
        BY <2>1 DEF RowsUnderWay
      <3>4. ChangesOnly(Blocks[n])
        BY <3>2, <3>3 DEF ChangesOnly, Columns, PostColumns
      <3>5. /\ \A i \in 1..last : i < n => Converted(Blocks[i])'
            /\ \A i \in 1..last : i > n => Found(Blocks[i])'
        BY <1>k, <1>b, <2>1, <3>4, BlocksAdvance
      <3>6. RowsUnderWay'
        BY <1>k, <2>1, <3>1, <3>2 DEF RowsUnderWay
      <3>7. BlocksInv'
        BY <1>k, <2>3, <3>1, <3>5, <3>6 DEF BlocksInv
      <3> QED
        BY <3>2, <3>7
    <2> QED
      BY <1>3, <1>o, <2>2, <2>3 DEF ConvertBan, StartGoto
  <1>4. CASE DropBanIP
    <2>1. startPc = "dropIP" /\ n <= last /\ RowsUnderWay
      BY <1>4, <1>b DEF DropBanIP, CountersInv, BlocksInv
    <2>2. db' = [db EXCEPT !.banIP = FALSE] /\ startPc' = "row" /\ startReq' = startReq
      BY <1>4 DEF DropBanIP, StartGoto
    <2>3. /\ db'.missing = db.missing /\ db'.filterTables = db.filterTables /\ db'.cyclic = db.cyclic
          /\ db'.conv = db.conv /\ db'.banTable = db.banTable /\ db'.range = db.range
          /\ db'.ranged = db.ranged
      BY <1>t, <2>2 DEF Layout
    <2>4. ChangesOnly(Blocks[n])
      BY <2>1, <2>3 DEF RowsUnderWay, ChangesOnly, Columns, PostColumns
    <2>5. /\ \A i \in 1..last : i < n => Converted(Blocks[i])'
          /\ \A i \in 1..last : i > n => Found(Blocks[i])'
      BY <1>k, <1>b, <2>1, <2>4, BlocksAdvance
    <2>6. RowsUnderWay'
      BY <1>k, <2>1, <2>2, <2>3 DEF RowsUnderWay
    <2>7. BlocksInv'
      BY <1>k, <2>2, <2>5, <2>6 DEF BlocksInv
    <2> QED
      BY <1>o, <2>2, <2>3, <2>7
  <1> QED
    BY <1>1, <1>2, <1>3, <1>4

\* An update that is not cut short keeps the part of the invariant about it.
LEMMA UndisturbedStep ==
    ASSUME UpdateTypeOK, CountersInv, VersionInv, VersionInv', MigratedInv, UndisturbedInv, UpdateNext
    PROVE  UndisturbedInv'
  <1> SUFFICES ASSUME ~interrupted'
               PROVE  Undisturbed'
    BY DEF UndisturbedInv
  <1>t. /\ db \in Layout /\ startReq \in StartLocals /\ interrupted \in BOOLEAN
        /\ migrated \in [LegacyTables -> 0..MaxStarts] /\ foundOld \in BOOLEAN
    BY DEF UpdateTypeOK
  <1>n. \A t \in LegacyTables : migrated[t] \in Nat
    BY <1>t, UpdateNumbers
  <1>k. driver' = driver /\ Blocks' = Blocks /\ foundOld' = foundOld
    BY DriverStays
  <1>u. ~interrupted /\ Undisturbed
    <2>1. ~interrupted
      BY DEF UpdateNext, CheckAndInitializeDatabase, BuildNewDatabase, CreateDefaultAdminIfNoStaff,
             CreateDefaultBoardIfNoneExist, AddFilterTable, CheckBlock, ExecStatement, ConvertBan,
             DropBanIP, MigrateLegacyTable, SetVersion, ResetViews, StartInterrupted
    <2> QED
      BY <2>1 DEF UndisturbedInv
  <1>m. (\A t \in LegacyTables : migrated[t] <= 1) /\ OldLayoutInv
    BY <1>u DEF Undisturbed
  <1>1. CASE CheckAndInitializeDatabase
    <2>1. db' = db /\ migrated' = migrated /\ startPc = "down"
      BY <1>1 DEF CheckAndInitializeDatabase
    <2>2. /\ startPc' \in {"filterTables", "block"} => db.version = "old"
          /\ startPc' = "filterTables" => db.filterTables = 0
          /\ startPc' = "block" => db.filterTables # 0
          /\ startPc' \in {"install", "views", "filterTables", "block", "down"}
          /\ startReq'.block = 1
      BY <1>1, StartLocalsSteps DEF CheckAndInitializeDatabase
    <2>3. LayoutConverted' = LayoutConverted
      BY <2>1 DEF LayoutConverted
    <2>4. \A c : Found(c)' = Found(c)
      BY <1>k, <2>1 DEF Found
    <2>5. db.version = "old" => \A i \in 1..Len(Blocks) : Found(Blocks[i])
      BY <1>m, <2>1 DEF OldLayoutInv
    <2>6. OldLayoutInv'
      <3>1. db.version = "old" => startPc' \in {"filterTables", "block"}
        BY <1>1 DEF CheckAndInitializeDatabase
      <3> QED
        BY <1>k, <1>m, <2>1, <2>2, <2>4, <2>5, <3>1, TablesCounted DEF OldLayoutInv
    <2>7. InBlock' => BlocksInv'
      <3>1. SUFFICES ASSUME InBlock'
                     PROVE  BlocksInv'
        OBVIOUS
      <3>2. startPc' = "block" /\ \A i \in 1..Len(Blocks) : Found(Blocks[i])
        BY <2>2, <2>5, <3>1 DEF InBlock
      <3>3. \A i \in 1..Len(Blocks) : ~(i < 1)
        OBVIOUS
      <3>4. 1 <= Len(Blocks) => 1 \in 1..Len(Blocks)
        <4>1. Len(Blocks) \in 1..11
          BY BlocksListed, UpdateNumbers DEF UpdateTypeOK
        <4> QED
          BY <4>1
      <3> QED
        BY <1>k, <2>2, <2>4, <3>2, <3>3, <3>4 DEF BlocksInv
    <2> QED
      BY <1>u, <2>1, <2>2, <2>3, <2>6, <2>7 DEF Undisturbed
  <1>2. CASE BuildNewDatabase \/ CreateDefaultAdminIfNoStaff \/ CreateDefaultBoardIfNoneExist
    <2>1. startPc \in {"install", "admin", "board"} /\ startPc' \in {"install", "admin", "board", "views"}
          /\ migrated' = migrated
      BY <1>2 DEF BuildNewDatabase, CreateDefaultAdminIfNoStaff, CreateDefaultBoardIfNoneExist, StartGoto
    <2>2. ~foundOld
      BY <1>t, <2>1 DEF VersionInv
    <2>3. db'.version # "old" /\ (db'.version = "current" => LayoutConverted')
      BY <1>k, <2>2 DEF VersionInv, Complete
    <2> QED
      BY <1>m, <2>1, <2>3 DEF Undisturbed, OldLayoutInv, InBlock
  <1>3. CASE AddFilterTable
    <2>1. /\ startPc = "filterTables" /\ migrated' = migrated /\ startReq' = startReq
          /\ db' = [db EXCEPT !.filterTables = db.filterTables + 1]
          /\ startPc' = IF db.filterTables + 1 = Len(FilterTables) THEN "block" ELSE "filterTables"
      BY <1>3 DEF AddFilterTable, StartGoto
    <2>2. /\ db'.missing = db.missing /\ db'.filterTables = db.filterTables + 1 /\ db'.cyclic = db.cyclic
          /\ db'.conv = db.conv /\ db'.banTable = db.banTable /\ db'.range = db.range
          /\ db'.ranged = db.ranged /\ db'.banIP = db.banIP /\ db'.version = db.version
      BY <1>t, <2>1 DEF Layout
    <2>3. \A c : Found(c)' = Found(c)
      BY <1>k, <2>2 DEF Found
    <2>4. db.version = "old" /\ \A i \in 1..Len(Blocks) : Found(Blocks[i])
      BY <1>m, <2>1 DEF OldLayoutInv, VersionInv, Altering
    <2>5. startReq'.block = 1
      BY <2>1 DEF CountersInv
    <2>6. \A t : Pending(t)
      BY <2>1 DEF Pending, Altering
    <2>7. OldLayoutInv'
      BY <1>k, <1>m, <2>1, <2>2, <2>3, <2>4, <2>6 DEF OldLayoutInv
    <2>8. InBlock' => BlocksInv'
      <3>1. SUFFICES ASSUME InBlock'
                     PROVE  BlocksInv'
        OBVIOUS
      <3>2. startPc' = "block"
        BY <2>1, <3>1 DEF InBlock
      <3>3. \A i \in 1..Len(Blocks) : ~(i < 1)
        OBVIOUS
      <3>4. 1 <= Len(Blocks) => 1 \in 1..Len(Blocks)
        <4>1. Len(Blocks) \in 1..11
          BY BlocksListed, UpdateNumbers DEF UpdateTypeOK
        <4> QED
          BY <4>1
      <3> QED
        BY <1>k, <2>3, <2>4, <2>5, <3>2, <3>3, <3>4 DEF BlocksInv
    <2>9. startPc' \notin {"legacy", "version"} /\ db'.version # "current"
      BY <2>1, <2>2, <2>4
    <2> QED
      BY <1>m, <2>1, <2>7, <2>8, <2>9 DEF Undisturbed
  <1>4. CASE CheckBlock \/ ExecStatement \/ ConvertBan \/ DropBanIP
    <2>1. /\ InBlock' => BlocksInv'
          /\ startPc' = "legacy" => LayoutConverted'
          /\ \A c \in db'.missing : \E i \in 1..Len(Blocks) : Blocks[i] = c
          /\ startPc' # "down" /\ db'.filterTables = Len(FilterTables)
      BY <1>4, <1>u, UndisturbedBlocks
    <2>2. /\ db'.version = db.version
          /\ startPc \in Altering /\ startPc' \in Altering \cup {"legacy", "down"}
      BY <1>4, AlteringKeepsVersion
    <2>3. db.version = "old" /\ migrated' = migrated
      BY <1>4, <2>2 DEF VersionInv, CheckBlock, ExecStatement, ConvertBan, DropBanIP
    <2>4. \A t \in LegacyTables : migrated[t] = 0
      BY <1>m, <2>2, <2>3 DEF OldLayoutInv, Pending
    <2>5. startPc' # "filterTables"
      BY <1>4 DEF CheckBlock, ExecStatement, ConvertBan, DropBanIP, StartGoto, ExitWithError
    <2>6. OldLayoutInv'
      BY <1>k, <2>1, <2>3, <2>4, <2>5 DEF OldLayoutInv
    <2>7. startPc' # "version" /\ db'.version # "current"
      BY <2>2, <2>3 DEF Altering
    <2> QED
      BY <1>m, <2>1, <2>3, <2>6, <2>7 DEF Undisturbed
  <1>5. CASE MigrateLegacyTable
    <2> DEFINE t == LegacyOrder[startReq.block]
    <2>0. startPc = "legacy" /\ db' = db /\ db.version = "old" /\ db.filterTables = Len(FilterTables) /\ LayoutConverted
      BY <1>5, <1>m, <1>u DEF MigrateLegacyTable, VersionInv, OldLayoutInv, Undisturbed
    <2>1. LayoutConverted'
      BY <2>0 DEF LayoutConverted
    <2>2. ~(db.filterTables < Len(FilterTables) - 1)
      BY <2>0, TablesCounted
    <2>3. \A c \in db.missing : \E i \in 1..Len(Blocks) : Blocks[i] = c
      BY <1>m, <2>0 DEF OldLayoutInv
    <2>4. CASE startPc' = "version" /\ UNCHANGED <<startReq, migrated>>
      <3>1. \A s : ~Pending(s)'
        BY <2>4 DEF Pending, Altering
      <3>2. OldLayoutInv'
        BY <1>k, <2>0, <2>3, <2>4, <3>1 DEF OldLayoutInv
      <3> QED
        BY <1>m, <2>1, <2>4, <3>2 DEF Undisturbed, InBlock
    <2>5. CASE /\ ~(startReq.block > Len(LegacyOrder)) /\ startPc' = "legacy"
               /\ startReq' = [startReq EXCEPT !.block = startReq.block + 1]
               /\ \/ t \notin LegacyTables /\ UNCHANGED migrated
                  \/ t \in LegacyTables /\ migrated' = [migrated EXCEPT ![t] = migrated[t] + 1]
      <3>1. startReq'.block = startReq.block + 1
        BY <1>t, <2>5, StartLocalsSteps
      <3>2. startReq.block \in 1..Len(LegacyOrder)
        <4>1. startReq.block \in Nat /\ startReq.block # 0
          BY <1>t, StartLocalsType DEF CountersInv
        <4>2. ~(startReq.block > Len(LegacyOrder))
          BY <2>5
        <4> QED
          BY <4>1, <4>2, TablesCounted
      <3>3. \A s : Pending(s)' => Pending(s) /\ s # t
        BY <2>0, <2>5, <3>1, <3>2, NextTable
      <3>4. Pending(t)
        <4>1. startReq.block <= startReq.block
          BY <3>2
        <4> QED
          BY <2>0, <3>2, <4>1 DEF Pending
      <3>5. \A s \in LegacyTables : s # t => migrated'[s] = migrated[s]
        BY <1>t, <2>5
      <3>6. t \in LegacyTables => migrated'[t] = migrated[t] + 1
        BY <1>t, <2>5
      <3>7. t \in LegacyTables => migrated[t] = 0
        BY <1>m, <2>0, <3>4 DEF OldLayoutInv
      <3>8. \A s \in LegacyTables : migrated'[s] <= 1
        BY <1>m, <3>5, <3>6, <3>7
      <3>9. \A s \in LegacyTables : Pending(s)' => migrated'[s] = 0
        BY <1>m, <2>0, <3>3, <3>5 DEF OldLayoutInv
      <3>10. OldLayoutInv'
        BY <1>k, <2>0, <2>3, <2>5, <3>9 DEF OldLayoutInv
      <3> QED
        BY <2>0, <2>1, <2>5, <3>8, <3>10 DEF Undisturbed, InBlock
    <2> QED
      BY <1>5, <2>2, <2>4, <2>5 DEF MigrateLegacyTable, StartGoto
  <1>6. CASE SetVersion
    <2>1. /\ startPc = "version" /\ startPc' = "views" /\ migrated' = migrated
          /\ db' = [db EXCEPT !.version = "current"]
      BY <1>6 DEF SetVersion, StartGoto
    <2>2. LayoutConverted /\ db'.version = "current"
      BY <1>t, <1>u, <2>1 DEF Undisturbed, Layout
    <2>3. /\ db'.missing = db.missing /\ db'.filterTables = db.filterTables /\ db'.cyclic = db.cyclic
          /\ db'.conv = db.conv /\ db'.banTable = db.banTable /\ db'.range = db.range
          /\ db'.ranged = db.ranged
      BY <1>t, <2>1 DEF Layout
    <2>4. LayoutConverted'
      BY <2>2, <2>3 DEF LayoutConverted
    <2> QED
      BY <1>m, <2>1, <2>2, <2>4 DEF Undisturbed, OldLayoutInv, InBlock
  <1>7. CASE ResetViews \/ StartInterrupted
    <2>1. db' = db /\ startPc \in {"views", "serving"} /\ startPc' \in {"serving", "down"} /\ migrated' = migrated
      <3>1. CASE ResetViews
        BY <3>1 DEF ResetViews, StartGoto, ExitWithError
      <3>2. CASE StartInterrupted
        <4>1. interrupted' = (interrupted \/ startPc # "serving") /\ ~interrupted'
          BY <3>2 DEF StartInterrupted
        <4>2. startPc = "serving"
          BY <4>1, Zenon
        <4> QED
          BY <3>2, <4>2 DEF StartInterrupted, ExitWithError
      <3> QED
        BY <1>7, <3>1, <3>2
    <2>2. db.version = "current"
      BY <2>1 DEF VersionInv
    <2>3. LayoutConverted' = LayoutConverted
      BY <2>1 DEF LayoutConverted
    <2> QED
      BY <1>m, <1>u, <2>1, <2>2, <2>3 DEF Undisturbed, OldLayoutInv, InBlock
  <1> QED
    BY <1>1, <1>2, <1>3, <1>4, <1>5, <1>6, <1>7 DEF UpdateNext

\* The layout stays as it is but for the version, the filter tables and the first account and board.
SameLayout ==
    /\ driver' = driver /\ Blocks' = Blocks
    /\ db'.missing = db.missing /\ db'.cyclic = db.cyclic /\ db'.conv = db.conv
    /\ db'.banTable = db.banTable /\ db'.banIP = db.banIP /\ db'.range = db.range
    /\ db'.ranged = db.ranged /\ db'.rebuilt = db.rebuilt

\* What no statement takes away, and what a block saw to, only depends on the layout.
LEMMA SameLayoutKept ==
    ASSUME SameLayout
    PROVE  (KeptInv => KeptInv') /\ \A c : Repaired(c) => Repaired(c)'
  BY DEF SameLayout, KeptInv, Repaired

\* The third block of sqlite3's update alters the table of posts, which is rebuilt later.
LEMMA BlockPositions ==
    ASSUME driver = "sqlite3"
    PROVE  /\ Blocks[3] = "is_secure_tripcode"
           /\ \A i \in 1..Len(Blocks) : Blocks[i] = "posts" => i > 3
  <1>1. Blocks = <<"foreign_keys", "cyclic", "is_secure_tripcode", "flag", "country",
                   "expires", "data", "ip_ban", "is_spoilered", "posts", "reports">>
    BY DEF Blocks
  <1> QED
    BY <1>1

\* Statement st is number k of the block's size ones: only sqlite3 drops and creates tables.
Placed(b, k, st, size) ==
    /\ size \in 1..5 /\ k \in 1..size
    /\ driver # "sqlite3" => st \notin {"toTemp", "convertTemp", "dropTable", "createTable", "dropTemp"}
    /\ b \in {"posts", "ip_ban"} /\ driver = "sqlite3" =>
          /\ size = 5 /\ st \in {"toTemp", "convertTemp", "dropTable", "createTable", "dropTemp"}
          /\ k = 3 <=> st = "dropTable"
          /\ k = 4 <=> st = "createTable"
          /\ k = 5 <=> st = "dropTemp"
    /\ b = "ip_ban" /\ driver = "postgres" =>
          /\ size = 3 /\ st \in {"addRange", "setRanges", "dropIP"}
          /\ k = 2 <=> st = "setRanges"
          /\ k = 3 <=> st = "dropIP"

\* Which statement of a block is where.
LEMMA StatementPlaces ==
    ASSUME driver \in {"mysql", "postgres", "sqlite3"}, NEW b \in BlockNames,
           NEW k \in 1..Len(Statements(b))
    PROVE  Placed(b, k, Statements(b)[k], Len(Statements(b)))
  <1>1. CASE b \notin {"posts", "reports", "ip_ban"}
    <2>1. Statements(b) = <<"alter">>
      BY <1>1 DEF Statements
    <2>2. Len(Statements(b)) = 1
      BY <2>1
    <2>3. k = 1
      BY <2>2
    <2> QED
      BY <1>1, <2>1, <2>2, <2>3 DEF Placed
  <1>2. CASE b \in {"posts", "reports", "ip_ban"} /\ driver = "sqlite3"
    <2>1. Statements(b) = <<"toTemp", "convertTemp", "dropTable", "createTable", "dropTemp">>
      BY <1>2 DEF Statements, ViaTemporaryTable
    <2>2. Len(Statements(b)) = 5
      BY <2>1
    <2>3. k \in 1..5
      BY <2>2
    <2> QED
      BY <1>2, <2>1, <2>2, <2>3 DEF Placed
  <1>3. CASE b = "ip_ban" /\ driver = "postgres"
    <2>1. Statements(b) = <<"addRange", "setRanges", "dropIP">>
      BY <1>3 DEF Statements
    <2>2. Len(Statements(b)) = 3
      BY <2>1
    <2>3. k \in 1..3
      BY <2>2
    <2> QED
      BY <1>3, <2>1, <2>2, <2>3 DEF Placed
  <1>4. CASE b = "ip_ban" /\ driver = "mysql"
    <2>1. Statements(b) = <<"addRange">>
      BY <1>4 DEF Statements
    <2>2. Len(Statements(b)) = 1
      BY <2>1
    <2>3. k = 1
      BY <2>2
    <2> QED
      BY <1>4, <2>1, <2>2, <2>3 DEF Placed
  <1>5. CASE b \in {"posts", "reports"} /\ driver = "mysql"
    <2>1. Statements(b) = <<"rename", "add", "copy", "dropStr">>
      BY <1>5 DEF Statements
    <2>2. Len(Statements(b)) = 4
      BY <2>1
    <2>3. k \in 1..4
      BY <2>2
    <2> QED
      BY <1>5, <2>1, <2>2, <2>3 DEF Placed
  <1>6. CASE b = "posts" /\ driver = "postgres"
    <2>1. Statements(b) = <<"rename", "add", "refused">>
      BY <1>6 DEF Statements
    <2>2. Len(Statements(b)) = 3
      BY <2>1
    <2>3. k \in 1..3
      BY <2>2
    <2> QED
      BY <1>6, <2>1, <2>2, <2>3 DEF Placed
  <1>7. CASE b = "reports" /\ driver = "postgres"
    <2>1. Statements(b) = <<"refused">>
      BY <1>7 DEF Statements
    <2>2. Len(Statements(b)) = 1
      BY <2>1
    <2>3. k = 1
      BY <2>2
    <2> QED
      BY <1>7, <2>1, <2>2, <2>3 DEF Placed
  <1> QED
    BY <1>1, <1>2, <1>3, <1>4, <1>5, <1>6, <1>7

\* A statement for the bans: postgres drops the column ip after the ranges are set, the table
\* sqlite3 creates has every range.
LEMMA BansKept ==
    ASSUME db \in Layout, driver \in {"postgres", "sqlite3"},
           NEW k, NEW st, NEW size, Placed("ip_ban", k, st, size), ReliesOn("ip_ban", k), KeptInv,
           db' \in AfterBanStatement(st)
    PROVE  /\ driver = "postgres" => db'.banTable /\ (~db'.banIP => db'.ranged = OldBans)
           /\ driver = "sqlite3" => db'.range = "none" \/ db'.ranged = OldBans
           /\ driver = "postgres" /\ k \in {2, 3} => db'.ranged = OldBans
           /\ driver = "sqlite3" /\ k \in {4, 5} => db'.banTable /\ db'.ranged = OldBans
  <1>1. CASE driver = "postgres"
    <2>1. st \in {"addRange", "setRanges", "dropIP"} /\ (k = 2 <=> st = "setRanges") /\ (k = 3 <=> st = "dropIP")
      BY <1>1 DEF Placed
    <2>2. db.banTable /\ (~db.banIP => db.ranged = OldBans) /\ (k = 3 => db.ranged = OldBans)
      BY <1>1 DEF KeptInv, ReliesOn
    <2>3. CASE st = "addRange"
      <3>1. db' = [db EXCEPT !.range = "binary"]
        BY <2>3 DEF AfterBanStatement
      <3>2. db'.banTable = db.banTable /\ db'.banIP = db.banIP /\ db'.ranged = db.ranged
        BY <3>1 DEF Layout
      <3> QED
        BY <1>1, <2>1, <2>2, <2>3, <3>2
    <2>4. CASE st = "setRanges"
      <3>1. db' = [db EXCEPT !.ranged = OldBans]
        BY <2>4 DEF AfterBanStatement
      <3>2. db'.banTable = db.banTable /\ db'.ranged = OldBans
        BY <3>1 DEF Layout
      <3> QED
        BY <1>1, <2>2, <3>2
    <2>5. CASE st = "dropIP"
      <3>1. db' = [db EXCEPT !.banIP = FALSE]
        BY <2>5 DEF AfterBanStatement
      <3>2. db'.banTable = db.banTable /\ db'.ranged = db.ranged
        BY <3>1 DEF Layout
      <3> QED
        BY <1>1, <2>1, <2>2, <2>5, <3>2
    <2> QED
      BY <2>1, <2>3, <2>4, <2>5
  <1>2. CASE driver = "sqlite3"
    <2>1. /\ st \in {"toTemp", "convertTemp", "dropTable", "createTable", "dropTemp"}
          /\ k = 4 <=> st = "createTable"
          /\ k = 5 <=> st = "dropTemp"
      BY <1>2 DEF Placed
    <2>2. (db.range = "none" \/ db.ranged = OldBans) /\ (k = 5 => db.banTable /\ db.ranged = OldBans)
      BY <1>2 DEF KeptInv, ReliesOn
    <2>3. CASE st \in {"toTemp", "convertTemp", "dropTemp"}
      <3>1. db' = db
        BY <2>3 DEF AfterBanStatement
      <3> QED
        BY <1>2, <2>1, <2>2, <2>3, <3>1
    <2>4. CASE st = "dropTable"
      <3>1. db' = [db EXCEPT !.banTable = FALSE, !.rebuilt = db.rebuilt \cup {"ip_ban"}]
        BY <2>4 DEF AfterBanStatement
      <3>2. db'.range = db.range /\ db'.ranged = db.ranged
        BY <3>1 DEF Layout
      <3> QED
        BY <1>2, <2>1, <2>2, <2>4, <3>2
    <2>5. CASE st = "createTable"
      <3>1. db' = [db EXCEPT !.banTable = TRUE, !.range = "binary", !.banIP = FALSE, !.ranged = OldBans]
        BY <2>5 DEF AfterBanStatement
      <3>2. db'.banTable /\ db'.ranged = OldBans
        BY <3>1 DEF Layout
      <3> QED
        BY <1>2, <3>2
    <2> QED
      BY <2>1, <2>3, <2>4, <2>5
  <1> QED
    BY <1>1, <1>2

\* A statement for the posts: only sqlite3 drops their table, and the next statement makes it again.
LEMMA PostsKept ==
    ASSUME db \in Layout, driver \in {"mysql", "postgres", "sqlite3"},
           NEW k, NEW st, NEW size, Placed("posts", k, st, size),
           db.conv["posts"] = "gone" => driver = "sqlite3" /\ k = 4,
           db' \in AfterConversion("posts", st)
    PROVE  db'.conv["posts"] = "gone" => driver = "sqlite3" /\ k = 3
  <1>1. db.conv \in [{"posts", "reports"} -> Conversions]
    BY DEF Layout
  <1>3. st = "dropTable" => driver = "sqlite3" /\ k = 3
    BY DEF Placed
  <1>4. st = "createTable" \/ db.conv["posts"] # "gone"
    BY DEF Placed
  <1>5. CASE st = "dropTable"
    BY <1>3, <1>5
  <1>6. CASE db' = db /\ st # "createTable"
    BY <1>4, <1>6
  <1>7. ASSUME NEW c \in {"renamed", "added", "copied", "binary"}, db' = [db EXCEPT !.conv["posts"] = c]
        PROVE  db'.conv["posts"] # "gone"
    <2>1. db' = [db EXCEPT !.conv = [db.conv EXCEPT !["posts"] = c]]
      BY <1>7
    <2>2. db'.conv = [db.conv EXCEPT !["posts"] = c]
      BY <2>1 DEF Layout
    <2> QED
      BY <1>1, <1>7, <2>2
  <1>8. \/ st = "dropTable"
        \/ st # "createTable" /\ db' = db
        \/ \E c \in {"renamed", "added", "copied", "binary"} : db' = [db EXCEPT !.conv["posts"] = c]
    BY DEF AfterConversion
  <1> QED
    BY <1>5, <1>6, <1>7, <1>8

\* A block that is not needed finds seen to what it sees to.
LEMMA UnneededIsRepaired ==
    ASSUME db \in Layout, driver \in {"mysql", "postgres", "sqlite3"}, KeptInv,
           NEW b \in BlockNames, ~Needed(b), b = "posts" => db.conv["posts"] # "gone"
    PROVE  Repaired(b)
  <1>1. CASE b \in Columns
    BY <1>1 DEF Needed, Repaired, Columns, PostColumns
  <1>2. CASE b = "ip_ban"
    <2>1. b \notin Columns
      BY <1>2 DEF Columns, PostColumns
    <2>2. IF driver = "sqlite3" THEN db.banTable /\ db.range = "binary" ELSE ~db.banIP
      BY <1>2, <2>1 DEF Needed
    <2>3. driver # "mysql" => db.banTable /\ db.ranged = OldBans
      BY <2>2 DEF KeptInv
    <2> QED
      BY <1>2, <2>1, <2>3 DEF Repaired
  <1>3. CASE b = "cyclic"
    <2>1. b \notin Columns
      BY <1>3 DEF Columns, PostColumns
    <2>2. ~(IF driver = "sqlite3" THEN db.cyclic = "cyclical" ELSE db.cyclic # "cyclic")
      BY <1>3, <2>1 DEF Needed
    <2>3. db.cyclic \in {"none", "cyclical", "cyclic"} /\ (driver # "mysql" => db.cyclic # "none")
      BY DEF Layout, KeptInv
    <2> QED
      BY <1>3, <2>1, <2>2, <2>3 DEF Repaired
  <1>4. CASE b \in {"collation", "foreign_keys", "posts", "reports"}
    BY <1>4 DEF Repaired, Columns, PostColumns
  <1> QED
    BY <1>1, <1>2, <1>3, <1>4 DEF BlockNames

\* The other blocks stay seen to.
LEMMA OthersRepaired ==
    ASSUME NEW b \in BlockNames, NEW c \in BlockNames, b # c, driver' = driver, ChangesOnly(b), Repaired(c)
    PROVE  Repaired(c)'
  <1>1. CASE c \in Columns
    BY <1>1 DEF ChangesOnly, Repaired
  <1>2. CASE c = "posts"
    <2>1. db'.conv[c] = db.conv[c] /\ c \notin Columns
      BY <1>2 DEF ChangesOnly, Columns, PostColumns
    <2> QED
      BY <1>2, <2>1 DEF Repaired
  <1>3. CASE c = "ip_ban"
    <2>1. db'.banTable = db.banTable /\ db'.ranged = db.ranged /\ c \notin Columns
      BY <1>3 DEF ChangesOnly, Columns, PostColumns
    <2> QED
      BY <1>3, <2>1 DEF Repaired
  <1>4. CASE c = "cyclic"
    <2>1. db'.cyclic = db.cyclic /\ c \notin Columns
      BY <1>4 DEF ChangesOnly, Columns, PostColumns
    <2> QED
      BY <1>4, <2>1 DEF Repaired
  <1>5. CASE c \in {"collation", "foreign_keys", "reports"}
    BY <1>5 DEF Repaired, Columns, PostColumns
  <1> QED
    BY <1>1, <1>2, <1>3, <1>4, <1>5 DEF BlockNames

\* A statement changes what its block is about, only a dropped table has to be rebuilt.
LEMMA StatementChanges ==
    ASSUME db \in Layout, NEW b \in BlockNames, NEW st, db' \in After(b, st)
    PROVE  ChangesOnly(b) /\ db'.version = db.version /\ (st # "dropTable" => db'.rebuilt = db.rebuilt)
  <1>1. PICK d : d = db' /\ d \in After(b, st)
    OBVIOUS
  <1>2. d.version = db.version /\ d.missing = IF b \in Columns THEN db.missing \ {b} ELSE db.missing
    BY <1>1, StatementKeeps
  <1>3. b # "cyclic" => d.cyclic = db.cyclic
    BY <1>1, StatementKeeps
  <1>4. \A t \in {"posts", "reports"} : t # b => d.conv[t] = db.conv[t]
    BY <1>1, StatementKeeps
  <1>5. b # "ip_ban" => /\ d.banTable = db.banTable /\ d.banIP = db.banIP
                        /\ d.range = db.range /\ d.ranged = db.ranged
    BY <1>1, StatementKeeps
  <1>6. st # "dropTable" => d.rebuilt = db.rebuilt
    <2> SUFFICES ASSUME st # "dropTable"
                 PROVE  d.rebuilt = db.rebuilt
      OBVIOUS
    <2>1. CASE b \in {"posts", "reports"}
      <3>1. d \in AfterConversion(b, st)
        BY <1>1, <2>1 DEF After, Columns, PostColumns
      <3>2. d = db \/ \E c \in Conversions : d = [db EXCEPT !.conv[b] = c]
        BY <3>1 DEF AfterConversion, Conversions
      <3> QED
        BY <3>2 DEF Layout
    <2>2. CASE b = "ip_ban"
      <3>1. d \in AfterBanStatement(st)
        BY <1>1, <2>2 DEF After, Columns, PostColumns
      <3> QED
        BY <3>1 DEF AfterBanStatement, Layout
    <2>3. CASE b \notin {"posts", "reports", "ip_ban"}
      <3>1. d = db \/ d = [db EXCEPT !.missing = db.missing \ {b}] \/ d = [db EXCEPT !.cyclic = "cyclic"]
        BY <1>1, <2>3 DEF After, Columns, PostColumns
      <3> QED
        BY <3>1 DEF Layout
    <2> QED
      BY <2>1, <2>2, <2>3
  <1> QED
    BY <1>1, <1>2, <1>3, <1>4, <1>5, <1>6 DEF ChangesOnly

\* A statement that succeeds: what it takes from the layout, and what the next step relies on.
LEMMA StatementRepairs ==
    ASSUME db \in Layout, driver \in {"mysql", "postgres", "sqlite3"},
           driver' = driver, Blocks' = Blocks, KeptInv,
           NEW b \in BlockNames, NEW k, NEW st, NEW size, Placed(b, k, st, size), ReliesOn(b, k),
           b = "posts" /\ db.conv["posts"] = "gone" => driver = "sqlite3" /\ k = 4,
           db' \in After(b, st)
    PROVE  /\ KeptInv' /\ ChangesOnly(b) /\ db'.version = db.version
           /\ k < size => ReliesOn(b, k + 1)'
           /\ k = size => Repaired(b)'
           /\ b = "posts" /\ db'.conv["posts"] = "gone" => driver = "sqlite3" /\ k = 3 /\ k < size
           /\ b # "posts" => db'.conv["posts"] = db.conv["posts"]
           /\ b = "is_secure_tripcode" => db.conv["posts"] # "gone"
  <1>c. ChangesOnly(b) /\ db'.version = db.version /\ (st # "dropTable" => db'.rebuilt = db.rebuilt)
    BY StatementChanges
  <1>p. /\ size \in 1..5 /\ k \in 1..size
        /\ driver # "sqlite3" => st # "dropTable"
        /\ b \in {"posts", "ip_ban"} /\ driver = "sqlite3" => size = 5
        /\ b = "ip_ban" /\ driver = "postgres" => size = 3
    BY DEF Placed
  <1>3. b = "posts" => (db'.conv["posts"] = "gone" => driver = "sqlite3" /\ k = 3)
    <2> SUFFICES ASSUME b = "posts"
                 PROVE  db'.conv["posts"] = "gone" => driver = "sqlite3" /\ k = 3
      OBVIOUS
    <2>1. db' \in AfterConversion("posts", st)
      BY DEF After, Columns, PostColumns
    <2> QED
      BY <2>1, PostsKept
  <1>4. b # "posts" => db'.conv["posts"] = db.conv["posts"]
    BY <1>c DEF ChangesOnly
  <1>5. driver # "mysql" /\ b = "ip_ban" =>
           /\ driver = "postgres" => db'.banTable /\ (~db'.banIP => db'.ranged = OldBans)
           /\ driver = "sqlite3" => db'.range = "none" \/ db'.ranged = OldBans
           /\ driver = "postgres" /\ k \in {2, 3} => db'.ranged = OldBans
           /\ driver = "sqlite3" /\ k \in {4, 5} => db'.banTable /\ db'.ranged = OldBans
    <2> SUFFICES ASSUME driver # "mysql", b = "ip_ban"
                 PROVE  /\ driver = "postgres" => db'.banTable /\ (~db'.banIP => db'.ranged = OldBans)
                        /\ driver = "sqlite3" => db'.range = "none" \/ db'.ranged = OldBans
                        /\ driver = "postgres" /\ k \in {2, 3} => db'.ranged = OldBans
                        /\ driver = "sqlite3" /\ k \in {4, 5} => db'.banTable /\ db'.ranged = OldBans
      OBVIOUS
    <2>1. driver \in {"postgres", "sqlite3"}
      OBVIOUS
    <2>2. db' \in AfterBanStatement(st)
      BY DEF After, Columns, PostColumns
    <2> QED
      BY <2>1, <2>2, BansKept
  <1>6. KeptInv'
    <2>1. \A c \in db'.missing : \E i \in 1..Len(Blocks)' : Blocks'[i] = c
      BY <1>c DEF ChangesOnly, KeptInv
    <2>2. driver # "mysql" => db'.cyclic # "none"
      <3>1. CASE b = "cyclic"
        <4>1. b \notin Columns
          BY <3>1 DEF Columns, PostColumns
        <4>2. db' = [db EXCEPT !.cyclic = "cyclic"]
          BY <3>1, <4>1 DEF After
        <4> QED
          BY <4>2 DEF Layout
      <3>2. CASE b # "cyclic"
        BY <1>c, <3>2 DEF ChangesOnly, KeptInv
      <3> QED
        BY <3>1, <3>2
    <2>3. /\ driver = "postgres" => db'.banTable /\ (~db'.banIP => db'.ranged = OldBans)
          /\ driver = "sqlite3" => db'.range = "none" \/ db'.ranged = OldBans
      BY <1>c, <1>5 DEF ChangesOnly, KeptInv
    <2>4. driver # "sqlite3" => db'.conv["posts"] # "gone" /\ db'.rebuilt = {}
      BY <1>c, <1>p, <1>3, <1>4 DEF KeptInv
    <2> QED
      BY <2>1, <2>2, <2>3, <2>4 DEF KeptInv
  <1>7. k < size => ReliesOn(b, k + 1)'
    <2> SUFFICES ASSUME k < size
                 PROVE  ReliesOn(b, k + 1)'
      OBVIOUS
    <2>1. k + 1 \in 1..size /\ (k + 1 = 3 => k = 2) /\ (k + 1 = 5 => k = 4)
      BY <1>p
    <2> QED
      BY <1>5, <2>1 DEF ReliesOn
  <1>8. k = size => Repaired(b)'
    <2> SUFFICES ASSUME k = size
                 PROVE  Repaired(b)'
      OBVIOUS
    <2>1. CASE b \in Columns
      BY <1>c, <2>1 DEF ChangesOnly, Repaired, Columns, PostColumns
    <2>2. CASE b = "posts"
      <3>1. driver = "sqlite3" => size = 5
        BY <1>p, <2>2
      <3>2. ~(driver = "sqlite3" /\ k = 3)
        BY <1>p, <3>1
      <3> QED
        BY <1>3, <2>2, <3>2 DEF Repaired, Columns, PostColumns
    <2>3. CASE b = "ip_ban"
      <3>1. driver = "postgres" => k = 3
        BY <1>p, <2>3
      <3>2. driver = "sqlite3" => k = 5
        BY <1>p, <2>3
      <3>3. driver # "mysql" => db'.banTable /\ db'.ranged = OldBans
        BY <1>5, <2>3, <3>1, <3>2
      <3> QED
        BY <2>3, <3>3 DEF Repaired, Columns, PostColumns
    <2>4. CASE b = "cyclic"
      <3>1. b \notin Columns
        BY <2>4 DEF Columns, PostColumns
      <3>2. db' = [db EXCEPT !.cyclic = "cyclic"]
        BY <2>4, <3>1 DEF After
      <3>3. db'.cyclic = "cyclic"
        BY <3>2 DEF Layout
      <3> QED
        BY <2>4, <3>1, <3>3 DEF Repaired
    <2>5. CASE b \in {"collation", "foreign_keys", "reports"}
      BY <2>5 DEF Repaired, Columns, PostColumns
    <2> QED
      BY <2>1, <2>2, <2>3, <2>4, <2>5 DEF BlockNames
  <1>9. b = "posts" /\ db'.conv["posts"] = "gone" => driver = "sqlite3" /\ k = 3 /\ k < size
    <2> SUFFICES ASSUME b = "posts", db'.conv["posts"] = "gone"
                 PROVE  driver = "sqlite3" /\ k = 3 /\ k < size
      OBVIOUS
    <2>1. driver = "sqlite3" /\ k = 3
      BY <1>3
    <2>2. size = 5
      BY <1>p, <2>1
    <2> QED
      BY <2>1, <2>2
  <1>10. b = "is_secure_tripcode" => db.conv["posts"] # "gone"
    <2> SUFFICES ASSUME b = "is_secure_tripcode", db.conv["posts"] = "gone"
                 PROVE  FALSE
      OBVIOUS
    <2>1. b \in PostColumns /\ b \in Columns /\ b \notin {"posts", "reports", "ip_ban", "cyclic"}
      BY DEF PostColumns, Columns
    <2>2. After(b, st) = {}
      BY <2>1 DEF After
    <2> QED
      BY <2>2
  <1> QED
    BY <1>c, <1>4, <1>6, <1>7, <1>8, <1>9, <1>10

\* Every step keeps the part of the invariant about starts that were cut short.
LEMMA RepairStep ==
    ASSUME UpdateTypeOK, CountersInv, VersionInv, VersionInv', RepairInv, UpdateNext
    PROVE  RepairInv'
  <1> DEFINE n == startReq.block
             last == Len(Blocks)
  <1>k. driver' = driver /\ Blocks' = Blocks /\ foundOld' = foundOld
    BY DriverStays
  <1> SUFFICES ASSUME foundOld
               PROVE  RepairInv'
    BY <1>k DEF RepairInv
  <1>t. db \in Layout /\ startReq \in StartLocals /\ n \in Nat /\ n # 0
    BY StartLocalsType DEF UpdateTypeOK, CountersInv
  <1>d. driver \in {"mysql", "postgres", "sqlite3"}
    BY UpdateNumbers DEF UpdateTypeOK
  <1>l. last \in 1..11
    BY <1>d, BlocksListed
  <1>r. /\ KeptInv
        /\ InBlock => PostsThere /\ \A i \in 1..last : i < n => Repaired(Blocks[i])
        /\ startPc = "stmt" => /\ startReq.stmt \in 1..Len(Statements(Blocks[n]))
                               /\ ReliesOn(Blocks[n], startReq.stmt)
        /\ startPc \in {"row", "dropIP"} => driver = "mysql" /\ Blocks[n] = "ip_ban"
        /\ startPc \in {"legacy", "version"} \/ db.version = "current" => \A i \in 1..last : Repaired(Blocks[i])
    BY DEF RepairInv
  <1>v. startPc \in Altering \cup {"legacy", "version"} => db.version = "old"
    BY DEF VersionInv
  <1>1. CASE CheckAndInitializeDatabase
    <2>1. /\ db' = db /\ startReq' = NoStartLocals
          /\ startPc' \in {"install", "views", "filterTables", "block", "down"}
      BY <1>1 DEF CheckAndInitializeDatabase
    <2>2. KeptInv' /\ \A c : Repaired(c) => Repaired(c)'
      BY <1>k, <1>r, <2>1, SameLayoutKept DEF SameLayout
    <2>3. startReq'.block = 1
      BY <2>1, StartLocalsSteps
    <2>4. \A i \in 1..last : ~(i < 1)
      OBVIOUS
    <2>5. PostsThere'
      BY <2>3 DEF PostsThere
    <2> QED
      BY <1>k, <1>r, <2>1, <2>2, <2>3, <2>4, <2>5 DEF RepairInv
  <1>2. CASE BuildNewDatabase \/ CreateDefaultAdminIfNoStaff \/ CreateDefaultBoardIfNoneExist
    <2>1. startPc \in {"install", "admin", "board"}
      BY <1>2 DEF BuildNewDatabase, CreateDefaultAdminIfNoStaff, CreateDefaultBoardIfNoneExist
    <2> QED
      BY <2>1 DEF VersionInv
  <1>3. CASE AddFilterTable
    <2>1. /\ startPc = "filterTables" /\ startReq' = startReq /\ startPc' \in {"block", "filterTables"}
          /\ db' = [db EXCEPT !.filterTables = db.filterTables + 1]
      BY <1>3 DEF AddFilterTable, StartGoto
    <2>2. SameLayout /\ db'.version = db.version
      BY <1>t, <1>k, <2>1 DEF SameLayout, Layout
    <2>3. KeptInv' /\ \A c : Repaired(c) => Repaired(c)'
      BY <1>r, <2>2, SameLayoutKept
    <2>4. startReq'.block = 1 /\ db'.version # "current"
      BY <1>v, <2>1, <2>2 DEF CountersInv, Altering
    <2>5. \A i \in 1..last : ~(i < 1)
      OBVIOUS
    <2>6. PostsThere'
      BY <2>4 DEF PostsThere
    <2> QED
      BY <1>k, <2>1, <2>3, <2>4, <2>5, <2>6 DEF RepairInv
  <1>4. CASE CheckBlock
    <2>1. db' = db /\ startPc = "block" /\ db.version = "old"
      BY <1>4, <1>v DEF CheckBlock, Altering
    <2>2. KeptInv' /\ \A c : Repaired(c) => Repaired(c)'
      BY <1>k, <1>r, <2>1, SameLayoutKept DEF SameLayout
    <2>3. PostsThere /\ \A i \in 1..last : i < n => Repaired(Blocks[i])
      BY <1>r, <2>1 DEF InBlock
    <2>4. CASE n > last /\ startPc' = "legacy"
      <3>1. \A i \in 1..last : i < n
        BY <1>t, <1>l, <2>4
      <3> QED
        BY <1>k, <2>1, <2>2, <2>3, <2>4, <3>1 DEF RepairInv, InBlock
    <2>5. CASE /\ n <= last /\ Needed(Blocks[n]) /\ startPc' = "stmt"
               /\ startReq' = [startReq EXCEPT !.stmt = 1]
      <3>1. startReq'.block = n /\ startReq'.stmt = 1
        BY <1>t, <2>5 DEF StartLocals
      <3>2. n \in 1..last
        BY <1>t, <1>l, <2>5
      <3>3. PICK b \in BlockNames : b = Blocks[n]
        BY <1>d, <3>2, BlocksListed
      <3>4. Len(Statements(b)) \in 1..5
        BY DEF Statements, ViaTemporaryTable
      <3>5. Len(Statements(b))' = Len(Statements(b))
        BY <1>k DEF Statements
      <3>6. 1 \in 1..Len(Statements(b))' /\ ReliesOn(b, 1)'
        <4>1. 1 \in 1..Len(Statements(b))
          BY <3>4
        <4>2. ReliesOn(b, 1)'
          BY DEF ReliesOn
        <4> QED
          BY <3>5, <4>1, <4>2
      <3>7. PostsThere'
        BY <1>k, <2>1, <2>3, <3>1 DEF PostsThere
      <3> QED
        BY <1>k, <2>1, <2>2, <2>3, <2>5, <3>1, <3>3, <3>6, <3>7 DEF RepairInv
    <2>6. CASE /\ n <= last /\ ~Needed(Blocks[n]) /\ startPc' = "block"
               /\ startReq' = [startReq EXCEPT !.block = n + 1]
      <3>1. startReq'.block = n + 1
        BY <1>t, <2>6, StartLocalsSteps
      <3>2. n \in 1..last
        BY <1>t, <1>l, <2>6
      <3>3. PICK b \in BlockNames : b = Blocks[n]
        BY <1>d, <3>2, BlocksListed
      <3>4. b = "posts" => db.conv["posts"] # "gone"
        <4>1. b = "posts" /\ driver = "sqlite3" => n > 3
          BY <3>2, <3>3, BlockPositions
        <4> QED
          BY <1>r, <2>1, <2>3, <4>1 DEF PostsThere, KeptInv
      <3>5. Repaired(b)
        BY <1>t, <1>d, <1>r, <2>6, <3>3, <3>4, UnneededIsRepaired
      <3>6. \A i \in 1..last : i < n + 1 => Repaired(Blocks[i])
        <4>1. \A i \in 1..last : i < n + 1 => i < n \/ i = n
          BY <1>t
        <4> QED
          BY <2>3, <3>3, <3>5, <4>1
      <3>7. PostsThere'
        <4>1. SUFFICES ASSUME driver = "sqlite3", n + 1 > 3
                       PROVE  db.conv["posts"] # "gone"
          BY <1>k, <2>1, <3>1 DEF PostsThere
        <4>2. CASE n > 3
          BY <2>1, <2>3, <4>1, <4>2 DEF PostsThere
        <4>3. CASE n = 3
          <5>1. Blocks[n] = "is_secure_tripcode"
            BY <4>1, <4>3, BlockPositions
          <5> QED
            BY <2>6, <5>1 DEF Needed, Columns, PostColumns
        <4> QED
          BY <1>t, <4>1, <4>2, <4>3
      <3> QED
        BY <1>k, <2>1, <2>2, <2>6, <3>1, <3>6, <3>7 DEF RepairInv
    <2> QED
      BY <1>4, <2>1, <2>4, <2>5, <2>6 DEF CheckBlock, StartGoto
  <1>5. CASE ExecStatement
    <2>1. startPc = "stmt" /\ n <= last /\ db.version = "old"
      BY <1>5, <1>v DEF ExecStatement, CountersInv, Altering
    <2>2. n \in 1..last
      BY <1>t, <1>l, <2>1
    <2>3. PICK b \in BlockNames : b = Blocks[n]
      BY <1>d, <2>2, BlocksListed
    <2>4. PICK k : k = startReq.stmt
      OBVIOUS
    <2>5. CASE db' = db /\ ExitWithError
      <3>1. KeptInv'
        BY <1>k, <1>r, <2>5, SameLayoutKept DEF SameLayout
      <3> QED
        BY <2>1, <2>5, <3>1 DEF RepairInv, ExitWithError, InBlock
    <2>6. CASE /\ db' \in After(b, Statements(b)[k])
               /\ IF k < Len(Statements(b))
                  THEN startReq' = [startReq EXCEPT !.stmt = k + 1] /\ startPc' = startPc
                  ELSE IF b = "ip_ban" /\ driver = "mysql"
                  THEN startReq' = [startReq EXCEPT !.rows = OldBans] /\ startPc' = "row"
                  ELSE startReq' = [startReq EXCEPT !.block = n + 1] /\ startPc' = "block"
      <3>1. PostsThere /\ (\A i \in 1..last : i < n => Repaired(Blocks[i]))
            /\ k \in 1..Len(Statements(b)) /\ ReliesOn(b, k)
        BY <1>r, <2>1, <2>3, <2>4 DEF InBlock
      <3>a. PICK st, size : st = Statements(b)[k] /\ size = Len(Statements(b))
        OBVIOUS
      <3>p. Placed(b, k, st, size) /\ db' \in After(b, st)
        BY <1>d, <2>6, <3>1, <3>a, StatementPlaces
      <3>g. b = "posts" /\ db.conv["posts"] = "gone" => driver = "sqlite3" /\ k = 4
        <4>1. b = "posts" /\ driver = "sqlite3" => n > 3
          BY <2>2, <2>3, BlockPositions
        <4> QED
          BY <1>r, <2>4, <3>1, <4>1 DEF KeptInv, PostsThere
      <3>2. /\ KeptInv' /\ ChangesOnly(b) /\ db'.version = db.version
            /\ k < size => ReliesOn(b, k + 1)'
            /\ k = size => Repaired(b)'
            /\ b = "posts" /\ db'.conv["posts"] = "gone" => driver = "sqlite3" /\ k = 3 /\ k < size
            /\ b # "posts" => db'.conv["posts"] = db.conv["posts"]
            /\ b = "is_secure_tripcode" => db.conv["posts"] # "gone"
        BY <1>t, <1>d, <1>k, <1>r, <3>1, <3>p, <3>g, StatementRepairs
      <3>3. \A i \in 1..last : i < n => Repaired(Blocks[i])'
        <4> SUFFICES ASSUME NEW i \in 1..last, i < n
                     PROVE  Repaired(Blocks[i])'
          OBVIOUS
        <4>1. i # n
          BY <1>t
        <4>2. PICK c \in BlockNames : c = Blocks[i] /\ c # b
          BY <1>d, <2>2, <2>3, <4>1, BlocksListed
        <4>3. Repaired(c)'
          BY <1>k, <2>3, <3>1, <3>2, <4>2, OthersRepaired
        <4> QED
          BY <1>k, <4>2, <4>3
      <3>4. db'.version = "old"
        BY <2>1, <3>2
      <3>5. k \in Nat /\ k <= size /\ size \in 1..5
        BY <3>p DEF Placed
      <3>8. driver = "sqlite3" /\ n >= 3 /\ db'.conv["posts"] = "gone" => b = "posts" /\ k = 3 /\ k < size
        <4> SUFFICES ASSUME driver = "sqlite3", n >= 3, db'.conv["posts"] = "gone", b # "posts"
                     PROVE  FALSE
          BY <3>2
        <4>1. db.conv["posts"] = "gone"
          BY <3>2
        <4>2. ~(n > 3)
          BY <2>1, <2>3, <3>1, <4>1 DEF PostsThere
        <4>3. n = 3
          BY <1>t, <4>2
        <4>4. b = "is_secure_tripcode"
          BY <2>3, <4>3, BlockPositions
        <4> QED
          BY <3>2, <4>1, <4>4
      <3>6. CASE k < size
        <4>1. startReq'.block = n /\ startReq'.stmt = k + 1 /\ startPc' = "stmt"
          BY <1>t, <2>1, <2>4, <2>6, <3>a, <3>6 DEF StartLocals
        <4>2. PostsThere'
          <5>1. n > 3 => n >= 3
            BY <1>t
          <5> QED
            BY <1>k, <2>3, <3>8, <4>1, <5>1 DEF PostsThere
        <4>3. PICK m : m = k + 1
          OBVIOUS
        <4>4. ReliesOn(b, m)'
          BY <3>2, <3>6, <4>3
        <4>5. (Blocks[startReq.block])' = b /\ startReq'.stmt = m
          BY <1>k, <2>3, <4>1, <4>3
        <4>6. m \in 1..Len(Statements(b))'
          <5>1. m \in 1..size
            BY <3>5, <3>6, <4>3
          <5>2. Len(Statements(b))' = size
            BY <1>k, <3>a DEF Statements
          <5> QED
            BY <5>1, <5>2
        <4>7. (startReq.stmt \in 1..Len(Statements(Blocks[startReq.block])))'
          BY <4>5, <4>6
        <4>8. ReliesOn(Blocks[startReq.block], startReq.stmt)'
          BY <4>4, <4>5 DEF ReliesOn
        <4> QED
          BY <1>k, <3>2, <3>3, <3>4, <4>1, <4>2, <4>7, <4>8 DEF RepairInv
      <3>7. CASE ~(k < size) /\ b = "ip_ban" /\ driver = "mysql"
        <4>1. startReq'.block = n /\ startPc' = "row"
          BY <1>t, <2>6, <3>a, <3>7, StartLocalsSteps
        <4>2. PostsThere'
          BY <1>k, <3>7 DEF PostsThere
        <4> QED
          BY <1>k, <2>3, <3>2, <3>3, <3>4, <3>7, <4>1, <4>2 DEF RepairInv
      <3>9. CASE ~(k < size) /\ ~(b = "ip_ban" /\ driver = "mysql")
        <4>1. startReq'.block = n + 1 /\ startPc' = "block"
          BY <1>t, <2>6, <3>a, <3>9, StartLocalsSteps
        <4>2. Repaired(b)'
          BY <3>2, <3>5, <3>9
        <4>3. \A i \in 1..last : i < n + 1 => Repaired(Blocks[i])'
          <5>1. \A i \in 1..last : i < n + 1 => i < n \/ i = n
            BY <1>t
          <5> QED
            BY <1>k, <2>3, <3>3, <4>2, <5>1
        <4>4. PostsThere'
          <5>1. SUFFICES ASSUME driver = "sqlite3", n + 1 > 3
                         PROVE  db'.conv["posts"] # "gone"
            BY <1>k, <4>1 DEF PostsThere
          <5>2. n >= 3 /\ ~(k < size)
            BY <1>t, <3>9, <5>1
          <5> QED
            BY <3>8, <5>1, <5>2
        <4> QED
          BY <1>k, <3>2, <3>4, <4>1, <4>3, <4>4 DEF RepairInv
      <3> QED
        BY <3>a, <3>6, <3>7, <3>9
    <2> QED
      BY <1>5, <2>3, <2>4, <2>5, <2>6 DEF ExecStatement, StartGoto
  <1>6. CASE ConvertBan \/ DropBanIP
    <2>1. /\ startPc \in {"row", "dropIP"} /\ n <= last /\ db.version = "old"
          /\ driver = "mysql" /\ Blocks[n] = "ip_ban"
      BY <1>6, <1>v, <1>r DEF ConvertBan, DropBanIP, CountersInv, Altering
    <2>2. n \in 1..last
      BY <1>t, <1>l, <2>1
    <2>3. \/ db' = db \/ db' = [db EXCEPT !.banIP = FALSE]
          \/ \E ban : db' = [db EXCEPT !.ranged = db.ranged \cup {ban}]
      BY <1>6 DEF ConvertBan, DropBanIP
    <2>4. /\ db'.version = db.version /\ db'.missing = db.missing /\ db'.cyclic = db.cyclic
          /\ db'.conv = db.conv /\ db'.rebuilt = db.rebuilt
      BY <1>t, <2>3 DEF Layout
    <2>5. KeptInv' /\ (\A c : Repaired(c) => Repaired(c)') /\ Repaired("ip_ban")' /\ PostsThere'
      <3>1. KeptInv'
        BY <1>k, <1>r, <2>1, <2>4 DEF KeptInv
      <3>2. \A c : Repaired(c) => Repaired(c)'
        BY <1>k, <2>1, <2>4 DEF Repaired
      <3>3. Repaired("ip_ban")'
        BY <1>k, <2>1 DEF Repaired, Columns, PostColumns
      <3>4. PostsThere'
        BY <1>k, <2>1 DEF PostsThere
      <3> QED
        BY <3>1, <3>2, <3>3, <3>4
    <2>6. \A i \in 1..last : i < n => Repaired(Blocks[i])
      BY <1>r, <2>1 DEF InBlock
    <2>7. \/ startPc' \in {"row", "dropIP"} /\ startReq'.block = n
          \/ startPc' = "block" /\ startReq'.block = n + 1
      <3>1. CASE ConvertBan
        <4>1. \/ startPc' = "block" /\ startReq' = [startReq EXCEPT !.block = n + 1]
              \/ startPc' = "dropIP" /\ \E ban : startReq' = [startReq EXCEPT !.rows = startReq.rows \ {ban}]
          BY <3>1 DEF ConvertBan, StartGoto
        <4>2. \A ban : [startReq EXCEPT !.rows = startReq.rows \ {ban}].block = n
          BY <1>t, StartLocalsSteps
        <4>3. [startReq EXCEPT !.block = n + 1].block = n + 1
          BY <1>t, StartLocalsSteps
        <4> QED
          BY <4>1, <4>2, <4>3
      <3>2. CASE DropBanIP
        BY <3>2 DEF DropBanIP, StartGoto
      <3> QED
        BY <1>6, <3>1, <3>2
    <2>8. CASE startPc' \in {"row", "dropIP"} /\ startReq'.block = n
      BY <1>k, <2>1, <2>4, <2>5, <2>6, <2>8 DEF RepairInv
    <2>9. CASE startPc' = "block" /\ startReq'.block = n + 1
      <3>1. \A i \in 1..last : i < n + 1 => i < n \/ i = n
        BY <1>t
      <3>2. \A i \in 1..last : i < n + 1 => Repaired(Blocks[i])'
        BY <1>k, <2>1, <2>5, <2>6, <3>1
      <3> QED
        BY <1>k, <2>1, <2>4, <2>5, <2>9, <3>2 DEF RepairInv
    <2> QED
      BY <2>7, <2>8, <2>9
  <1>7. CASE MigrateLegacyTable \/ ResetViews \/ StartInterrupted
    <2>1. db' = db /\ startPc' \in {"legacy", "version", "down", "serving"}
          /\ (startPc' \in {"legacy", "version"} => startPc = "legacy")
      <3>1. CASE MigrateLegacyTable
        BY <3>1 DEF MigrateLegacyTable, ExitWithError, StartGoto
      <3>2. CASE ResetViews
        BY <3>2 DEF ResetViews, ExitWithError, StartGoto
      <3>3. CASE StartInterrupted
        BY <3>3 DEF StartInterrupted, ExitWithError
      <3> QED
        BY <1>7, <3>1, <3>2, <3>3
    <2>2. KeptInv' /\ \A c : Repaired(c) => Repaired(c)'
      BY <1>k, <1>r, <2>1, SameLayoutKept DEF SameLayout
    <2> QED
      BY <1>k, <1>r, <2>1, <2>2 DEF RepairInv, InBlock
  <1>8. CASE SetVersion
    <2>1. startPc = "version" /\ startPc' = "views" /\ db' = [db EXCEPT !.version = "current"]
      BY <1>8 DEF SetVersion, StartGoto
    <2>2. SameLayout
      BY <1>t, <1>k, <2>1 DEF SameLayout, Layout
    <2>3. KeptInv' /\ \A c : Repaired(c) => Repaired(c)'
      BY <1>r, <2>2, SameLayoutKept
    <2> QED
      BY <1>k, <1>r, <2>1, <2>3 DEF RepairInv, InBlock
  <1> QED
    BY <1>1, <1>2, <1>3, <1>4, <1>5, <1>6, <1>7, <1>8 DEF UpdateNext

\* The old layouts are what the update is written for.
LEMMA OldLayoutsFound ==
    ASSUME driver \in {"mysql", "postgres", "sqlite3"}, db \in OldLayouts(driver)
    PROVE  /\ db \in Layout /\ db.version = "old"
           /\ db.filterTables \in {0, Len(FilterTables)}
           /\ \A c \in db.missing : \E i \in 1..Len(Blocks) : Blocks[i] = c
           /\ \A i \in 1..Len(Blocks) : Found(Blocks[i])
           /\ KeptInv
  <1>1. PICK m \in {{}, {"is_spoilered"}, AddedColumns(driver)}, c \in OldCyclic(driver),
             f \in {0, Len(FilterTables)}, v \in [{"posts", "reports"} -> {"string", "binary"}],
             ban \in OldRanges(driver) : db = OldLayout(m, c, f, v, ban)
    BY DEF OldLayouts
  <1>2. db = [version |-> "old", missing |-> m, cyclic |-> c, filterTables |-> f, conv |-> v,
              banTable |-> TRUE, banIP |-> (ban = "none"), range |-> ban,
              ranged |-> IF ban = "none" THEN {} ELSE OldBans, rebuilt |-> {}, admin |-> TRUE, board |-> TRUE]
    BY <1>1 DEF Fresh, OldLayout
  <1>c. /\ c \in {"none", "cyclical", "cyclic"} /\ (c = "none" => driver = "mysql")
        /\ ban \in {"none", "string", "binary"} /\ (ban = "string" => driver = "sqlite3")
    BY DEF OldCyclic, OldRanges
  <1>3. m \subseteq AddedColumns(driver) /\ AddedColumns(driver) \subseteq Columns
    BY DEF Columns, AddedColumns
  <1>4. v \in [{"posts", "reports"} -> Conversions]
    BY DEF Conversions
  <1>5. f \in 0..Len(FilterTables)
    BY TablesCounted
  <1>6. db \in Layout
    BY <1>2, <1>c, <1>3, <1>4, <1>5 DEF Layout
  <1>7. \A b \in Columns : b \in AddedColumns(driver) => \E i \in 1..Len(Blocks) : Blocks[i] = b
    <2>1. CASE driver = "mysql"
      <3>1. Blocks = <<"collation", "ip_ban", "posts", "reports", "flag", "country",
                       "is_secure_tripcode", "is_spoilered", "cyclic">>
        BY <2>1 DEF Blocks
      <3> QED
        BY <2>1, <3>1 DEF Columns, PostColumns, AddedColumns
    <2>2. CASE driver = "postgres"
      <3>1. Blocks = <<"posts", "reports", "ip_ban", "flag", "country",
                       "is_secure_tripcode", "is_spoilered", "cyclic">>
        BY <2>2 DEF Blocks
      <3> QED
        BY <2>2, <3>1 DEF Columns, PostColumns, AddedColumns
    <2>3. CASE driver = "sqlite3"
      <3>1. Blocks = <<"foreign_keys", "cyclic", "is_secure_tripcode", "flag", "country",
                       "expires", "data", "ip_ban", "is_spoilered", "posts", "reports">>
        BY <2>3 DEF Blocks
      <3> QED
        BY <2>3, <3>1 DEF Columns, PostColumns, AddedColumns
    <2> QED
      BY <2>1, <2>2, <2>3
  <1>8. \A b \in BlockNames : Found(b)
    <2>1. \A b \in {"posts", "reports"} : Found(b)
      BY <1>2 DEF Found
    <2>2. Found("ip_ban")
      BY <1>2, <1>c DEF Found
    <2>3. Found("cyclic")
      BY <1>2, <1>c DEF Found
    <2>4. \A b \in Columns \cup {"collation", "foreign_keys"} : Found(b)
      BY DEF Found, Columns, PostColumns
    <2> QED
      BY <2>1, <2>2, <2>3, <2>4 DEF BlockNames
  <1>9. \A i \in 1..Len(Blocks) : Found(Blocks[i])
    BY <1>8, BlocksListed
  <1>10. \A b \in db.missing : \E i \in 1..Len(Blocks) : Blocks[i] = b
    BY <1>2, <1>3, <1>7
  <1>11. KeptInv
    <2>1. driver # "mysql" => db.cyclic # "none"
      BY <1>2, <1>c
    <2>2. db.banTable /\ (~db.banIP => db.ranged = OldBans) /\ (db.range = "none" \/ db.ranged = OldBans)
      BY <1>2
    <2>3. db.conv["posts"] # "gone" /\ db.rebuilt = {}
      BY <1>2
    <2> QED
      BY <1>10, <2>1, <2>2, <2>3 DEF KeptInv
  <1> QED
    BY <1>2, <1>6, <1>9, <1>10, <1>11

\* At first nothing was started.
LEMMA UpdateStart ==
    ASSUME UpdateInit
    PROVE  UpdateInv
  <1>d. driver \in SQLDrivers /\ driver \in {"mysql", "postgres", "sqlite3"}
    BY UpdateNumbers DEF UpdateInit
  <1>n. MaxStarts \in Nat
    BY UpdateNumbers
  <1>1. /\ startPc = "down" /\ startReq = NoStartLocals /\ starts = 0 /\ interrupted = FALSE
        /\ migrated = [t \in LegacyTables |-> 0] /\ foundOld = (db.version = "old")
    BY DEF UpdateInit
  <1>2. \/ db \in OldLayouts(driver)
        \/ db = Empty \/ db = Fresh("info") \/ db = Fresh("newer")
    BY DEF UpdateInit
  <1>3. db \in Layout /\ db.version \in {"old", "clean", "info", "newer"}
        /\ (db.version = "old" => db \in OldLayouts(driver))
    <2>1. CASE db \in OldLayouts(driver)
      BY <1>d, <2>1, OldLayoutsFound
    <2>2. CASE db = Empty
      <3>1. Fresh("clean") \in Layout /\ Fresh("clean").version = "clean"
        BY FreshType
      <3>2. 0 \in 0..Len(FilterTables)
        BY TablesCounted
      <3>3. Empty \in Layout /\ Empty.version = "clean"
        BY <3>1, <3>2 DEF Empty, Layout
      <3> QED
        BY <2>2, <3>3
    <2>3. CASE db = Fresh("info") \/ db = Fresh("newer")
      <3>1. Fresh("info") \in Layout /\ Fresh("info").version = "info"
        BY FreshType
      <3>2. Fresh("newer") \in Layout /\ Fresh("newer").version = "newer"
        BY FreshType
      <3> QED
        BY <2>3, <3>1, <3>2
    <2> QED
      BY <1>2, <2>1, <2>2, <2>3
  <1>4. UpdateTypeOK
    <2>1. migrated \in [LegacyTables -> 0..MaxStarts] /\ starts \in 0..MaxStarts
      BY <1>n, <1>1
    <2>2. foundOld \in BOOLEAN /\ startReq \in StartLocals
      BY <1>1, StartLocalsType
    <2> QED
      BY <1>d, <1>1, <1>3, <2>1, <2>2 DEF UpdateTypeOK
  <1>5. CountersInv
    BY <1>1, StartLocalsSteps DEF CountersInv
  <1>6. VersionInv
    BY <1>1, <1>3 DEF VersionInv, Altering
  <1>7. \A t : ~Pending(t)
    BY <1>1 DEF Pending, Altering
  <1>8. MigratedInv
    BY <1>1, <1>3, <1>7 DEF MigratedInv
  <1>9. OldLayoutInv
    BY <1>d, <1>1, <1>3, OldLayoutsFound DEF OldLayoutInv
  <1>10. UndisturbedInv
    BY <1>1, <1>3, <1>9 DEF UndisturbedInv, Undisturbed, InBlock
  <1>11. RepairInv
    <2>1. foundOld => KeptInv
      BY <1>d, <1>1, <1>3, OldLayoutsFound
    <2> QED
      BY <1>1, <1>3, <2>1 DEF RepairInv, InBlock
  <1> QED
    BY <1>4, <1>5, <1>6, <1>8, <1>10, <1>11 DEF UpdateInv

\* UpdateInv is an invariant.
LEMMA UpdateInvariant == UpdateSpec => []UpdateInv
  <1>1. UpdateInit => UpdateInv
    BY UpdateStart
  <1>2. UpdateInv /\ [UpdateNext]_updateVars => UpdateInv'
    <2> SUFFICES ASSUME UpdateInv, [UpdateNext]_updateVars
                 PROVE  UpdateInv'
      OBVIOUS
    <2>1. CASE UpdateNext
      <3>1. UpdateTypeOK /\ CountersInv /\ VersionInv /\ MigratedInv /\ UndisturbedInv /\ RepairInv
        BY DEF UpdateInv
      <3>2. UpdateTypeOK' /\ CountersInv' /\ VersionInv' /\ MigratedInv'
        BY <2>1, <3>1, UpdateTypeStep, CountersStep, VersionStep, MigratedStep
      <3>3. UndisturbedInv'
        BY <2>1, <3>1, <3>2, UndisturbedStep
      <3>4. RepairInv'
        BY <2>1, <3>1, <3>2, RepairStep
      <3> QED
        BY <3>2, <3>3, <3>4 DEF UpdateInv
    <2>2. CASE UNCHANGED updateVars
      <3>1. UNCHANGED <<driver, foundOld, db, migrated, startPc, startReq, starts, interrupted>>
        BY <2>2 DEF updateVars
      <3>2. /\ Blocks' = Blocks /\ LayoutConverted' = LayoutConverted /\ Complete' = Complete
            /\ \A t : Pending(t)' = Pending(t)
        BY <3>1 DEF Blocks, LayoutConverted, Complete, Pending
      <3>3. \A c : Found(c)' = Found(c) /\ Converted(c)' = Converted(c)
        BY <3>1 DEF Found, Converted
      <3>4. \A c : Statements(c)' = Statements(c)
        BY <3>1 DEF Statements
      <3>5. \A c, st : UnderWay(c, st)' = UnderWay(c, st)
        BY <3>1, <3>3 DEF UnderWay, ConversionFound, BansFound
      <3>6. RowsUnderWay' = RowsUnderWay
        BY <3>1, <3>2 DEF RowsUnderWay
      <3>7. BlocksInv' = BlocksInv
        BY <3>1, <3>2, <3>3, <3>4, <3>5, <3>6 DEF BlocksInv
      <3>8. UpdateTypeOK' /\ CountersInv' /\ VersionInv' /\ MigratedInv'
        BY <3>1, <3>2 DEF UpdateInv, UpdateTypeOK, CountersInv, VersionInv, MigratedInv
      <3>9. OldLayoutInv' = OldLayoutInv
        BY <3>1, <3>2, <3>3 DEF OldLayoutInv
      <3>10. UndisturbedInv'
        BY <3>1, <3>2, <3>7, <3>9 DEF UpdateInv, UndisturbedInv, Undisturbed, InBlock
      <3>11. KeptInv' = KeptInv /\ PostsThere' = PostsThere
        BY <3>1, <3>2 DEF KeptInv, PostsThere
      <3>12. /\ \A c : Repaired(c)' = Repaired(c)
             /\ \A c, k : ReliesOn(c, k)' = ReliesOn(c, k)
        BY <3>1 DEF Repaired, ReliesOn
      <3>13. RepairInv'
        BY <3>1, <3>2, <3>4, <3>11, <3>12 DEF UpdateInv, RepairInv, InBlock
      <3> QED
        BY <3>8, <3>10, <3>13 DEF UpdateInv
    <2> QED
      BY <2>1, <2>2
  <1> QED
    BY <1>1, <1>2, PTL DEF UpdateSpec

\* The layout, the counters and the steps of a start have their types in every state.
THEOREM UpdateTypeCorrect == UpdateSpec => []UpdateTypeOK
  <1>1. UpdateInv => UpdateTypeOK
    BY DEF UpdateInv
  <1> QED
    BY <1>1, UpdateInvariant, PTL

\* However often the update is cut short, the server never runs before the rows of every legacy
\* table were made into filters.
THEOREM LegacyFiltersSurviveCorrect == UpdateSpec => []LegacyFiltersSurvive
  <1>1. UpdateInv => LegacyFiltersSurvive
    BY DEF UpdateInv, VersionInv, MigratedInv, LegacyFiltersSurvive
  <1> QED
    BY <1>1, UpdateInvariant, PTL

\* A new database is served only when it is complete, also if its creation was cut short.
THEOREM NewDatabaseIsWholeCorrect == UpdateSpec => []NewDatabaseIsWhole
  <1>1. UpdateInv => NewDatabaseIsWhole
    BY DEF UpdateInv, VersionInv, NewDatabaseIsWhole
  <1> QED
    BY <1>1, UpdateInvariant, PTL

\* An update that was not cut short converts the columns and the values to the layout of this
\* release, loses no ban, and makes every legacy table into filters once, with every driver and for
\* every number of bans; with mysql and postgres the tables keep their keys as well.
THEOREM UninterruptedUpdateCorrect == UpdateSpec => []UninterruptedUpdateConverts
  <1>1. UpdateInv => UninterruptedUpdateConverts
    <2> SUFFICES ASSUME UpdateInv, startPc = "serving", ~interrupted
                 PROVE  /\ LayoutConverted
                        /\ driver # "sqlite3" => db.rebuilt = {}
                        /\ \A t \in LegacyTables : migrated[t] <= 1
      BY DEF UninterruptedUpdateConverts
    <2>1. db.version = "current" /\ Undisturbed
      BY DEF UpdateInv, VersionInv, UndisturbedInv
    <2>2. driver # "sqlite3" => db.rebuilt = {}
      BY <2>1 DEF UpdateInv, UpdateTypeOK, VersionInv, Complete, RepairInv, KeptInv
    <2> QED
      BY <2>1, <2>2 DEF Undisturbed
  <1> QED
    BY <1>1, UpdateInvariant, PTL

\* However often an update is cut short, the old database is served with every column and with its
\* posts, and outside MySQL with all of its bans.
THEOREM RestartsRepairTheUpdateCorrect == UpdateSpec => []RestartsRepairTheUpdate
  <1>1. UpdateInv => RestartsRepairTheUpdate
    <2> SUFFICES ASSUME UpdateInv, startPc = "serving", foundOld
                 PROVE  /\ db.missing = {} /\ db.cyclic = "cyclic"
                        /\ db.conv["posts"] # "gone"
                        /\ driver # "mysql" => db.banTable /\ db.ranged = OldBans
      BY DEF RestartsRepairTheUpdate
    <2>1. db.version = "current"
      BY DEF UpdateInv, VersionInv
    <2>2. KeptInv /\ \A i \in 1..Len(Blocks) : Repaired(Blocks[i])
      BY <2>1 DEF UpdateInv, RepairInv
    <2>3. db \in Layout /\ driver \in {"mysql", "postgres", "sqlite3"}
      BY UpdateNumbers DEF UpdateInv, UpdateTypeOK
    <2>4. \A b \in {"posts", "ip_ban", "cyclic"} : Repaired(b)
      BY <2>2, <2>3, BlocksListed
    <2>5. \A c \in db.missing : Repaired(c) /\ c \in Columns
      BY <2>2, <2>3 DEF KeptInv, Layout
    <2>6. db.missing = {}
      BY <2>5 DEF Repaired, Columns, PostColumns
    <2> QED
      BY <2>4, <2>6 DEF Repaired, Columns, PostColumns
  <1> QED
    BY <1>1, UpdateInvariant, PTL

-----------------------------------------------------------------------------
(* The ids of new rows.  That a finite set of ids has a largest element would   *)
(* need an induction; where Latest may return a row of another request, its     *)
(* value is left open.                                                          *)

LatestIDs == Nat \cup {Latest(ids) : ids \in SUBSET Nat}
InsertRecords == [thread: LatestIDs, post: Nat, newThread: Nat, newPost: Nat, postThread: LatestIDs,
                  snapshot: [taken: BOOLEAN, threads: SUBSET Nat, posts: SUBSET Nat]]
Uncommitted == {"start", "insertThread", "threadID", "locked", "insertPost", "postID", "commit"}

RowsOK ==
    /\ insertPc \in [Requests -> InsertSteps]
    /\ insertReq \in [Requests -> InsertRecords]
    /\ lastThread \in Nat \ {0} /\ lastPost \in Nat \ {0}

\* The ids of a request's rows, and what it may have seen of the others.
OwnRows(r) ==
    LET req == insertReq[r] IN
    /\ req.newThread <= lastThread /\ req.newPost <= lastPost
    /\ \A i \in req.snapshot.posts : i <= lastPost
    /\ insertPc[r] \in Uncommitted \ {"postID", "commit"} => req.newPost = 0
    /\ insertPc[r] \in {"start", "insertThread", "locked"} => req.newThread = 0
    /\ insertPc[r] = "threadID" => req.newThread # 0
    /\ insertPc[r] \in {"postID", "commit", "committed"} => req.newPost # 0
    /\ insertPc[r] \in {"commit", "committed"} => req.post \in {req.newPost, 0}
\* MySQL: the snapshot is older than the request's post.
OldSnapshot(r) ==
    LET req == insertReq[r] IN
    database = "mysql" =>
       /\ insertPc[r] \in {"insertPost", "postID"} => req.snapshot.taken
       /\ insertPc[r] = "postID" => \A i \in req.snapshot.posts : i < req.newPost
\* SQLite: nobody writes after a request until it has committed.
LastWriter(r) ==
    LET req == insertReq[r] IN
    database = "sqlite3" =>
       /\ insertPc[r] \in Uncommitted =>
             /\ req.newThread # 0 => req.newThread = lastThread
             /\ req.newPost # 0 => req.newPost = lastPost
       /\ insertPc[r] \in {"insertPost", "postID", "commit", "committed"} /\ req.newThread # 0 =>
             req.thread = req.newThread

InsertInv ==
    database \in {"mysql", "sqlite3"} => RowsOK /\ \A r \in Requests : OwnRows(r) /\ OldSnapshot(r) /\ LastWriter(r)

\* An id of the set that no other one exceeds is the latest one.
LEMMA LatestIs ==
    ASSUME NEW ids \in SUBSET Nat, NEW m \in ids, \A j \in ids : j <= m
    PROVE  Latest(ids) = m
  <1>1. \E i \in ids : \A j \in ids : j <= i
    OBVIOUS
  <1>2. Latest(ids) \in ids /\ \A j \in ids : j <= Latest(ids)
    BY <1>1 DEF Latest
  <1>3. Latest(ids) <= m /\ m <= Latest(ids) /\ Latest(ids) \in Nat /\ m \in Nat
    BY <1>2
  <1> QED
    BY <1>3

\* The fields of a request's variables.
LEMMA RecordFields ==
    ASSUME NEW q \in InsertRecords
    PROVE  /\ q.thread \in LatestIDs /\ q.post \in Nat /\ q.newThread \in Nat /\ q.newPost \in Nat
           /\ q.postThread \in LatestIDs
           /\ q.snapshot \in [taken: BOOLEAN, threads: SUBSET Nat, posts: SUBSET Nat]
           /\ q.snapshot.taken \in BOOLEAN /\ q.snapshot.threads \in SUBSET Nat
           /\ q.snapshot.posts \in SUBSET Nat
  BY DEF InsertRecords

\* A SELECT sees rows that were inserted before.
LEMMA SeenRows ==
    ASSUME RowsOK, \A q \in Requests : OwnRows(q), NEW r \in Requests
    PROVE  /\ SnapshotOf(r) \in [taken: BOOLEAN, threads: SUBSET Nat, posts: SUBSET Nat]
           /\ SnapshotOf(r).taken = TRUE
           /\ SnapshotOf(r).threads \in SUBSET Nat /\ SnapshotOf(r).posts \in SUBSET Nat
           /\ \A i \in SnapshotOf(r).posts : i <= lastPost
           /\ database # "mysql" => \A i \in SnapshotOf(r).threads : i <= lastThread
           /\ database = "mysql" /\ insertReq[r].snapshot.taken => SnapshotOf(r) = insertReq[r].snapshot
  <1>1. \A q \in Requests : /\ insertReq[q].newThread \in Nat /\ insertReq[q].newPost \in Nat
                            /\ insertReq[q].newThread <= lastThread /\ insertReq[q].newPost <= lastPost
    BY RecordFields DEF RowsOK, OwnRows
  <1>2. CommittedThreads \in SUBSET Nat /\ \A i \in CommittedThreads : i <= lastThread
    BY <1>1 DEF CommittedThreads, RowsOK
  <1>3. CommittedPosts \in SUBSET Nat /\ \A i \in CommittedPosts : i <= lastPost
    BY <1>1 DEF CommittedPosts, RowsOK
  <1>4. /\ CurrentSnapshot \in [taken: BOOLEAN, threads: SUBSET Nat, posts: SUBSET Nat]
        /\ CurrentSnapshot.taken = TRUE /\ CurrentSnapshot.threads = CommittedThreads
        /\ CurrentSnapshot.posts = CommittedPosts
    BY <1>2, <1>3 DEF CurrentSnapshot
  <1>5. /\ insertReq[r].snapshot \in [taken: BOOLEAN, threads: SUBSET Nat, posts: SUBSET Nat]
        /\ insertReq[r].snapshot.threads \in SUBSET Nat /\ insertReq[r].snapshot.posts \in SUBSET Nat
        /\ insertReq[r].snapshot.taken \in BOOLEAN
    BY RecordFields DEF RowsOK
  <1>6. \A i \in insertReq[r].snapshot.posts : i <= lastPost
    BY DEF OwnRows
  <1>7. CASE database = "mysql" /\ insertReq[r].snapshot.taken
    <2>1. SnapshotOf(r) = insertReq[r].snapshot
      BY <1>7 DEF SnapshotOf
    <2> QED
      BY <1>5, <1>6, <1>7, <2>1
  <1>8. CASE ~(database = "mysql" /\ insertReq[r].snapshot.taken)
    <2>1. SnapshotOf(r) = CurrentSnapshot
      BY <1>8 DEF SnapshotOf
    <2> QED
      BY <1>2, <1>3, <1>4, <1>8, <2>1
  <1> QED
    BY <1>7, <1>8

\* What a step of request r leaves of the others; it inserts a row only when it may write.
OthersRows(r) ==
    /\ \A q \in Requests \ {r} : insertPc'[q] = insertPc[q] /\ insertReq'[q] = insertReq[q]
    /\ database' = database
    /\ lastThread' \in {lastThread, lastThread + 1} /\ lastPost' \in {lastPost, lastPost + 1}
    /\ lastThread' # lastThread \/ lastPost' # lastPost => MayWrite(r)

\* Such a step keeps what the invariant says of any other request, which may have written only
\* when this one may not.
LEMMA OthersKeepRows ==
    ASSUME RowsOK, NEW r \in Requests, OthersRows(r), NEW q \in Requests \ {r},
           OwnRows(q), OldSnapshot(q), LastWriter(q)
    PROVE  OwnRows(q)' /\ OldSnapshot(q)' /\ LastWriter(q)'
  <1>1. /\ insertPc'[q] = insertPc[q] /\ insertReq'[q] = insertReq[q] /\ database' = database
        /\ lastThread' \in {lastThread, lastThread + 1} /\ lastPost' \in {lastPost, lastPost + 1}
    BY DEF OthersRows
  <1>2. PICK mine \in InsertRecords : mine = insertReq[q]
    BY DEF RowsOK
  <1>3. /\ mine.newThread \in Nat /\ mine.newPost \in Nat /\ mine.snapshot.posts \in SUBSET Nat
        /\ lastThread \in Nat /\ lastPost \in Nat /\ mine = insertReq'[q]
    BY <1>1, <1>2, RecordFields DEF RowsOK
  <1>4. OwnRows(q)'
    BY <1>1, <1>2, <1>3 DEF OwnRows
  <1>5. OldSnapshot(q)'
    BY <1>1, <1>2, <1>3 DEF OldSnapshot
  <1>6. LastWriter(q)'
    <2>1. CASE lastThread' = lastThread /\ lastPost' = lastPost
      BY <1>1, <2>1 DEF LastWriter
    <2>2. CASE lastThread' # lastThread \/ lastPost' # lastPost
      <3>1. database = "sqlite3" => \/ insertPc[q] \in {"committed", "rolledBack"}
                                    \/ mine.newThread = 0 /\ mine.newPost = 0
        BY <1>2, <2>2 DEF OthersRows, MayWrite
      <3> QED
        BY <1>1, <1>2, <1>3, <3>1 DEF LastWriter, Uncommitted
    <2> QED
      BY <2>1, <2>2
  <1> QED
    BY <1>4, <1>5, <1>6

\* A step of request r that leaves the record new of its variables.
LEMMA RequestWrites ==
    ASSUME RowsOK, NEW r \in Requests, NEW new \in InsertRecords, NEW step \in InsertSteps,
           insertReq' = [insertReq EXCEPT ![r] = new], InsertGoto(r, step), database' = database,
           lastThread' \in {lastThread, lastThread + 1}, lastPost' \in {lastPost, lastPost + 1},
           lastThread' # lastThread \/ lastPost' # lastPost => MayWrite(r)
    PROVE  /\ RowsOK' /\ OthersRows(r)
           /\ insertReq'[r] = new /\ insertPc'[r] = step
  <1>1. insertReq' \in [Requests -> InsertRecords] /\ insertPc' \in [Requests -> InsertSteps]
    BY DEF RowsOK, InsertGoto
  <1>2. insertReq'[r] = new /\ insertPc'[r] = step
    BY DEF RowsOK, InsertGoto
  <1>3. \A q \in Requests \ {r} : insertPc'[q] = insertPc[q] /\ insertReq'[q] = insertReq[q]
    BY DEF RowsOK, InsertGoto
  <1>4. lastThread' \in Nat \ {0} /\ lastPost' \in Nat \ {0}
    BY DEF RowsOK
  <1> QED
    BY <1>1, <1>2, <1>3, <1>4 DEF RowsOK, OthersRows

\* Every step of an insert keeps the invariant, with MySQL and with SQLite.
LEMMA InsertStep ==
    ASSUME InsertInv, InsertNext, database \in {"mysql", "sqlite3"}
    PROVE  RowsOK' /\ \A r \in Requests : OwnRows(r)' /\ OldSnapshot(r)' /\ LastWriter(r)'
  <1>i. RowsOK /\ \A q \in Requests : OwnRows(q) /\ OldSnapshot(q) /\ LastWriter(q)
    BY DEF InsertInv
  <1> SUFFICES \E r \in Requests : RowsOK' /\ OthersRows(r) /\ OwnRows(r)' /\ OldSnapshot(r)' /\ LastWriter(r)'
    <2>1. PICK r \in Requests : RowsOK' /\ OthersRows(r) /\ OwnRows(r)' /\ OldSnapshot(r)' /\ LastWriter(r)'
      OBVIOUS
    <2>2. \A q \in Requests \ {r} : OwnRows(q)' /\ OldSnapshot(q)' /\ LastWriter(q)'
      BY <1>i, <2>1, OthersKeepRows
    <2> QED
      BY <2>1, <2>2
  <1>r. PICK r \in Requests :
          \/ BeginInsert(r) \/ InsertThreadRow(r) \/ SelectThreadID(r) \/ SelectLocked(r)
          \/ InsertPostRow(r) \/ SelectPostID(r) \/ CommitInsert(r) \/ RollbackInsert(r)
    BY DEF InsertNext
  <1> SUFFICES RowsOK' /\ OthersRows(r) /\ OwnRows(r)' /\ OldSnapshot(r)' /\ LastWriter(r)'
    OBVIOUS
  <1>m. PICK mine \in InsertRecords : mine = insertReq[r]
    BY <1>i DEF RowsOK
  <1>f. /\ mine.thread \in LatestIDs /\ mine.post \in Nat /\ mine.newThread \in Nat /\ mine.newPost \in Nat
        /\ mine.snapshot.posts \in SUBSET Nat /\ mine.snapshot.taken \in BOOLEAN
        /\ lastThread \in Nat /\ lastPost \in Nat /\ lastThread # 0 /\ lastPost # 0
    BY <1>i, RecordFields DEF RowsOK
  <1>o. OwnRows(r) /\ OldSnapshot(r) /\ LastWriter(r)
    BY <1>i
  <1>d. insertReq \in [Requests -> InsertRecords]
    BY <1>i DEF RowsOK
  <1>s. PICK seen \in [taken: BOOLEAN, threads: SUBSET Nat, posts: SUBSET Nat] :
          /\ seen = SnapshotOf(r)
          /\ seen.taken = TRUE /\ seen.threads \in SUBSET Nat /\ seen.posts \in SUBSET Nat
          /\ \A i \in seen.posts : i <= lastPost
          /\ database # "mysql" => \A i \in seen.threads : i <= lastThread
          /\ database = "mysql" /\ mine.snapshot.taken => seen = mine.snapshot
    BY <1>i, <1>m, SeenRows
  <1>1. CASE BeginInsert(r)
    <2>1. PICK step \in {"insertThread", "locked"} : InsertGoto(r, step)
      BY <1>1 DEF BeginInsert
    <2>2. /\ insertPc[r] = "start" /\ insertReq' = insertReq
          /\ database' = database /\ lastThread' = lastThread /\ lastPost' = lastPost
      BY <1>1 DEF BeginInsert
    <2>3. step \in InsertSteps /\ insertReq' = [insertReq EXCEPT ![r] = mine]
      BY <1>d, <1>m, <2>2 DEF InsertSteps
    <2>4. RowsOK' /\ OthersRows(r) /\ insertReq'[r] = mine /\ insertPc'[r] = step
      BY <1>i, <2>1, <2>2, <2>3, RequestWrites
    <2>5. OwnRows(r)'
      BY <1>o, <1>m, <2>1, <2>2, <2>4 DEF OwnRows, Uncommitted
    <2>6. OldSnapshot(r)' /\ LastWriter(r)'
      BY <1>o, <1>m, <2>1, <2>2, <2>4 DEF OldSnapshot, LastWriter, Uncommitted
    <2> QED
      BY <2>4, <2>5, <2>6
  <1>2. CASE InsertThreadRow(r)
    <2> DEFINE new == [mine EXCEPT !.newThread = lastThread + 1]
    <2>1. /\ insertPc[r] = "insertThread" /\ MayWrite(r) /\ InsertGoto(r, "threadID")
          /\ insertReq' = [insertReq EXCEPT ![r] = new]
          /\ database' = database /\ lastThread' = lastThread + 1 /\ lastPost' = lastPost
      BY <1>2, <1>m DEF InsertThreadRow
    <2>2. /\ new \in InsertRecords /\ new.newThread = lastThread + 1 /\ new.newPost = mine.newPost
          /\ new.snapshot = mine.snapshot /\ new.post = mine.post /\ new.thread = mine.thread
      BY <1>f DEF InsertRecords
    <2> HIDE DEF new
    <2>3. RowsOK' /\ OthersRows(r) /\ insertReq'[r] = new /\ insertPc'[r] = "threadID"
      <3>1. "threadID" \in InsertSteps
        BY DEF InsertSteps
      <3> QED
        BY <1>i, <2>1, <2>2, <3>1, RequestWrites
    <2>4. mine.newPost = 0
      BY <1>o, <1>m, <2>1 DEF OwnRows, Uncommitted
    <2>5. OwnRows(r)'
      BY <1>o, <1>m, <1>f, <2>1, <2>2, <2>3, <2>4 DEF OwnRows, Uncommitted
    <2>6. OldSnapshot(r)' /\ LastWriter(r)'
      BY <1>f, <2>1, <2>2, <2>3, <2>4 DEF OldSnapshot, LastWriter, Uncommitted
    <2> QED
      BY <2>3, <2>5, <2>6
  <1>3. CASE SelectThreadID(r)
    <2> DEFINE latest == Latest(seen.threads \cup {mine.newThread})
               new == [mine EXCEPT !.thread = latest, !.snapshot = seen]
    <2>1. /\ insertPc[r] = "threadID" /\ InsertGoto(r, "insertPost")
          /\ insertReq' = [insertReq EXCEPT ![r] = new]
          /\ database' = database /\ lastThread' = lastThread /\ lastPost' = lastPost
      <3>1. /\ insertPc[r] = "threadID" /\ InsertGoto(r, "insertPost")
            /\ database' = database /\ lastThread' = lastThread /\ lastPost' = lastPost
        BY <1>3 DEF SelectThreadID
      <3>2. insertReq' = [insertReq EXCEPT ![r].thread = latest, ![r].snapshot = seen]
        BY <1>3, <1>m, <1>s DEF SelectThreadID
      <3>3. insertReq' = [insertReq EXCEPT ![r] = new]
        BY <1>d, <1>m, <3>2
      <3> QED
        BY <3>1, <3>3
    <2>2. seen.threads \cup {mine.newThread} \in SUBSET Nat
      BY <1>f, <1>s
    <2>3. latest \in LatestIDs
      BY <2>2 DEF LatestIDs
    <2>4. database = "sqlite3" => latest = mine.newThread
      <3>1. SUFFICES ASSUME database = "sqlite3"
                     PROVE  latest = mine.newThread
        OBVIOUS
      <3>2. mine.newThread = lastThread
        BY <1>o, <1>m, <2>1, <3>1 DEF OwnRows, LastWriter, Uncommitted
      <3>3. \A j \in seen.threads \cup {mine.newThread} : j <= mine.newThread
        BY <1>f, <1>s, <3>1, <3>2
      <3> QED
        BY <2>2, <3>3, LatestIs
    <2> HIDE DEF latest
    <2>5. /\ new \in InsertRecords /\ new.newThread = mine.newThread /\ new.newPost = mine.newPost
          /\ new.snapshot = seen /\ new.post = mine.post /\ new.thread = latest
      BY <1>f, <1>s, <2>3 DEF InsertRecords
    <2> HIDE DEF new
    <2>6. RowsOK' /\ OthersRows(r) /\ insertReq'[r] = new /\ insertPc'[r] = "insertPost"
      <3>1. "insertPost" \in InsertSteps
        BY DEF InsertSteps
      <3> QED
        BY <1>i, <2>1, <2>5, <3>1, RequestWrites
    <2>7. OwnRows(r)'
      BY <1>o, <1>m, <1>f, <1>s, <2>1, <2>5, <2>6 DEF OwnRows, Uncommitted
    <2>8. OldSnapshot(r)' /\ LastWriter(r)'
      BY <1>o, <1>m, <1>s, <2>1, <2>4, <2>5, <2>6 DEF OldSnapshot, LastWriter, Uncommitted
    <2> QED
      BY <2>6, <2>7, <2>8
  <1>4. CASE SelectLocked(r)
    <2> DEFINE new == [mine EXCEPT !.thread = 1, !.snapshot = seen]
    <2>1. /\ insertPc[r] = "locked" /\ InsertGoto(r, "insertPost")
          /\ insertReq' = [insertReq EXCEPT ![r] = new]
          /\ database' = database /\ lastThread' = lastThread /\ lastPost' = lastPost
      <3>1. /\ insertPc[r] = "locked" /\ InsertGoto(r, "insertPost")
            /\ database' = database /\ lastThread' = lastThread /\ lastPost' = lastPost
        BY <1>4 DEF SelectLocked
      <3>2. insertReq' = [insertReq EXCEPT ![r].thread = 1, ![r].snapshot = seen]
        BY <1>4, <1>m, <1>s DEF SelectLocked
      <3>3. insertReq' = [insertReq EXCEPT ![r] = new]
        BY <1>d, <1>m, <3>2
      <3> QED
        BY <3>1, <3>3
    <2>2. 1 \in LatestIDs
      BY DEF LatestIDs
    <2>5. /\ new \in InsertRecords /\ new.newThread = mine.newThread /\ new.newPost = mine.newPost
          /\ new.snapshot = seen /\ new.post = mine.post
      BY <1>f, <1>s, <2>2 DEF InsertRecords
    <2> HIDE DEF new
    <2>6. RowsOK' /\ OthersRows(r) /\ insertReq'[r] = new /\ insertPc'[r] = "insertPost"
      <3>1. "insertPost" \in InsertSteps
        BY DEF InsertSteps
      <3> QED
        BY <1>i, <2>1, <2>5, <3>1, RequestWrites
    <2>7. OwnRows(r)'
      BY <1>o, <1>m, <1>f, <1>s, <2>1, <2>5, <2>6 DEF OwnRows, Uncommitted
    <2>8. OldSnapshot(r)' /\ LastWriter(r)'
      BY <1>o, <1>m, <1>s, <2>1, <2>5, <2>6 DEF OldSnapshot, LastWriter, OwnRows, Uncommitted
    <2> QED
      BY <2>6, <2>7, <2>8
  <1>5. CASE InsertPostRow(r)
    <2> DEFINE new == [mine EXCEPT !.newPost = lastPost + 1, !.postThread = mine.thread]
    <2>1. /\ insertPc[r] = "insertPost" /\ MayWrite(r) /\ InsertGoto(r, "postID")
          /\ insertReq' = [insertReq EXCEPT ![r] = new]
          /\ database' = database /\ lastThread' = lastThread /\ lastPost' = lastPost + 1
      <3>1. /\ insertPc[r] = "insertPost" /\ MayWrite(r) /\ InsertGoto(r, "postID")
            /\ database' = database /\ lastThread' = lastThread /\ lastPost' = lastPost + 1
        BY <1>5 DEF InsertPostRow
      <3>2. insertReq' = [insertReq EXCEPT ![r].newPost = lastPost + 1, ![r].postThread = mine.thread]
        BY <1>5, <1>m DEF InsertPostRow
      <3>3. insertReq' = [insertReq EXCEPT ![r] = new]
        BY <1>d, <1>m, <3>2
      <3> QED
        BY <3>1, <3>3
    <2>5. /\ new \in InsertRecords /\ new.newThread = mine.newThread /\ new.newPost = lastPost + 1
          /\ new.snapshot = mine.snapshot /\ new.post = mine.post /\ new.thread = mine.thread
      <3>1. PICK n \in Nat : n = lastPost + 1
        BY <1>f
      <3>2. new = [mine EXCEPT !.newPost = n, !.postThread = mine.thread]
        BY <3>1
      <3>3. new \in InsertRecords
        BY <1>f, <3>2 DEF InsertRecords
      <3> QED
        BY <3>1, <3>3 DEF InsertRecords
    <2> HIDE DEF new
    <2>6. RowsOK' /\ OthersRows(r) /\ insertReq'[r] = new /\ insertPc'[r] = "postID"
      <3>1. "postID" \in InsertSteps
        BY DEF InsertSteps
      <3> QED
        BY <1>i, <2>1, <2>5, <3>1, RequestWrites
    <2>7. OwnRows(r)'
      BY <1>o, <1>m, <1>f, <2>1, <2>5, <2>6 DEF OwnRows, Uncommitted
    <2>8. OldSnapshot(r)'
      BY <1>o, <1>m, <1>f, <2>1, <2>5, <2>6 DEF OldSnapshot, OwnRows
    <2>9. LastWriter(r)'
      BY <1>o, <1>m, <1>f, <2>1, <2>5, <2>6 DEF LastWriter, Uncommitted
    <2> QED
      BY <2>6, <2>7, <2>8, <2>9
  <1>6. CASE SelectPostID(r)
    <2>0. insertPc[r] = "postID"
      BY <1>6 DEF SelectPostID
    <2>1. Latest(seen.posts \cup {mine.newPost}) = mine.newPost
      <3>1. \A j \in seen.posts \cup {mine.newPost} : j <= mine.newPost
        <4>1. CASE database = "mysql"
          <5>1. mine.snapshot.taken /\ \A i \in mine.snapshot.posts : i < mine.newPost
            BY <1>o, <1>m, <2>0, <4>1 DEF OldSnapshot
          <5> QED
            BY <1>f, <1>s, <4>1, <5>1
        <4>2. CASE database = "sqlite3"
          <5>1. mine.newPost = lastPost
            BY <1>o, <1>m, <2>0, <4>2 DEF OwnRows, LastWriter, Uncommitted
          <5> QED
            BY <1>f, <1>s, <5>1
        <4> QED
          BY <4>1, <4>2
      <3>2. seen.posts \cup {mine.newPost} \in SUBSET Nat
        BY <1>f, <1>s
      <3> QED
        BY <3>1, <3>2, LatestIs
    <2>2. PICK id \in {mine.newPost, 0} : insertReq' = [insertReq EXCEPT ![r].post = id, ![r].snapshot = seen]
      <3>1. PICK id \in {Latest(seen.posts \cup {mine.newPost})} \cup (IF MayFail THEN {0} ELSE {}) :
               insertReq' = [insertReq EXCEPT ![r].post = id, ![r].snapshot = seen]
        BY <1>6, <1>m, <1>s DEF SelectPostID
      <3> QED
        BY <2>1, <3>1
    <2> DEFINE new == [mine EXCEPT !.post = id, !.snapshot = seen]
    <2>3. /\ InsertGoto(r, "commit") /\ insertReq' = [insertReq EXCEPT ![r] = new]
          /\ database' = database /\ lastThread' = lastThread /\ lastPost' = lastPost
      <3>1. /\ InsertGoto(r, "commit")
            /\ database' = database /\ lastThread' = lastThread /\ lastPost' = lastPost
        BY <1>6 DEF SelectPostID
      <3>2. insertReq' = [insertReq EXCEPT ![r] = new]
        BY <1>d, <1>m, <2>2
      <3> QED
        BY <3>1, <3>2
    <2>5. /\ new \in InsertRecords /\ new.newThread = mine.newThread /\ new.newPost = mine.newPost
          /\ new.snapshot = seen /\ new.post = id /\ new.thread = mine.thread
      <3>1. id \in Nat
        BY <1>f, <2>2
      <3> QED
        BY <1>f, <1>s, <3>1 DEF InsertRecords
    <2> HIDE DEF new
    <2>6. RowsOK' /\ OthersRows(r) /\ insertReq'[r] = new /\ insertPc'[r] = "commit"
      <3>1. "commit" \in InsertSteps
        BY DEF InsertSteps
      <3> QED
        BY <1>i, <2>3, <2>5, <3>1, RequestWrites
    <2>7. OwnRows(r)'
      BY <1>o, <1>m, <1>f, <1>s, <2>0, <2>3, <2>5, <2>6 DEF OwnRows, Uncommitted
    <2>8. OldSnapshot(r)' /\ LastWriter(r)'
      BY <1>o, <1>m, <2>0, <2>3, <2>5, <2>6 DEF OldSnapshot, LastWriter, Uncommitted
    <2> QED
      BY <2>6, <2>7, <2>8
  <1>7. CASE CommitInsert(r) \/ RollbackInsert(r)
    <2>1. PICK step \in {"committed", "rolledBack"} :
             InsertGoto(r, step) /\ (step = "committed" => insertPc[r] = "commit")
      BY <1>7 DEF CommitInsert, RollbackInsert
    <2>2. /\ insertReq' = insertReq
          /\ database' = database /\ lastThread' = lastThread /\ lastPost' = lastPost
      BY <1>7 DEF CommitInsert, RollbackInsert
    <2>3. step \in InsertSteps /\ insertReq' = [insertReq EXCEPT ![r] = mine]
      BY <1>d, <1>m, <2>2 DEF InsertSteps
    <2>4. RowsOK' /\ OthersRows(r) /\ insertReq'[r] = mine /\ insertPc'[r] = step
      BY <1>i, <2>1, <2>2, <2>3, RequestWrites
    <2>5. OwnRows(r)'
      BY <1>o, <1>m, <2>1, <2>2, <2>4 DEF OwnRows, Uncommitted
    <2>6. OldSnapshot(r)' /\ LastWriter(r)'
      BY <1>o, <1>m, <2>1, <2>2, <2>4 DEF OldSnapshot, LastWriter, Uncommitted
    <2> QED
      BY <2>4, <2>5, <2>6
  <1> QED
    BY <1>r, <1>1, <1>2, <1>3, <1>4, <1>5, <1>6, <1>7

\* At first no request has inserted anything.
LEMMA InsertStart ==
    ASSUME InsertInit
    PROVE  InsertInv
  <1> DEFINE none == [thread |-> 0, post |-> 0, newThread |-> 0, newPost |-> 0,
                      postThread |-> 0, snapshot |-> NoSnapshot]
  <1>1. none \in InsertRecords
    BY DEF InsertRecords, NoSnapshot, LatestIDs
  <1>2. /\ none.newThread = 0 /\ none.newPost = 0 /\ none.snapshot.posts = {}
    BY DEF NoSnapshot
  <1>3. /\ \A r \in Requests : insertPc[r] = "start" /\ insertReq[r] = none
        /\ lastThread = 1 /\ lastPost = 1
        /\ insertPc = [r \in Requests |-> "start"] /\ insertReq = [r \in Requests |-> none]
    BY DEF InsertInit
  <1> HIDE DEF none
  <1>4. RowsOK
    BY <1>1, <1>3 DEF RowsOK, InsertSteps
  <1>5. \A r \in Requests : OwnRows(r)
    BY <1>2, <1>3 DEF OwnRows
  <1>6. \A r \in Requests : OldSnapshot(r) /\ LastWriter(r)
    BY <1>2, <1>3 DEF OldSnapshot, LastWriter
  <1> QED
    BY <1>4, <1>5, <1>6 DEF InsertInv

\* Every step keeps the invariant, with every database.
LEMMA InsertInvInductive ==
    ASSUME InsertInv, [InsertNext]_insertVars
    PROVE  InsertInv'
  <1>1. CASE InsertNext
    <2>1. database' = database
      BY <1>1 DEF InsertNext, BeginInsert, InsertThreadRow, SelectThreadID, SelectLocked,
                  InsertPostRow, SelectPostID, CommitInsert, RollbackInsert
    <2> QED
      BY <1>1, <2>1, InsertStep DEF InsertInv
  <1>2. CASE UNCHANGED insertVars
    <2>1. UNCHANGED <<database, insertPc, insertReq, lastThread, lastPost>>
      BY <1>2 DEF insertVars
    <2>2. RowsOK' = RowsOK
      BY <2>1 DEF RowsOK
    <2>3. \A r \in Requests : OwnRows(r)' = OwnRows(r) /\ OldSnapshot(r)' = OldSnapshot(r)
                              /\ LastWriter(r)' = LastWriter(r)
      BY <2>1 DEF OwnRows, OldSnapshot, LastWriter
    <2> QED
      BY <2>1, <2>2, <2>3 DEF InsertInv
  <1> QED
    BY <1>1, <1>2

\* With SQLite and MySQL the id a post goes on with is its own or 0, with SQLite that of a thread,
\* too, for any number of requests.
THEOREM IDsAreOwnCorrect == InsertSpec => []IDsAreOwn
  <1>1. InsertInit => InsertInv
    BY InsertStart
  <1>2. InsertInv /\ [InsertNext]_insertVars => InsertInv'
    BY InsertInvInductive
  <1>3. InsertInv => IDsAreOwn
    BY DEF InsertInv, OwnRows, LastWriter, IDsAreOwn
  <1> QED
    BY <1>1, <1>2, <1>3, PTL DEF InsertSpec

\* The bounds of the ids: each request inserts at most one thread and one post.
ToThread == {r \in Requests : insertPc[r] \in {"start", "insertThread"}}
ToPost == {r \in Requests : insertPc[r] \in {"start", "insertThread", "threadID", "locked", "insertPost"}}

InsertCounts ==
    /\ InsertTypeOK
    /\ lastThread + Cardinality(ToThread) <= Cardinality(Requests) + 1
    /\ lastPost + Cardinality(ToPost) <= Cardinality(Requests) + 1
    /\ \A r \in Requests :
          /\ insertPc[r] = "threadID" => insertReq[r].newThread # 0
          /\ insertPc[r] \in {"postID", "commit", "committed"} => insertReq[r].newPost # 0

\* The requests are finitely many, and so are some of them.
LEMMA CountedInserts ==
    ASSUME NEW S \in SUBSET Requests
    PROVE  IsFiniteSet(S) /\ Cardinality(S) \in Nat /\ Cardinality(Requests) \in Nat
  BY RequestsAssumption, FS_Subset, FS_CardinalityType

\* Of some ids one is the latest.
LEMMA LatestIsOne ==
    ASSUME NEW ids \in SUBSET InsertedIDs, ids # {}
    PROVE  Latest(ids) \in ids
  <1>1. PICK n \in Nat : n = Cardinality(Requests) + 1
    BY RequestsAssumption, FS_CardinalityType
  <1>2. \A i \in ids : i \in Nat /\ i <= n
    BY <1>1 DEF InsertedIDs
  <1> DEFINE below == {n - i : i \in ids}
  <1>3. below \in SUBSET Nat /\ below # {}
    BY <1>2
  <1>4. PICK m \in below : \A k \in below : m <= k
    BY <1>3, LeastNumber
  <1>5. PICK i \in ids : m = n - i
    BY <1>4
  <1>6. ASSUME NEW j \in ids
        PROVE  j <= i
    <2>1. n - i <= n - j
      BY <1>4, <1>5
    <2>2. i \in Nat /\ j \in Nat
      BY <1>2
    <2> QED
      BY <2>1, <2>2, <1>1
  <1> QED
    BY <1>6 DEF Latest

\* What a request has in memory.
LEMMA LocalsFields ==
    ASSUME NEW q \in InsertLocals
    PROVE  /\ q.thread \in InsertedIDs \cup {0} /\ q.post \in InsertedIDs \cup {0}
           /\ q.newThread \in InsertedIDs \cup {0} /\ q.newPost \in InsertedIDs \cup {0}
           /\ q.postThread \in InsertedIDs \cup {0} /\ q.snapshot \in Snapshots
  BY DEF InsertLocals

\* A SELECT sees ids of rows.
LEMMA SnapshotTypes ==
    ASSUME InsertCounts, NEW r \in Requests
    PROVE  /\ SnapshotOf(r) \in Snapshots
           /\ SnapshotOf(r).threads \subseteq InsertedIDs /\ SnapshotOf(r).posts \subseteq InsertedIDs
  <1>1. \A q \in Requests : /\ insertReq[q].newThread \in InsertedIDs \cup {0}
                            /\ insertReq[q].newPost \in InsertedIDs \cup {0}
                            /\ insertReq[q].snapshot \in Snapshots
    BY LocalsFields DEF InsertCounts, InsertTypeOK
  <1>2. 1 \in InsertedIDs
    BY CountedInserts DEF InsertedIDs
  <1>3. CommittedThreads \subseteq InsertedIDs
    BY <1>1, <1>2 DEF CommittedThreads
  <1>4. CommittedPosts \subseteq InsertedIDs
    BY <1>1, <1>2 DEF CommittedPosts, InsertCounts
  <1>5. SnapshotOf(r) \in Snapshots
    BY <1>1, <1>3, <1>4 DEF SnapshotOf, CurrentSnapshot, Snapshots
  <1> QED
    BY <1>5 DEF Snapshots

\* A step of a request that leaves its record and its step, and inserts rows only when it was to.
LEMMA InsertStepCounts ==
    ASSUME InsertCounts, NEW r \in Requests, NEW new \in InsertLocals, NEW step \in InsertSteps,
           insertReq' = [insertReq EXCEPT ![r] = new], InsertGoto(r, step), database' = database,
           \/ lastThread' = lastThread
           \/ lastThread' = lastThread + 1 /\ insertPc[r] = "insertThread",
           \/ lastPost' = lastPost
           \/ lastPost' = lastPost + 1 /\ insertPc[r] = "insertPost",
           step = "insertThread" => insertPc[r] = "start" /\ lastThread' = lastThread,
           step \in {"threadID", "locked"} => insertPc[r] \in {"start", "insertThread"},
           step = "insertPost" => insertPc[r] \in {"threadID", "locked"},
           step # "start",
           step = "threadID" => new.newThread # 0,
           step \in {"postID", "commit", "committed"} => new.newPost # 0
    PROVE  InsertCounts'
  <1>1. insertPc \in [Requests -> InsertSteps] /\ insertReq \in [Requests -> InsertLocals]
    BY DEF InsertCounts, InsertTypeOK
  <1>2. /\ insertPc'[r] = step /\ insertReq'[r] = new
        /\ \A q \in Requests \ {r} : insertPc'[q] = insertPc[q] /\ insertReq'[q] = insertReq[q]
    BY <1>1 DEF InsertGoto
  <1>3. insertPc' \in [Requests -> InsertSteps] /\ insertReq' \in [Requests -> InsertLocals]
    BY <1>1 DEF InsertGoto
  <1>4. PICK n \in Nat : n = Cardinality(Requests)
    BY CountedInserts
  <1>5. PICK last \in Nat : last = lastThread /\ 1 <= last
    BY <1>4 DEF InsertCounts, InsertTypeOK, InsertedIDs
  <1>6. PICK lastOne \in Nat : lastOne = lastPost /\ 1 <= lastOne
    BY <1>4 DEF InsertCounts, InsertTypeOK, InsertedIDs
  <1>7. lastThread' \in Nat /\ 1 <= lastThread' /\ lastThread' + Cardinality(ToThread)' <= n + 1
        /\ Cardinality(ToThread)' \in Nat
    <2>1. ToThread \in SUBSET Requests /\ ToThread' \subseteq ToThread
      BY <1>1, <1>2 DEF ToThread
    <2>2. IsFiniteSet(ToThread) /\ Cardinality(ToThread) \in Nat
      BY <2>1, CountedInserts
    <2>3. Cardinality(ToThread)' <= Cardinality(ToThread) /\ Cardinality(ToThread)' \in Nat
      BY <2>1, <2>2, FS_Subset, FS_CardinalityType
    <2>4. CASE lastThread' = lastThread
      BY <2>2, <2>3, <2>4, <1>4, <1>5 DEF InsertCounts
    <2>5. CASE lastThread' = lastThread + 1 /\ insertPc[r] = "insertThread"
      <3>1. r \in ToThread
        BY <2>5 DEF ToThread
      <3>2. r \notin ToThread'
        BY <2>5, <1>2, <1>5 DEF ToThread
      <3>3. IsFiniteSet(ToThread \ {r}) /\ Cardinality(ToThread \ {r}) = Cardinality(ToThread) - 1
        BY <3>1, <2>2, FS_RemoveElement
      <3>4. Cardinality(ToThread)' <= Cardinality(ToThread \ {r})
        BY <3>2, <3>3, <2>1, FS_Subset
      <3> QED
        BY <3>3, <3>4, <2>2, <2>3, <2>5, <1>4, <1>5 DEF InsertCounts
    <2> QED
      BY <2>4, <2>5
  <1>8. lastPost' \in Nat /\ 1 <= lastPost' /\ lastPost' + Cardinality(ToPost)' <= n + 1
        /\ Cardinality(ToPost)' \in Nat
    <2>1. ToPost \in SUBSET Requests /\ ToPost' \subseteq ToPost
      BY <1>1, <1>2 DEF ToPost
    <2>2. IsFiniteSet(ToPost) /\ Cardinality(ToPost) \in Nat
      BY <2>1, CountedInserts
    <2>3. Cardinality(ToPost)' <= Cardinality(ToPost) /\ Cardinality(ToPost)' \in Nat
      BY <2>1, <2>2, FS_Subset, FS_CardinalityType
    <2>4. CASE lastPost' = lastPost
      BY <2>2, <2>3, <2>4, <1>4, <1>6 DEF InsertCounts
    <2>5. CASE lastPost' = lastPost + 1 /\ insertPc[r] = "insertPost"
      <3>1. r \in ToPost
        BY <2>5 DEF ToPost
      <3>2. r \notin ToPost'
        BY <2>5, <1>2, <1>6 DEF ToPost
      <3>3. IsFiniteSet(ToPost \ {r}) /\ Cardinality(ToPost \ {r}) = Cardinality(ToPost) - 1
        BY <3>1, <2>2, FS_RemoveElement
      <3>4. Cardinality(ToPost)' <= Cardinality(ToPost \ {r})
        BY <3>2, <3>3, <2>1, FS_Subset
      <3> QED
        BY <3>3, <3>4, <2>2, <2>3, <2>5, <1>4, <1>6 DEF InsertCounts
    <2> QED
      BY <2>4, <2>5
  <1>9. lastThread' \in InsertedIDs /\ lastPost' \in InsertedIDs
    BY <1>4, <1>7, <1>8 DEF InsertedIDs
  <1>10. InsertTypeOK'
    BY <1>3, <1>9 DEF InsertCounts, InsertTypeOK
  <1>11. \A q \in Requests : /\ insertPc'[q] = "threadID" => insertReq'[q].newThread # 0
                             /\ insertPc'[q] \in {"postID", "commit", "committed"} =>
                                   insertReq'[q].newPost # 0
    BY <1>2 DEF InsertCounts
  <1> QED
    BY <1>4, <1>7, <1>8, <1>10, <1>11 DEF InsertCounts

\* Every step of an insert keeps the counts, whatever the database.
LEMMA InsertCountsInductive ==
    ASSUME InsertCounts, [InsertNext]_insertVars
    PROVE  InsertCounts'
  <1>1. CASE UNCHANGED insertVars
    BY <1>1 DEF insertVars, InsertCounts, InsertTypeOK, ToThread, ToPost
  <1> SUFFICES ASSUME NEW r \in Requests,
                      \/ BeginInsert(r) \/ InsertThreadRow(r) \/ SelectThreadID(r) \/ SelectLocked(r)
                      \/ InsertPostRow(r) \/ SelectPostID(r) \/ CommitInsert(r) \/ RollbackInsert(r)
               PROVE  InsertCounts'
    BY <1>1 DEF InsertNext
  <1>2. insertPc \in [Requests -> InsertSteps] /\ insertReq \in [Requests -> InsertLocals]
    BY DEF InsertCounts, InsertTypeOK
  <1>3. PICK q \in InsertLocals : q = insertReq[r]
    BY <1>2
  <1>4. insertReq = [insertReq EXCEPT ![r] = q]
    BY <1>2, <1>3
  <1>5. PICK n \in Nat : n = Cardinality(Requests)
    BY CountedInserts
  <1>6. lastThread \in 1..(n + 1) /\ lastPost \in 1..(n + 1) /\ InsertedIDs = 1..(n + 1)
    BY <1>5 DEF InsertCounts, InsertTypeOK, InsertedIDs
  <1>7. CASE BeginInsert(r)
    BY <1>7, <1>3, <1>4, InsertStepCounts DEF BeginInsert, InsertSteps
  <1>8. CASE InsertThreadRow(r)
    <2>1. r \in ToThread
      BY <1>8 DEF InsertThreadRow, ToThread
    <2>2. Cardinality(ToThread) \in Nat /\ Cardinality(ToThread) > 0
      <3>1. ToThread \in SUBSET Requests
        BY DEF ToThread
      <3> QED
        BY <2>1, <3>1, CountedInserts, FS_EmptySet
    <2>3. lastThread + 1 \in InsertedIDs
      BY <2>2, <1>5, <1>6 DEF InsertCounts
    <2> DEFINE new == [q EXCEPT !.newThread = lastThread + 1]
    <2>4. new \in InsertLocals /\ new.newThread = lastThread + 1
      BY <2>3, <1>3 DEF InsertLocals
    <2>5. insertReq' = [insertReq EXCEPT ![r] = new]
      BY <1>8, <1>3 DEF InsertThreadRow
    <2> HIDE DEF new
    <2>6. lastThread + 1 # 0
      BY <1>6
    <2> QED
      BY <2>4, <2>5, <2>6, <1>8, InsertStepCounts DEF InsertThreadRow, InsertSteps
  <1>9. CASE SelectThreadID(r)
    <2> DEFINE seen == SnapshotOf(r).threads \cup {insertReq[r].newThread}
    <2>1. insertReq[r].newThread \in InsertedIDs
      BY <1>9, <1>3, LocalsFields DEF SelectThreadID, InsertCounts
    <2>2. SnapshotOf(r) \in Snapshots /\ seen \in SUBSET InsertedIDs /\ seen # {}
      BY <2>1, SnapshotTypes
    <2>3. Latest(seen) \in InsertedIDs
      BY <2>2, LatestIsOne
    <2> DEFINE new == [q EXCEPT !.thread = Latest(seen), !.snapshot = SnapshotOf(r)]
    <2>4. insertReq' = [insertReq EXCEPT ![r] = new]
      BY <1>9, <1>3 DEF SelectThreadID
    <2> HIDE DEF seen
    <2>5. new \in InsertLocals
      BY <2>2, <2>3, <1>3 DEF InsertLocals
    <2> HIDE DEF new
    <2> QED
      BY <2>4, <2>5, <1>9, InsertStepCounts DEF SelectThreadID, InsertSteps
  <1>10. CASE SelectLocked(r)
    <2> DEFINE new == [q EXCEPT !.thread = 1, !.snapshot = SnapshotOf(r)]
    <2>1. insertReq' = [insertReq EXCEPT ![r] = new]
      BY <1>10, <1>3 DEF SelectLocked
    <2>2. new \in InsertLocals
      <3>1. 1 \in InsertedIDs
        BY <1>6
      <3>2. SnapshotOf(r) \in Snapshots
        BY SnapshotTypes
      <3> QED
        BY <1>3, <3>1, <3>2 DEF InsertLocals
    <2> HIDE DEF new
    <2> QED
      BY <2>1, <2>2, <1>10, InsertStepCounts DEF SelectLocked, InsertSteps
  <1>11. CASE InsertPostRow(r)
    <2>1. r \in ToPost
      BY <1>11 DEF InsertPostRow, ToPost
    <2>2. Cardinality(ToPost) \in Nat /\ Cardinality(ToPost) > 0
      <3>1. ToPost \in SUBSET Requests
        BY DEF ToPost
      <3> QED
        BY <2>1, <3>1, CountedInserts, FS_EmptySet
    <2>3. lastPost + 1 \in InsertedIDs
      BY <2>2, <1>5, <1>6 DEF InsertCounts
    <2> DEFINE new == [q EXCEPT !.newPost = lastPost + 1, !.postThread = insertReq[r].thread]
    <2>4. new \in InsertLocals /\ new.newPost = lastPost + 1
      BY <2>3, <1>3 DEF InsertLocals
    <2>5. insertReq' = [insertReq EXCEPT ![r] = new]
      BY <1>11, <1>3 DEF InsertPostRow
    <2> HIDE DEF new
    <2>6. lastPost + 1 # 0
      BY <1>6
    <2> QED
      BY <2>4, <2>5, <2>6, <1>11, InsertStepCounts DEF InsertPostRow, InsertSteps
  <1>12. CASE SelectPostID(r)
    <2> DEFINE seen == SnapshotOf(r).posts \cup {insertReq[r].newPost}
    <2>1. insertReq[r].newPost \in InsertedIDs
      BY <1>12, <1>3, LocalsFields DEF SelectPostID, InsertCounts
    <2>2. SnapshotOf(r) \in Snapshots /\ seen \in SUBSET InsertedIDs /\ seen # {}
      BY <2>1, SnapshotTypes
    <2>3. Latest(seen) \in InsertedIDs
      BY <2>2, LatestIsOne
    <2>4. PICK id \in InsertedIDs \cup {0} :
            insertReq' = [insertReq EXCEPT ![r].post = id, ![r].snapshot = SnapshotOf(r)]
      BY <1>12, <2>3 DEF SelectPostID
    <2> DEFINE new == [q EXCEPT !.post = id, !.snapshot = SnapshotOf(r)]
    <2>5. insertReq' = [insertReq EXCEPT ![r] = new]
      BY <2>4, <1>3
    <2>6. new \in InsertLocals /\ new.newPost = q.newPost
      BY <2>2, <1>3 DEF InsertLocals
    <2> HIDE DEF new
    <2>7. new.newPost # 0
      BY <2>6, <1>12, <1>3 DEF SelectPostID, InsertCounts
    <2> QED
      BY <2>5, <2>6, <2>7, <1>12, InsertStepCounts DEF SelectPostID, InsertSteps
  <1>13. CASE CommitInsert(r)
    <2>1. q.newPost # 0
      BY <1>13, <1>3 DEF CommitInsert, InsertCounts
    <2>2. insertReq' = [insertReq EXCEPT ![r] = q]
      BY <1>13, <1>4 DEF CommitInsert
    <2> QED
      BY <2>1, <2>2, <1>13, InsertStepCounts DEF CommitInsert, InsertSteps
  <1>14. CASE RollbackInsert(r)
    <2>1. insertReq' = [insertReq EXCEPT ![r] = q]
      BY <1>14, <1>4 DEF RollbackInsert
    <2> QED
      BY <2>1, <1>14, InsertStepCounts DEF RollbackInsert, InsertSteps
  <1> QED
    BY <1>7, <1>8, <1>9, <1>10, <1>11, <1>12, <1>13, <1>14

\* At first every request may still insert both.
LEMMA InsertCountsStart ==
    ASSUME InsertInit
    PROVE  InsertCounts
  <1>1. PICK n \in Nat : n = Cardinality(Requests)
    BY CountedInserts
  <1> DEFINE none == [thread |-> 0, post |-> 0, newThread |-> 0, newPost |-> 0,
                      postThread |-> 0, snapshot |-> NoSnapshot]
  <1>2. none \in InsertLocals
    BY DEF InsertLocals, NoSnapshot, Snapshots
  <1>3. insertReq = [r \in Requests |-> none] /\ insertPc = [r \in Requests |-> "start"]
    BY DEF InsertInit
  <1> HIDE DEF none
  <1>4. InsertTypeOK
    BY <1>1, <1>2, <1>3 DEF InsertTypeOK, InsertInit, InsertSteps, InsertedIDs
  <1>5. ToThread = Requests /\ ToPost = Requests
    BY <1>3 DEF ToThread, ToPost
  <1> QED
    BY <1>1, <1>3, <1>4, <1>5 DEF InsertCounts, InsertInit

\* The ids stay within their bounds, and what a request has in memory keeps its type, with every
\* database.
THEOREM InsertTypeCorrect == InsertSpec => []InsertTypeOK
  <1>1. InsertInit => InsertCounts
    BY InsertCountsStart
  <1>2. InsertCounts => InsertTypeOK
    BY DEF InsertCounts
  <1>3. InsertCounts /\ [InsertNext]_insertVars => InsertCounts'
    BY InsertCountsInductive
  <1> QED
    BY <1>1, <1>2, <1>3, PTL DEF InsertSpec

\* What one writer at a time means for the rows: two requests never insert the same, none is one of the
\* first rows, and a post is in the thread that was inserted for it, or in the one that was there.
RowsAreTheirs ==
    \A r, q \in Requests : r # q =>
       /\ insertReq[r].newThread # 0 => insertReq[r].newThread # insertReq[q].newThread
       /\ insertReq[r].newPost # 0 => insertReq[r].newPost # insertReq[q].newPost
RowsAreNew ==
    \A r \in Requests : /\ insertReq[r].newThread # 0 => insertReq[r].newThread > 1
                        /\ insertReq[r].newPost # 0 => insertReq[r].newPost > 1
ThreadsAreTheirs ==
    \A r \in Requests :
       /\ insertPc[r] \in {"insertPost", "postID", "commit", "committed"} /\ insertReq[r].newThread = 0 =>
             insertReq[r].thread = 1
       /\ insertPc[r] \in {"postID", "commit", "committed"} => insertReq[r].postThread = insertReq[r].thread
       /\ insertPc[r] \in {"commit", "committed"} /\ ~MayFail => insertReq[r].post # 0

OneWriterInv ==
    /\ database = "sqlite3" /\ InsertInv /\ InsertCounts
    /\ RowsAreTheirs /\ RowsAreNew /\ ThreadsAreTheirs

\* The rows of all requests are below the counters.
LEMMA RowsBelow ==
    ASSUME OneWriterInv
    PROVE  /\ lastThread \in Nat \ {0} /\ lastPost \in Nat \ {0}
           /\ \A q \in Requests : /\ insertReq[q].newThread \in Nat /\ insertReq[q].newThread <= lastThread
                                  /\ insertReq[q].newPost \in Nat /\ insertReq[q].newPost <= lastPost
  <1>1. RowsOK /\ \A q \in Requests : OwnRows(q)
    BY DEF OneWriterInv, InsertInv
  <1> QED
    BY <1>1, RecordFields DEF RowsOK, OwnRows

\* A step changes the variables of its request only.
LEMMA OneRequestSteps ==
    ASSUME OneWriterInv, NEW r \in Requests,
           \/ BeginInsert(r) \/ InsertThreadRow(r) \/ SelectThreadID(r) \/ SelectLocked(r)
           \/ InsertPostRow(r) \/ SelectPostID(r) \/ CommitInsert(r) \/ RollbackInsert(r)
    PROVE  /\ database' = database
           /\ \A q \in Requests \ {r} : insertPc'[q] = insertPc[q] /\ insertReq'[q] = insertReq[q]
  <1>1. insertPc \in [Requests -> InsertSteps] /\ insertReq \in [Requests -> InsertLocals]
    BY DEF OneWriterInv, InsertCounts, InsertTypeOK
  <1> QED
    BY <1>1 DEF BeginInsert, InsertThreadRow, SelectThreadID, SelectLocked, InsertPostRow, SelectPostID,
                CommitInsert, RollbackInsert, InsertGoto

\* The id a request gets is the latest it sees, or 0 if the query failed.
LEMMA AskedPostID ==
    ASSUME NEW r \in Requests, SelectPostID(r)
    PROVE  /\ insertPc[r] = "postID" /\ InsertGoto(r, "commit")
           /\ \E id : /\ ~MayFail => id = Latest(SnapshotOf(r).posts \cup {insertReq[r].newPost})
                      /\ insertReq' = [insertReq EXCEPT ![r].post = id, ![r].snapshot = SnapshotOf(r)]
  <1> DEFINE latest == Latest(SnapshotOf(r).posts \cup {insertReq[r].newPost})
             asked == {latest} \cup (IF MayFail THEN {0} ELSE {})
  <1>1. PICK id \in asked : insertReq' = [insertReq EXCEPT ![r].post = id, ![r].snapshot = SnapshotOf(r)]
    BY Zenon DEF SelectPostID
  <1> HIDE DEF latest
  <1>2. ~MayFail => id = latest
    OBVIOUS
  <1>3. insertPc[r] = "postID" /\ InsertGoto(r, "commit")
    BY Zenon DEF SelectPostID
  <1> QED
    BY <1>1, <1>2, <1>3, Zenon DEF latest

\* Every step keeps what one writer at a time means for the rows.
LEMMA OneWriterInductive ==
    ASSUME OneWriterInv, [InsertNext]_insertVars
    PROVE  OneWriterInv'
  <1>1. InsertInv' /\ InsertCounts'
    BY InsertInvInductive, InsertCountsInductive DEF OneWriterInv
  <1>2. CASE UNCHANGED insertVars
    BY <1>1, <1>2 DEF insertVars, OneWriterInv, RowsAreTheirs, RowsAreNew, ThreadsAreTheirs
  <1> SUFFICES ASSUME NEW r \in Requests,
                      \/ BeginInsert(r) \/ InsertThreadRow(r) \/ SelectThreadID(r) \/ SelectLocked(r)
                      \/ InsertPostRow(r) \/ SelectPostID(r) \/ CommitInsert(r) \/ RollbackInsert(r)
               PROVE  OneWriterInv'
    BY <1>2 DEF InsertNext
  <1>3. /\ database' = database
        /\ \A q \in Requests \ {r} : insertPc'[q] = insertPc[q] /\ insertReq'[q] = insertReq[q]
    BY OneRequestSteps
  <1>4. insertPc \in [Requests -> InsertSteps] /\ insertReq \in [Requests -> InsertLocals]
    BY DEF OneWriterInv, InsertCounts, InsertTypeOK
  <1>5. PICK mine \in InsertLocals : mine = insertReq[r]
    BY <1>4
  <1>6. lastThread + 1 > 1 /\ lastPost + 1 > 1 /\ lastThread + 1 # 0 /\ lastPost + 1 # 0
    BY RowsBelow
  <1>7. /\ insertReq'[r].newThread # mine.newThread => insertReq'[r].newThread = lastThread + 1
        /\ insertReq'[r].newPost # mine.newPost => insertReq'[r].newPost = lastPost + 1
    <2>1. CASE InsertThreadRow(r)
      BY <2>1, <1>4, <1>5 DEF InsertThreadRow, InsertLocals
    <2>2. CASE InsertPostRow(r)
      BY <2>2, <1>4, <1>5 DEF InsertPostRow, InsertLocals
    <2>3. CASE BeginInsert(r) \/ CommitInsert(r) \/ RollbackInsert(r)
      BY <2>3, <1>5 DEF BeginInsert, CommitInsert, RollbackInsert
    <2>4. CASE SelectThreadID(r)
      BY <2>4, <1>4, <1>5 DEF SelectThreadID, InsertLocals
    <2>5. CASE SelectLocked(r)
      BY <2>5, <1>4, <1>5 DEF SelectLocked, InsertLocals
    <2>6. CASE SelectPostID(r)
      <3>1. PICK id : insertReq' = [insertReq EXCEPT ![r].post = id, ![r].snapshot = SnapshotOf(r)]
        BY <2>6, AskedPostID
      <3> QED
        BY <3>1, <1>4, <1>5 DEF InsertLocals
    <2> QED
      BY <2>1, <2>2, <2>3, <2>4, <2>5, <2>6
  <1>8. \A q \in Requests \ {r} : /\ insertReq[q].newThread # lastThread + 1
                                  /\ insertReq[q].newPost # lastPost + 1
    <2> SUFFICES ASSUME NEW q \in Requests \ {r}
                 PROVE  insertReq[q].newThread # lastThread + 1 /\ insertReq[q].newPost # lastPost + 1
      OBVIOUS
    <2>1. PICK a \in Nat : a = insertReq[q].newThread /\ a <= lastThread
      BY RowsBelow
    <2>2. PICK b \in Nat : b = insertReq[q].newPost /\ b <= lastPost
      BY RowsBelow
    <2> QED
      BY <2>1, <2>2, RowsBelow
  <1>9. RowsAreTheirs'
    <2>1. ASSUME NEW q \in Requests \ {r}
          PROVE  /\ insertReq'[r].newThread # 0 => insertReq'[r].newThread # insertReq'[q].newThread
                 /\ insertReq'[r].newPost # 0 => insertReq'[r].newPost # insertReq'[q].newPost
                 /\ insertReq'[q].newThread # 0 => insertReq'[q].newThread # insertReq'[r].newThread
                 /\ insertReq'[q].newPost # 0 => insertReq'[q].newPost # insertReq'[r].newPost
      BY <2>1, <1>3, <1>5, <1>7, <1>8 DEF OneWriterInv, RowsAreTheirs
    <2> QED
      BY <2>1, <1>3 DEF OneWriterInv, RowsAreTheirs
  <1>10. RowsAreNew'
    BY <1>3, <1>5, <1>6, <1>7 DEF OneWriterInv, RowsAreNew
  <1>11. ThreadsAreTheirs'
    <2> SUFFICES
          /\ insertPc'[r] \in {"insertPost", "postID", "commit", "committed"} /\ insertReq'[r].newThread = 0 =>
                insertReq'[r].thread = 1
          /\ insertPc'[r] \in {"postID", "commit", "committed"} =>
                insertReq'[r].postThread = insertReq'[r].thread
          /\ insertPc'[r] \in {"commit", "committed"} /\ ~MayFail => insertReq'[r].post # 0
      BY <1>3 DEF OneWriterInv, ThreadsAreTheirs
    <2>1. CASE BeginInsert(r) \/ RollbackInsert(r)
      BY <2>1, <1>4 DEF BeginInsert, RollbackInsert, InsertGoto
    <2>2. CASE InsertThreadRow(r)
      BY <2>2, <1>4 DEF InsertThreadRow, InsertGoto
    <2>3. CASE SelectThreadID(r)
      <3>1. insertPc'[r] = "insertPost" /\ insertReq'[r].newThread = mine.newThread
        BY <2>3, <1>4, <1>5 DEF SelectThreadID, InsertGoto, InsertLocals
      <3>2. mine.newThread # 0
        BY <2>3, <1>5 DEF SelectThreadID, OneWriterInv, InsertCounts
      <3> QED
        BY <3>1, <3>2
    <2>4. CASE SelectLocked(r)
      <3>1. insertPc'[r] = "insertPost" /\ insertReq'[r].thread = 1
        BY <2>4, <1>4, <1>5 DEF SelectLocked, InsertGoto, InsertLocals
      <3> QED
        BY <3>1
    <2>5. CASE InsertPostRow(r)
      <3>1. /\ insertPc[r] = "insertPost" /\ insertPc'[r] = "postID"
            /\ insertReq'[r].newThread = mine.newThread
            /\ insertReq'[r].thread = mine.thread /\ insertReq'[r].postThread = mine.thread
        BY <2>5, <1>4, <1>5 DEF InsertPostRow, InsertGoto, InsertLocals
      <3> QED
        BY <3>1, <1>5 DEF OneWriterInv, ThreadsAreTheirs
    <2>6. CASE SelectPostID(r)
      <3>1. /\ insertPc[r] = "postID" /\ insertPc'[r] = "commit"
            /\ insertReq'[r].newThread = mine.newThread
            /\ insertReq'[r].thread = mine.thread /\ insertReq'[r].postThread = mine.postThread
        <4>1. PICK id : insertReq' = [insertReq EXCEPT ![r].post = id, ![r].snapshot = SnapshotOf(r)]
          BY <2>6, AskedPostID
        <4>2. insertPc[r] = "postID" /\ insertPc'[r] = "commit"
          BY <2>6, <1>4, AskedPostID DEF InsertGoto
        <4>3. insertReq'[r] = [mine EXCEPT !.post = id, !.snapshot = SnapshotOf(r)]
          BY <4>1, <1>4, <1>5
        <4>4. /\ insertReq'[r].newThread = mine.newThread
              /\ insertReq'[r].thread = mine.thread /\ insertReq'[r].postThread = mine.postThread
          BY <4>3, <1>5 DEF InsertLocals
        <4> QED
          BY <4>2, <4>4
      <3> DEFINE seen == SnapshotOf(r).posts \cup {insertReq[r].newPost}
      <3>2. mine.newPost # 0 /\ mine.newPost \in InsertedIDs
        BY <3>1, <1>5, LocalsFields DEF OneWriterInv, InsertCounts
      <3>3. seen \in SUBSET InsertedIDs /\ seen # {}
        BY <3>2, <1>5, SnapshotTypes DEF OneWriterInv
      <3>4. Latest(seen) \in InsertedIDs
        BY <3>3, LatestIsOne
      <3>5. Latest(seen) # 0
        BY <3>4 DEF InsertedIDs
      <3>6. ~MayFail => insertReq'[r].post = Latest(seen)
        <4>1. PICK id : /\ ~MayFail => id = Latest(seen)
                        /\ insertReq' = [insertReq EXCEPT ![r].post = id, ![r].snapshot = SnapshotOf(r)]
          BY <2>6, AskedPostID
        <4>2. insertReq'[r].post = id
          BY <4>1, <1>4, <1>5 DEF InsertLocals
        <4> HIDE DEF seen
        <4> QED
          BY <4>1, <4>2
      <3> HIDE DEF seen
      <3> QED
        BY <3>1, <3>5, <3>6, <1>5 DEF OneWriterInv, ThreadsAreTheirs
    <2>7. CASE CommitInsert(r)
      <3>1. insertPc[r] = "commit" /\ insertPc'[r] = "committed" /\ insertReq' = insertReq
        BY <2>7, <1>4 DEF CommitInsert, InsertGoto
      <3> QED
        BY <3>1 DEF OneWriterInv, ThreadsAreTheirs
    <2> QED
      BY <2>1, <2>2, <2>3, <2>4, <2>5, <2>6, <2>7
  <1> QED
    BY <1>1, <1>3, <1>9, <1>10, <1>11 DEF OneWriterInv

\* A step of a request that has neither committed nor given up is hidden from the others.
LEMMA HiddenStep ==
    ASSUME OneWriterInv, NEW r \in Requests,
           insertPc[r] \notin {"committed", "rolledBack"}, insertPc'[r] \notin {"committed", "rolledBack"},
           \A q \in Requests \ {r} : insertPc'[q] = insertPc[q] /\ insertReq'[q] = insertReq[q]
    PROVE  UNCHANGED Atomic!atomicVars
  <1>1. CommittedThreads' = CommittedThreads
    BY DEF CommittedThreads
  <1>2. CommittedRows' = CommittedRows
    BY DEF CommittedRows
  <1>3. \A q \in Requests : Answer(q)' = Answer(q)
    BY DEF Answer
  <1> QED
    BY <1>1, <1>2, <1>3 DEF Atomic!atomicVars

\* A commit inserts the thread and the post at once.
LEMMA CommitIsAtomic ==
    ASSUME OneWriterInv, NEW r \in Requests, CommitInsert(r)
    PROVE  Atomic!AtomicNext
  <1>1. insertPc \in [Requests -> InsertSteps] /\ insertReq \in [Requests -> InsertLocals]
    BY DEF OneWriterInv, InsertCounts, InsertTypeOK
  <1>2. PICK mine \in InsertLocals : mine = insertReq[r]
    BY <1>1
  <1>3. /\ insertPc[r] = "commit" /\ insertPc'[r] = "committed" /\ insertReq' = insertReq
        /\ \A q \in Requests \ {r} : insertPc'[q] = insertPc[q]
    BY <1>1 DEF CommitInsert, InsertGoto
  <1>4. /\ mine.newPost \in InsertedIDs /\ mine.newThread \in InsertedIDs \cup {0}
        /\ mine.newPost # 0 /\ mine.thread \in InsertedIDs \cup {0}
    BY <1>2, <1>3, LocalsFields DEF OneWriterInv, InsertCounts
  <1>5. OwnRows(r) /\ LastWriter(r) /\ \A q \in Requests : OwnRows(q)
    BY DEF OneWriterInv, InsertInv
  <1>6. /\ mine.newPost = lastPost
        /\ mine.newThread # 0 => mine.newThread = lastThread
        /\ mine.newThread # 0 => mine.thread = mine.newThread
    BY <1>2, <1>3, <1>4, <1>5 DEF OneWriterInv, LastWriter, Uncommitted
  <1>7. /\ mine.newThread = 0 => mine.thread = 1
        /\ mine.postThread = mine.thread
        /\ mine.post \in {mine.newPost} \cup (IF MayFail THEN {0} ELSE {})
    BY <1>2, <1>3, <1>5 DEF OneWriterInv, ThreadsAreTheirs, OwnRows
  <1>8. mine.thread \in InsertedIDs
    <2>1. 1 \in InsertedIDs
      BY CountedInserts DEF InsertedIDs
    <2> QED
      BY <2>1, <1>4, <1>6, <1>7
  <1> DEFINE done == {p \in Requests : insertPc[p] = "committed"}
             row(q) == [id |-> insertReq[q].newPost, thread |-> insertReq[q].postThread,
                        top |-> insertReq[q].newThread # 0]
             new == [id |-> mine.newPost, thread |-> mine.thread, top |-> mine.newThread # 0]
  <1>9. {p \in Requests : insertPc'[p] = "committed"} = done \cup {r}
    BY <1>3
  <1>10. CommittedThreads' = CommittedThreads \cup ({mine.newThread} \ {0})
    BY <1>2, <1>3, <1>9 DEF CommittedThreads
  <1>11. CommittedRows' = CommittedRows \cup {new}
    <2>1. new = row(r)
      BY <1>2, <1>7
    <2>2. CommittedRows = {[id |-> 1, thread |-> 1, top |-> TRUE]} \cup {row(q) : q \in done}
      BY DEF CommittedRows
    <2>3. CommittedRows' = {[id |-> 1, thread |-> 1, top |-> TRUE]} \cup {row(q) : q \in done \cup {r}}
      BY <1>3, <1>9 DEF CommittedRows
    <2> HIDE DEF row, new, done
    <2> QED
      BY <2>1, <2>2, <2>3
  <1>12. \A q \in Requests \ {r} : Answer(q)' = Answer(q)
    BY <1>3 DEF Answer
  <1>13. Answer(r) = Atomic!Waiting
    BY <1>3 DEF Answer, Atomic!Waiting
  <1>14. Answer(r)' = [state |-> "inserted", thread |-> mine.thread, post |-> mine.post]
    BY <1>2, <1>3 DEF Answer
  <1>15. \A q \in done : q \in Requests \ {r}
    BY <1>3
  <1>16. \A old \in CommittedRows : old.id < mine.newPost
    <2>1. 1 < mine.newPost
      BY <1>2, <1>4 DEF OneWriterInv, RowsAreNew
    <2>2. ASSUME NEW q \in done
          PROVE  row(q).id < mine.newPost
      <3>1. PICK id \in Nat : id = insertReq[q].newPost /\ id <= lastPost
        BY <1>15, RowsBelow
      <3>2. id # mine.newPost
        BY <3>1, <1>2, <1>4, <1>15 DEF OneWriterInv, RowsAreTheirs
      <3> QED
        BY <3>1, <3>2, <1>6, RowsBelow
    <2> QED
      BY <2>1, <2>2 DEF CommittedRows
  <1>17. mine.newThread # 0 => \A u \in CommittedThreads : u < mine.newThread
    <2> SUFFICES ASSUME mine.newThread # 0, NEW u \in CommittedThreads
                 PROVE  u < mine.newThread
      OBVIOUS
    <2>1. CASE u = 1
      BY <2>1, <1>2 DEF OneWriterInv, RowsAreNew
    <2>2. CASE u # 1
      <3>1. PICK q \in done : u = insertReq[q].newThread
        BY <2>2 DEF CommittedThreads
      <3>2. u \in Nat /\ u <= lastThread
        BY <3>1, <1>15, RowsBelow
      <3>3. u # mine.newThread
        BY <3>1, <1>2, <1>15 DEF OneWriterInv, RowsAreTheirs
      <3> QED
        BY <3>2, <3>3, <1>6, RowsBelow
    <2> QED
      BY <2>1, <2>2
  <1>18. [q \in Requests |-> Answer(q)]' =
            [[q \in Requests |-> Answer(q)] EXCEPT
               ![r] = [state |-> "inserted", thread |-> mine.thread, post |-> mine.post]]
    BY <1>12, <1>14
  <1> HIDE DEF done, row
  <1>19. ASSUME NEW top \in BOOLEAN, top <=> mine.newThread # 0
         PROVE  Atomic!InsertPost(r, mine.newPost, mine.thread, top)
    <2>1. new = [id |-> mine.newPost, thread |-> mine.thread, top |-> top]
      BY <1>19
    <2> HIDE DEF new
    <2> QED
      BY <2>1, <1>7, <1>11, <1>13, <1>16, <1>18 DEF Atomic!InsertPost
  <1>20. CASE mine.newThread # 0
    <2>1. CommittedThreads' = CommittedThreads \cup {mine.thread} /\ \A u \in CommittedThreads : u < mine.thread
      BY <1>6, <1>10, <1>17, <1>20
    <2>2. Atomic!InsertThread(r, mine.newPost, mine.thread)
      BY <2>1, <1>19, <1>20 DEF Atomic!InsertThread
    <2> QED
      BY <2>2, <1>4, <1>8 DEF Atomic!AtomicNext
  <1>21. CASE mine.newThread = 0
    <2>1. CommittedThreads' = CommittedThreads /\ mine.thread \in CommittedThreads
      BY <1>7, <1>10, <1>21 DEF CommittedThreads
    <2>2. Atomic!InsertReply(r, mine.newPost, mine.thread)
      BY <2>1, <1>19, <1>21 DEF Atomic!InsertReply
    <2> QED
      BY <2>2, <1>4, <1>8 DEF Atomic!AtomicNext
  <1> QED
    BY <1>20, <1>21

\* A request that gives up leaves nothing.
LEMMA RollbackIsRefused ==
    ASSUME OneWriterInv, NEW r \in Requests, RollbackInsert(r)
    PROVE  Atomic!AtomicNext
  <1>1. insertPc \in [Requests -> InsertSteps]
    BY DEF OneWriterInv, InsertCounts, InsertTypeOK
  <1>2. /\ insertPc[r] \notin {"committed", "rolledBack"} /\ insertPc'[r] = "rolledBack"
        /\ insertReq' = insertReq /\ \A q \in Requests \ {r} : insertPc'[q] = insertPc[q]
    BY <1>1 DEF RollbackInsert, InsertGoto
  <1>3. CommittedThreads' = CommittedThreads
    BY <1>2 DEF CommittedThreads
  <1>4. CommittedRows' = CommittedRows
    BY <1>2 DEF CommittedRows
  <1>5. /\ \A q \in Requests \ {r} : Answer(q)' = Answer(q)
        /\ Answer(r) = Atomic!Waiting /\ Answer(r)' = Atomic!Refused
    BY <1>2 DEF Answer, Atomic!Waiting, Atomic!Refused
  <1>6. [q \in Requests |-> Answer(q)]' = [[q \in Requests |-> Answer(q)] EXCEPT ![r] = Atomic!Refused]
    BY <1>5
  <1>7. MayFail
    BY DEF RollbackInsert
  <1>8. Atomic!Refuse(r)
    BY <1>3, <1>4, <1>5, <1>6, <1>7 DEF Atomic!Refuse
  <1> QED
    BY <1>8 DEF Atomic!AtomicNext

\* With SQLite the statements of Post.Insert and CreateThread are one step to the other requests: the post
\* and its thread appear together, under ids above all others, and the request goes on with its own ids.
THEOREM ImplementsAtomicInsertsCorrect == InsertSpec => ImplementsAtomicInserts
  <1> DEFINE SQLite == database = "sqlite3"
  <1>1. InsertInit => (SQLite => OneWriterInv /\ Atomic!AtomicInit)
    <2> SUFFICES ASSUME InsertInit, SQLite
                 PROVE  OneWriterInv /\ Atomic!AtomicInit
      OBVIOUS
    <2>1. InsertInv /\ InsertCounts
      BY InsertStart, InsertCountsStart
    <2>2. /\ database = "sqlite3"
          /\ \A r \in Requests : /\ insertPc[r] = "start"
                                 /\ insertReq[r].newThread = 0 /\ insertReq[r].newPost = 0
      BY DEF InsertInit
    <2>3. OneWriterInv
      BY <2>1, <2>2 DEF OneWriterInv, RowsAreTheirs, RowsAreNew, ThreadsAreTheirs
    <2>4. CommittedThreads = {1}
      BY <2>2 DEF CommittedThreads
    <2>5. CommittedRows = {[id |-> 1, thread |-> 1, top |-> TRUE]}
      BY <2>2 DEF CommittedRows
    <2>6. [r \in Requests |-> Answer(r)] = [r \in Requests |-> Atomic!Waiting]
      BY <2>2 DEF Answer, Atomic!Waiting
    <2> QED
      BY <2>3, <2>4, <2>5, <2>6 DEF Atomic!AtomicInit
  <1>2. (SQLite => OneWriterInv) /\ [InsertNext]_insertVars => (SQLite => OneWriterInv)'
    <2>1. [InsertNext]_insertVars => database' = database
      BY DEF InsertNext, insertVars, BeginInsert, InsertThreadRow, SelectThreadID, SelectLocked,
             InsertPostRow, SelectPostID, CommitInsert, RollbackInsert
    <2> QED
      BY <2>1, OneWriterInductive
  <1>3. (SQLite => OneWriterInv) /\ [InsertNext]_insertVars
           => [SQLite => Atomic!AtomicNext]_(Atomic!atomicVars)
    <2> SUFFICES ASSUME SQLite, OneWriterInv, [InsertNext]_insertVars
                 PROVE  Atomic!AtomicNext \/ UNCHANGED Atomic!atomicVars
      OBVIOUS
    <2>1. CASE UNCHANGED insertVars
      BY <2>1 DEF insertVars, Atomic!atomicVars, CommittedThreads, CommittedRows, Answer
    <2>2. CASE InsertNext
      <3>1. PICK r \in Requests :
              \/ BeginInsert(r) \/ InsertThreadRow(r) \/ SelectThreadID(r) \/ SelectLocked(r)
              \/ InsertPostRow(r) \/ SelectPostID(r) \/ CommitInsert(r) \/ RollbackInsert(r)
        BY <2>2 DEF InsertNext
      <3>2. CASE CommitInsert(r) \/ RollbackInsert(r)
        BY <3>2, CommitIsAtomic, RollbackIsRefused
      <3>3. CASE ~(CommitInsert(r) \/ RollbackInsert(r))
        <4>1. insertPc \in [Requests -> InsertSteps]
          BY DEF OneWriterInv, InsertCounts, InsertTypeOK
        <4>2. /\ insertPc[r] \notin {"committed", "rolledBack"}
              /\ insertPc'[r] \notin {"committed", "rolledBack"}
          BY <3>1, <3>3, <4>1 DEF BeginInsert, InsertThreadRow, SelectThreadID, SelectLocked,
                                  InsertPostRow, SelectPostID, InsertGoto
        <4> QED
          BY <3>1, <4>2, OneRequestSteps, HiddenStep
      <3> QED
        BY <3>2, <3>3
    <2> QED
      BY <2>1, <2>2
  <1> QED
    BY <1>1, <1>2, <1>3, PTL DEF InsertSpec, ImplementsAtomicInserts

\* Where SQLite is the only database, Post.Insert with CreateThread implements the atomic insert.
THEOREM SQLiteImplementsAtomicInserts ==
    ASSUME Databases = {"sqlite3"}
    PROVE  InsertSpec => Atomic!AtomicSpec
  <1>1. InsertInit => database = "sqlite3"
    BY DEF InsertInit
  <1>2. database = "sqlite3" /\ [InsertNext]_insertVars => (database = "sqlite3")'
    BY DEF InsertNext, insertVars, BeginInsert, InsertThreadRow, SelectThreadID, SelectLocked,
           InsertPostRow, SelectPostID, CommitInsert, RollbackInsert
  <1>3. database = "sqlite3" /\ [database = "sqlite3" => Atomic!AtomicNext]_(Atomic!atomicVars)
           => [Atomic!AtomicNext]_(Atomic!atomicVars)
    OBVIOUS
  <1> QED
    BY <1>1, <1>2, <1>3, ImplementsAtomicInsertsCorrect, PTL
       DEF InsertSpec, ImplementsAtomicInserts, Atomic!AtomicSpec

-----------------------------------------------------------------------------
(* The list of boards. *)

ListOK ==
    /\ boardRows \in [Dirs -> Sections \cup {"none"}]
    /\ sectionRows \in [Sections -> {"none", "shown", "hidden"}]
    /\ boardList \in [Dirs -> Nat]
    /\ boardConfigs \in [Dirs -> BoardConfigs \cup {"global", "none"}]
    /\ configFiles \in [Dirs -> BoardConfigs \cup {"global", "absent", "torn"}]
    /\ boardsUp \in BOOLEAN /\ sound \in BOOLEAN
    /\ boardPc \in [Requests -> BoardSteps]
    /\ boardReq \in [Requests -> BoardForm]

ConfigOK(d) == configFiles[d] \notin {"absent", "torn"} => boardConfigs[d] = configFiles[d]
Whole(d) == boardList[d] > 0 /\ ConfigOK(d)

\* A request that met no other one is alone, and one that goes on soundly is.
AloneInv ==
    /\ \A r \in Requests : boardPc[r] # "idle" /\ r \notin overlapping =>
          \A q \in Requests \ {r} : boardPc[q] = "idle"
    /\ sound => \A r \in Requests : boardPc[r] # "idle" => r \notin overlapping
    /\ ~boardsUp => BoardIdle /\ ~sound

\* A reset that is alone has listed the visible boards and reads their configurations.
ResetOf(r) ==
    /\ boardPc[r] = "assign" => boardReq[r].read = VisibleBoards
    /\ boardPc[r] = "reload" => \A d \in VisibleBoards :
          boardList[d] > 0 /\ (d \in boardReq[r].read \/ ConfigOK(d))
ResetInv == boardsUp => \A r \in Requests \ overlapping : ResetOf(r)

\* The only request at work leaves the other boards whole, and its own but for what it is about to do.
FormInv(r) ==
    LET dir == boardReq[r].dir IN
    /\ boardPc[r] \in {"set", "insert", "update", "deleteRow"} => \A d \in VisibleBoards : Whole(d)
    /\ boardPc[r] \in {"truncate", "encode", "append", "deleteConfig"} =>
          \A d \in VisibleBoards \ {dir} : Whole(d)
    /\ boardPc[r] \in {"truncate", "encode"} =>
          boardConfigs[dir] = boardReq[r].config /\ (dir \in VisibleBoards => boardList[dir] > 0)
    /\ boardPc[r] \in {"insert", "append"} => ConfigOK(dir)
    /\ boardPc[r] = "deleteConfig" => boardRows[dir] = "none"
SoundInv ==
    sound =>
       /\ BoardIdle => \A d \in VisibleBoards : Whole(d)
       /\ \A r \in Requests : FormInv(r)

BoardsInv == ListOK /\ AloneInv /\ ResetInv /\ SoundInv

\* The empty form exists, because there is a directory and a section.
LEMMA EmptyForm == NoForm \in BoardForm /\ NoForm.do = "build" /\ NoForm.read = {}
<1> PICK d \in Dirs, s \in Sections : TRUE
  BY BoardDirsAssumption
<1> DEFINE f == [do |-> "build", dir |-> d, section |-> s, config |-> "global", rebuild |-> FALSE,
                 read |-> {}]
<1>1. f \in BoardForm
  BY DEF BoardForm
<1>2. f.do = "build" /\ f.config = "global" /\ f.rebuild = FALSE /\ f.read = {}
  OBVIOUS
<1> HIDE DEF f
<1>3. \E g \in BoardForm : g.do = "build" /\ g.config = "global" /\ g.rebuild = FALSE /\ g.read = {}
  BY <1>1, <1>2, Zenon
<1> QED
  BY <1>3, Zenon DEF NoForm

\* Two names that no board has as its configuration.
LEMMA ConfigNames == "none" \notin BoardConfigs /\ "torn" \notin BoardConfigs
                     /\ "absent" \notin BoardConfigs /\ "none" \notin Sections
  BY BoardNamesAssumption

\* The visible boards are boards.
LEMMA VisibleAreBoards == VisibleBoards \subseteq Dirs
  BY DEF VisibleBoards

\* What is visible depends on the rows alone.
LEMMA SameVisible ==
  ASSUME UNCHANGED <<boardRows, sectionRows>>
  PROVE  VisibleBoards' = VisibleBoards
  BY DEF VisibleBoards

\* A step of a request at work keeps the invariant when it keeps what the invariant says of that
\* request: a request that is alone is the only one at work.
LEMMA StepOfOne ==
  ASSUME AloneInv, ResetInv, SoundInv, boardPc \in [Requests -> BoardSteps],
         NEW r \in Requests, NEW step \in BoardSteps,
         boardsUp, boardsUp', boardPc[r] # "idle",
         boardPc' = [boardPc EXCEPT ![r] = step],
         overlapping' = overlapping,
         sound' => r \notin overlapping,
         r \notin overlapping => ResetOf(r)',
         sound' /\ step = "idle" => \A d \in VisibleBoards' : Whole(d)',
         sound' => FormInv(r)'
  PROVE  AloneInv' /\ ResetInv' /\ SoundInv'
<1>1. boardPc'[r] = step /\ \A q \in Requests \ {r} : boardPc'[q] = boardPc[q]
  OBVIOUS
<1>2. r \notin overlapping => \A q \in Requests \ {r} : boardPc'[q] = "idle"
  BY <1>1 DEF AloneInv
<1>3. AloneInv'
  <2>1. ASSUME NEW p \in Requests, boardPc'[p] # "idle", p \notin overlapping'
        PROVE  \A q \in Requests \ {p} : boardPc'[q] = "idle"
    BY <2>1, <1>1, <1>2 DEF AloneInv
  <2>2. sound' => \A p \in Requests : boardPc'[p] # "idle" => p \notin overlapping'
    BY <1>2
  <2> QED
    BY <2>1, <2>2 DEF AloneInv
<1>4. ResetInv'
  <2> SUFFICES ASSUME NEW p \in Requests, p \notin overlapping'
               PROVE  ResetOf(p)'
    BY DEF ResetInv
  <2>1. CASE p = r
    BY <2>1
  <2>2. CASE p # r
    <3>1. boardPc'[p] = "idle"
      BY <2>2, <1>1 DEF AloneInv
    <3> QED
      BY <3>1 DEF ResetOf
  <2> QED
    BY <2>1, <2>2
<1>5. SoundInv'
  <2> SUFFICES ASSUME sound'
               PROVE  /\ BoardIdle' => \A d \in VisibleBoards' : Whole(d)'
                      /\ \A p \in Requests : FormInv(p)'
    BY DEF SoundInv
  <2>1. BoardIdle' => step = "idle"
    BY <1>1 DEF BoardIdle
  <2>2. ASSUME NEW p \in Requests PROVE FormInv(p)'
    <3>1. CASE p = r
      BY <3>1
    <3>2. CASE p # r
      <4>1. boardPc'[p] = "idle"
        BY <3>2, <1>2
      <4> QED
        BY <4>1 DEF FormInv
    <3> QED
      BY <3>1, <3>2
  <2> QED
    BY <2>1, <2>2
<1> QED
  BY <1>3, <1>4, <1>5

\* A request that starts meets the others, or finds every board whole if all went well before.
LEMMA BoardStarts ==
  ASSUME BoardsInv, NEW r \in Requests, NEW form \in BoardForm,
         NEW step \in {"set", "deleteRow", "readBoards"},
         StartBoardRequest(r, form, step),
         UNCHANGED <<boardList, boardConfigs, configFiles, boardsUp, boardRows>>,
         sectionRows' \in [Sections -> {"none", "shown", "hidden"}],
         step = "readBoards" \/ sectionRows' = sectionRows
  PROVE  BoardsInv'
<1>1. ListOK'
  <2>1. boardPc' \in [Requests -> BoardSteps] /\ boardReq' \in [Requests -> BoardForm]
    BY DEF BoardsInv, ListOK, StartBoardRequest, BoardSteps
  <2>2. boardsUp' \in BOOLEAN /\ sound' \in BOOLEAN
    BY DEF BoardsInv, ListOK, StartBoardRequest
  <2> QED
    BY <2>1, <2>2 DEF BoardsInv, ListOK
<1>2. boardPc'[r] = step /\ \A q \in Requests \ {r} : boardPc'[q] = boardPc[q]
  BY DEF BoardsInv, ListOK, StartBoardRequest
<1>3. boardsUp /\ boardsUp' /\ (sound' => sound /\ BoardIdle)
  BY DEF StartBoardRequest, BoardAt
<1>4. BoardIdle => overlapping' = {} /\ \A q \in Requests \ {r} : boardPc'[q] = "idle"
  BY <1>2 DEF BoardIdle, StartBoardRequest
<1>5. ~BoardIdle => \A q \in Requests : boardPc'[q] # "idle" => q \in overlapping'
  BY <1>2 DEF StartBoardRequest
<1>6. AloneInv'
  BY <1>3, <1>4, <1>5 DEF AloneInv
<1>7. ResetInv'
  BY <1>2, <1>4, <1>5 DEF ResetInv, ResetOf
<1>8. SoundInv'
  <2> SUFFICES ASSUME sound'
               PROVE  /\ BoardIdle' => \A d \in VisibleBoards' : Whole(d)'
                      /\ \A p \in Requests : FormInv(p)'
    BY DEF SoundInv
  <2>1. ~BoardIdle'
    BY <1>2 DEF BoardIdle
  <2>2. ASSUME NEW p \in Requests \ {r} PROVE FormInv(p)'
    BY <2>2, <1>3, <1>4 DEF FormInv
  <2>3. CASE step = "readBoards"
    BY <2>1, <2>2, <2>3, <1>2 DEF FormInv
  <2>4. CASE step # "readBoards"
    <3>1. VisibleBoards' = VisibleBoards
      BY <2>4, SameVisible
    <3>2. \A d \in VisibleBoards : Whole(d)
      BY <1>3 DEF BoardsInv, SoundInv
    <3>3. \A d \in VisibleBoards' : Whole(d)'
      BY <3>1, <3>2 DEF Whole, ConfigOK
    <3>4. boardPc'[r] \in {"set", "deleteRow"}
      BY <2>4, <1>2
    <3>5. FormInv(r)'
      BY <3>3, <3>4 DEF FormInv
    <3> QED
      BY <2>1, <2>2, <3>5
  <2> QED
    BY <2>3, <2>4
<1> QED
  BY <1>1, <1>6, <1>7, <1>8 DEF BoardsInv

\* The end of a request leaves it idle with the empty form.
LEMMA DoneTypes ==
  ASSUME ListOK, NEW r \in Requests, BoardDone(r)
  PROVE  boardPc' \in [Requests -> BoardSteps] /\ boardReq' \in [Requests -> BoardForm]
  BY EmptyForm DEF ListOK, BoardDone, BoardSteps

\* A step from one place to the next keeps the form.
LEMMA GotoTypes ==
  ASSUME ListOK, NEW r \in Requests, NEW step \in BoardSteps, BoardGoto(r, step)
  PROVE  boardPc' \in [Requests -> BoardSteps] /\ boardReq' \in [Requests -> BoardForm]
  BY DEF ListOK, BoardGoto

\* SetBoardConfig leaves the file of the form's board behind its configuration in memory.
LEMMA SetBoardConfigSafe ==
  ASSUME BoardsInv, NEW r \in Requests, SetBoardConfig(r)
  PROVE  BoardsInv'
<1> DEFINE dir == boardReq[r].dir
<1>0. boardReq[r] \in BoardForm /\ boardPc[r] = "set"
  BY DEF BoardsInv, ListOK, SetBoardConfig, BoardAt
<1>1. dir \in Dirs /\ boardReq[r].config \in BoardConfigs \cup {"global"}
  BY <1>0 DEF BoardForm
<1>2. boardPc' = [boardPc EXCEPT ![r] = "truncate"] /\ boardReq' = boardReq
  BY DEF SetBoardConfig, BoardGoto
<1>3. ListOK'
  <2>1. boardPc' \in [Requests -> BoardSteps] /\ boardReq' \in [Requests -> BoardForm]
    BY <1>2 DEF BoardsInv, ListOK, BoardSteps
  <2>2. boardConfigs' \in [Dirs -> BoardConfigs \cup {"global", "none"}]
    BY <1>1 DEF BoardsInv, ListOK, SetBoardConfig
  <2> QED
    BY <2>1, <2>2 DEF BoardsInv, ListOK, SetBoardConfig
<1>4. VisibleBoards' = VisibleBoards
  BY SameVisible DEF SetBoardConfig
<1>5. boardPc'[r] = "truncate" /\ boardPc \in [Requests -> BoardSteps]
  BY <1>2 DEF BoardsInv, ListOK
<1>6. sound' => r \notin overlapping
  BY <1>0 DEF BoardsInv, AloneInv, SetBoardConfig
<1>7. ResetOf(r)'
  BY <1>5 DEF ResetOf
<1>8. sound' => FormInv(r)'
  <2> SUFFICES ASSUME sound' PROVE FormInv(r)'
    OBVIOUS
  <2>1. \A d \in VisibleBoards : Whole(d)
    BY <1>0 DEF BoardsInv, SoundInv, FormInv, SetBoardConfig
  <2>2. \A d \in Dirs : boardConfigs'[d] = IF d = dir THEN boardReq[r].config ELSE boardConfigs[d]
    BY <1>1 DEF BoardsInv, ListOK, SetBoardConfig
  <2>3. UNCHANGED <<boardList, configFiles>>
    BY DEF SetBoardConfig
  <2>4. \A d \in VisibleBoards' \ {dir} : Whole(d)'
    BY <2>1, <2>2, <2>3, <1>4, VisibleAreBoards DEF Whole, ConfigOK
  <2>5. boardConfigs'[dir] = boardReq[r].config /\ (dir \in VisibleBoards' => boardList'[dir] > 0)
    BY <2>1, <2>2, <2>3, <1>1, <1>4 DEF Whole
  <2> QED
    BY <2>4, <2>5, <1>2, <1>5 DEF FormInv
<1>9. boardsUp /\ boardsUp' /\ overlapping' = overlapping /\ AloneInv /\ ResetInv /\ SoundInv
  BY DEF SetBoardConfig, BoardAt, BoardsInv
<1> HIDE DEF dir
<1>10. AloneInv' /\ ResetInv' /\ SoundInv'
  <2>1. "truncate" \in BoardSteps /\ boardPc[r] # "idle"
    BY <1>0 DEF BoardSteps
  <2> QED
    BY <2>1, <1>2, <1>5, <1>6, <1>7, <1>8, <1>9, StepOfOne
<1> QED
  BY <1>3, <1>10 DEF BoardsInv

\* TruncateConfigFile tears the file of the form's board, with its configuration in hand.
LEMMA TruncateConfigFileSafe ==
  ASSUME BoardsInv, NEW r \in Requests, TruncateConfigFile(r)
  PROVE  BoardsInv'
<1> DEFINE dir == boardReq[r].dir
           config == IF boardConfigs[dir] = "none" THEN "global" ELSE boardConfigs[dir]
           new == [boardReq[r] EXCEPT !.config = config]
<1>0. boardReq[r] \in BoardForm /\ boardPc[r] = "truncate" /\ boardReq \in [Requests -> BoardForm]
  BY DEF BoardsInv, ListOK, TruncateConfigFile, BoardAt
<1>1. dir \in Dirs
  BY <1>0 DEF BoardForm
<1>2. config \in BoardConfigs \cup {"global"}
  BY <1>1 DEF BoardsInv, ListOK
<1>3. new \in BoardForm /\ new.dir = dir /\ new.config = config
  BY <1>0, <1>2 DEF BoardForm
<1>4. boardReq' = [boardReq EXCEPT ![r] = new]
  BY <1>0 DEF TruncateConfigFile
<1>5. boardPc' = [boardPc EXCEPT ![r] = "encode"] /\ configFiles' = [configFiles EXCEPT ![dir] = "torn"]
  BY DEF TruncateConfigFile
<1> HIDE DEF new
<1>6. boardReq'[r] = new /\ boardReq' \in [Requests -> BoardForm]
  BY <1>0, <1>3, <1>4
<1>7. boardPc'[r] = "encode" /\ boardPc \in [Requests -> BoardSteps]
  BY <1>5 DEF BoardsInv, ListOK
<1>8. ListOK'
  <2>1. boardPc' \in [Requests -> BoardSteps]
    BY <1>5 DEF BoardsInv, ListOK, BoardSteps
  <2>2. configFiles' \in [Dirs -> BoardConfigs \cup {"global", "absent", "torn"}]
    BY <1>1, <1>5 DEF BoardsInv, ListOK
  <2> QED
    BY <2>1, <2>2, <1>6 DEF BoardsInv, ListOK, TruncateConfigFile
<1>9. VisibleBoards' = VisibleBoards
  BY SameVisible DEF TruncateConfigFile
<1>10. sound' => r \notin overlapping
  BY <1>0 DEF BoardsInv, AloneInv, TruncateConfigFile
<1>11. ResetOf(r)'
  BY <1>7 DEF ResetOf
<1>12. sound' => FormInv(r)'
  <2> SUFFICES ASSUME sound' PROVE FormInv(r)'
    OBVIOUS
  <2>1. /\ \A d \in VisibleBoards \ {dir} : Whole(d)
        /\ boardConfigs[dir] = boardReq[r].config
        /\ dir \in VisibleBoards => boardList[dir] > 0
    BY <1>0 DEF BoardsInv, SoundInv, FormInv, TruncateConfigFile
  <2>2. boardReq[r].config # "none"
    BY <1>0, ConfigNames DEF BoardForm
  <2>3. new.config = boardConfigs[dir]
    BY <2>1, <2>2, <1>3
  <2>4. \A d \in Dirs \ {dir} : configFiles'[d] = configFiles[d]
    BY <1>5 DEF BoardsInv, ListOK
  <2>5. UNCHANGED <<boardList, boardConfigs>>
    BY DEF TruncateConfigFile
  <2>6. \A d \in VisibleBoards' \ {dir} : Whole(d)'
    BY <2>1, <2>4, <2>5, <1>9, VisibleAreBoards DEF Whole, ConfigOK
  <2>7. boardConfigs'[dir] = new.config /\ (dir \in VisibleBoards' => boardList'[dir] > 0)
    BY <2>1, <2>3, <2>5, <1>9
  <2> HIDE DEF dir
  <2> QED
    BY <2>6, <2>7, <1>3, <1>6, <1>7 DEF FormInv
<1>13. boardsUp /\ boardsUp' /\ overlapping' = overlapping /\ AloneInv /\ ResetInv /\ SoundInv
  BY DEF TruncateConfigFile, BoardAt, BoardsInv
<1> HIDE DEF dir, config
<1>14. AloneInv' /\ ResetInv' /\ SoundInv'
  <2>1. "encode" \in BoardSteps /\ boardPc[r] # "idle"
    BY <1>0 DEF BoardSteps
  <2> QED
    BY <2>1, <1>5, <1>7, <1>10, <1>11, <1>12, <1>13, StepOfOne
<1> QED
  BY <1>8, <1>14 DEF BoardsInv

\* EncodeConfig makes the file agree with the configuration in memory again.
LEMMA EncodeConfigSafe ==
  ASSUME BoardsInv, NEW r \in Requests, EncodeConfig(r)
  PROVE  BoardsInv'
<1>0. boardReq[r] \in BoardForm /\ boardPc[r] = "encode"
  BY DEF BoardsInv, ListOK, EncodeConfig, BoardAt
<1> PICK dir \in Dirs : dir = boardReq[r].dir
  BY <1>0 DEF BoardForm
<1> PICK step \in {"insert", "update"} : step = IF boardReq[r].do = "create" THEN "insert" ELSE "update"
  OBVIOUS
<1>1. dir \in Dirs /\ boardReq[r].config \in BoardConfigs \cup {"global"}
  BY <1>0 DEF BoardForm
<1>2. step \in {"insert", "update"}
  OBVIOUS
<1>3. boardPc' = [boardPc EXCEPT ![r] = step] /\ boardReq' = boardReq
      /\ configFiles' = [configFiles EXCEPT ![dir] = boardReq[r].config]
  BY DEF EncodeConfig, BoardGoto
<1>4. boardPc'[r] = step /\ boardPc \in [Requests -> BoardSteps]
  BY <1>3 DEF BoardsInv, ListOK
<1>5. ListOK'
  <2>1. boardPc' \in [Requests -> BoardSteps] /\ boardReq' \in [Requests -> BoardForm]
    BY <1>2, <1>3 DEF BoardsInv, ListOK, BoardSteps
  <2>2. configFiles' \in [Dirs -> BoardConfigs \cup {"global", "absent", "torn"}]
    BY <1>1, <1>3 DEF BoardsInv, ListOK
  <2> QED
    BY <2>1, <2>2 DEF BoardsInv, ListOK, EncodeConfig
<1>6. VisibleBoards' = VisibleBoards
  BY SameVisible DEF EncodeConfig
<1>7. sound' => r \notin overlapping
  BY <1>0 DEF BoardsInv, AloneInv, EncodeConfig
<1>8. ResetOf(r)'
  BY <1>2, <1>4 DEF ResetOf
<1>9. sound' => FormInv(r)'
  <2> SUFFICES ASSUME sound' PROVE FormInv(r)'
    OBVIOUS
  <2>1. /\ \A d \in VisibleBoards \ {dir} : Whole(d)
        /\ boardConfigs[dir] = boardReq[r].config
        /\ dir \in VisibleBoards => boardList[dir] > 0
    BY <1>0 DEF BoardsInv, SoundInv, FormInv, EncodeConfig
  <2>2. \A d \in Dirs : configFiles'[d] = IF d = dir THEN boardReq[r].config ELSE configFiles[d]
    BY <1>1, <1>3 DEF BoardsInv, ListOK
  <2>3. UNCHANGED <<boardList, boardConfigs>>
    BY DEF EncodeConfig
  <2>4. ConfigOK(dir)'
    BY <2>1, <2>2, <2>3, <1>1, <1>3 DEF ConfigOK
  <2>5. \A d \in VisibleBoards' : Whole(d)'
    BY <2>1, <2>2, <2>3, <1>6, VisibleAreBoards DEF Whole, ConfigOK
  <2>6. dir = boardReq'[r].dir
    BY <1>3
  <2> QED
    BY <2>4, <2>5, <2>6, <1>2, <1>4 DEF FormInv
<1>10. boardsUp /\ boardsUp' /\ overlapping' = overlapping /\ AloneInv /\ ResetInv /\ SoundInv
  BY DEF EncodeConfig, BoardAt, BoardsInv
<1>11. AloneInv' /\ ResetInv' /\ SoundInv'
  <2>1. step \in BoardSteps /\ boardPc[r] # "idle"
    BY <1>0, <1>2 DEF BoardSteps
  <2> QED
    BY <2>1, <1>3, <1>4, <1>7, <1>8, <1>9, <1>10, StepOfOne
<1> QED
  BY <1>5, <1>11 DEF BoardsInv

\* InsertBoard finds every board whole; the new one has its configuration and is listed next.
LEMMA InsertBoardSafe ==
  ASSUME BoardsInv, NEW r \in Requests, InsertBoard(r)
  PROVE  BoardsInv'
<1>0. boardReq[r] \in BoardForm /\ boardPc[r] = "insert" /\ boardPc \in [Requests -> BoardSteps]
  BY DEF BoardsInv, ListOK, InsertBoard, BoardAt
<1> PICK dir \in Dirs, s \in Sections : dir = boardReq[r].dir /\ s = boardReq[r].section
  BY <1>0 DEF BoardForm
<1>1. UNCHANGED <<boardList, boardConfigs, configFiles, sectionRows, overlapping, sound>>
      /\ boardsUp /\ boardsUp'
  BY DEF InsertBoard, BoardAt
<1>2. PICK step \in {"append", "idle"} :
        /\ boardPc' = [boardPc EXCEPT ![r] = step]
        /\ step = "append" => boardReq' = boardReq /\ boardRows' = [boardRows EXCEPT ![dir] = s]
        /\ step = "idle" => BoardDone(r) /\ boardRows' = boardRows
  BY DEF InsertBoard, BoardGoto, BoardDone
<1>3. ListOK'
  <2>1. boardPc' \in [Requests -> BoardSteps] /\ boardReq' \in [Requests -> BoardForm]
    BY <1>2, DoneTypes DEF BoardsInv, ListOK, BoardSteps
  <2>2. boardRows' \in [Dirs -> Sections \cup {"none"}]
    BY <1>2 DEF BoardsInv, ListOK
  <2> QED
    BY <1>1, <2>1, <2>2 DEF BoardsInv, ListOK
<1>4. boardPc'[r] = step
  BY <1>0, <1>2
<1>5. sound' => r \notin overlapping
  BY <1>0, <1>1 DEF BoardsInv, AloneInv
<1>6. ResetOf(r)'
  BY <1>4 DEF ResetOf
<1>7. sound' => (\A d \in VisibleBoards : Whole(d)) /\ ConfigOK(dir)
  BY <1>0, <1>1 DEF BoardsInv, SoundInv, FormInv
<1>8. sound' /\ step = "idle" => \A d \in VisibleBoards' : Whole(d)'
  <2>1. step = "idle" => VisibleBoards' = VisibleBoards
    BY <1>1, <1>2, SameVisible
  <2> QED
    BY <1>1, <1>7, <2>1 DEF Whole, ConfigOK
<1>9. sound' => FormInv(r)'
  <2> SUFFICES ASSUME sound', step = "append" PROVE FormInv(r)'
    BY <1>4 DEF FormInv
  <2>1. VisibleBoards' \ {dir} \subseteq VisibleBoards
    BY <1>1, <1>2 DEF VisibleBoards, BoardsInv, ListOK
  <2>2. \A d \in VisibleBoards' \ {dir} : Whole(d)'
    BY <2>1, <1>1, <1>7 DEF Whole, ConfigOK
  <2>3. ConfigOK(dir)'
    BY <1>1, <1>7 DEF ConfigOK
  <2>4. boardReq'[r].dir = dir
    BY <1>2
  <2> QED
    BY <2>2, <2>3, <2>4, <1>4 DEF FormInv
<1>10. AloneInv' /\ ResetInv' /\ SoundInv'
  <2>1. step \in BoardSteps /\ boardPc[r] # "idle"
    BY <1>0 DEF BoardSteps
  <2>2. AloneInv /\ ResetInv /\ SoundInv
    BY DEF BoardsInv
  <2> QED
    BY <2>1, <2>2, <1>0, <1>1, <1>2, <1>5, <1>6, <1>8, <1>9, StepOfOne
<1> QED
  BY <1>3, <1>10 DEF BoardsInv

\* AppendBoard lists the new board.
LEMMA AppendBoardSafe ==
  ASSUME BoardsInv, NEW r \in Requests, AppendBoard(r)
  PROVE  BoardsInv'
<1>0. boardReq[r] \in BoardForm /\ boardPc[r] = "append" /\ boardPc \in [Requests -> BoardSteps]
  BY DEF BoardsInv, ListOK, AppendBoard, BoardAt
<1> PICK dir \in Dirs : dir = boardReq[r].dir
  BY <1>0 DEF BoardForm
<1>1. UNCHANGED <<boardRows, boardConfigs, configFiles, sectionRows, overlapping, sound>>
      /\ boardsUp /\ boardsUp'
  BY DEF AppendBoard, BoardAt
<1>2. PICK step \in {"readBoards", "idle"} :
        /\ boardPc' = [boardPc EXCEPT ![r] = step]
        /\ step = "readBoards" => boardReq' = boardReq
        /\ step = "idle" => BoardDone(r)
  BY DEF AppendBoard, BoardGoto, BoardDone
<1>3. boardList' = [boardList EXCEPT ![dir] = @ + 1] /\ boardList \in [Dirs -> Nat]
  BY DEF AppendBoard, BoardsInv, ListOK
<1>4. boardList' \in [Dirs -> Nat] /\ boardList'[dir] > 0
      /\ \A d \in Dirs \ {dir} : boardList'[d] = boardList[d]
  BY <1>3
<1>5. ListOK'
  <2>1. boardPc' \in [Requests -> BoardSteps] /\ boardReq' \in [Requests -> BoardForm]
    BY <1>2, DoneTypes DEF BoardsInv, ListOK, BoardSteps
  <2> QED
    BY <1>1, <1>4, <2>1 DEF BoardsInv, ListOK
<1>6. boardPc'[r] = step
  BY <1>0, <1>2
<1>7. sound' => r \notin overlapping
  BY <1>0, <1>1 DEF BoardsInv, AloneInv
<1>8. ResetOf(r)' /\ FormInv(r)'
  BY <1>6 DEF ResetOf, FormInv
<1>9. sound' /\ step = "idle" => \A d \in VisibleBoards' : Whole(d)'
  <2>1. VisibleBoards' = VisibleBoards
    BY <1>1, SameVisible
  <2>2. sound' => (\A d \in VisibleBoards \ {dir} : Whole(d)) /\ ConfigOK(dir)
    BY <1>0, <1>1 DEF BoardsInv, SoundInv, FormInv
  <2> QED
    BY <1>1, <1>4, <2>1, <2>2, VisibleAreBoards DEF Whole, ConfigOK
<1>10. AloneInv' /\ ResetInv' /\ SoundInv'
  <2>1. step \in BoardSteps /\ boardPc[r] # "idle"
    BY <1>0 DEF BoardSteps
  <2>2. AloneInv /\ ResetInv /\ SoundInv
    BY DEF BoardsInv
  <2> QED
    BY <2>1, <2>2, <1>0, <1>1, <1>2, <1>7, <1>8, <1>9, StepOfOne
<1> QED
  BY <1>5, <1>10 DEF BoardsInv

\* ModifyInDB changes nothing when the section is gone, and is followed by a reset else.
LEMMA ModifyInDBSafe ==
  ASSUME BoardsInv, NEW r \in Requests, ModifyInDB(r)
  PROVE  BoardsInv'
<1>0. boardReq[r] \in BoardForm /\ boardPc[r] = "update" /\ boardPc \in [Requests -> BoardSteps]
  BY DEF BoardsInv, ListOK, ModifyInDB, BoardAt
<1> PICK dir \in Dirs, s \in Sections : dir = boardReq[r].dir /\ s = boardReq[r].section
  BY <1>0 DEF BoardForm
<1>1. UNCHANGED <<boardList, boardConfigs, configFiles, sectionRows, overlapping, sound>>
      /\ boardsUp /\ boardsUp'
  BY DEF ModifyInDB, BoardAt
<1>2. PICK step \in {"readBoards", "idle"} :
        /\ boardPc' = [boardPc EXCEPT ![r] = step]
        /\ step = "readBoards" => boardReq' = boardReq /\ boardRows' \in {boardRows, [boardRows EXCEPT ![dir] = s]}
        /\ step = "idle" => BoardDone(r) /\ boardRows' = boardRows
  BY DEF ModifyInDB, BoardGoto, BoardDone
<1>3. ListOK'
  <2>1. boardPc' \in [Requests -> BoardSteps] /\ boardReq' \in [Requests -> BoardForm]
    BY <1>2, DoneTypes DEF BoardsInv, ListOK, BoardSteps
  <2>2. boardRows' \in [Dirs -> Sections \cup {"none"}]
    BY <1>2 DEF BoardsInv, ListOK
  <2> QED
    BY <1>1, <2>1, <2>2 DEF BoardsInv, ListOK
<1>4. boardPc'[r] = step
  BY <1>0, <1>2
<1>5. sound' => r \notin overlapping
  BY <1>0, <1>1 DEF BoardsInv, AloneInv
<1>6. ResetOf(r)' /\ FormInv(r)'
  BY <1>4 DEF ResetOf, FormInv
<1>7. sound' /\ step = "idle" => \A d \in VisibleBoards' : Whole(d)'
  <2>1. step = "idle" => VisibleBoards' = VisibleBoards
    BY <1>1, <1>2, SameVisible
  <2>2. sound' => \A d \in VisibleBoards : Whole(d)
    BY <1>0, <1>1 DEF BoardsInv, SoundInv, FormInv
  <2> QED
    BY <1>1, <2>1, <2>2 DEF Whole, ConfigOK
<1>8. AloneInv' /\ ResetInv' /\ SoundInv'
  <2>1. step \in BoardSteps /\ boardPc[r] # "idle"
    BY <1>0 DEF BoardSteps
  <2>2. AloneInv /\ ResetInv /\ SoundInv
    BY DEF BoardsInv
  <2> QED
    BY <2>1, <2>2, <1>0, <1>1, <1>2, <1>5, <1>6, <1>7, StepOfOne
<1> QED
  BY <1>3, <1>8 DEF BoardsInv

\* DeleteBoardRow leaves the others as they are, and the deleted board invisible.
LEMMA DeleteBoardRowSafe ==
  ASSUME BoardsInv, NEW r \in Requests, DeleteBoardRow(r)
  PROVE  BoardsInv'
<1>0. boardReq[r] \in BoardForm /\ boardPc[r] = "deleteRow" /\ boardPc \in [Requests -> BoardSteps]
  BY DEF BoardsInv, ListOK, DeleteBoardRow, BoardAt
<1> PICK dir \in Dirs : dir = boardReq[r].dir
  BY <1>0 DEF BoardForm
<1>1. UNCHANGED <<boardList, boardConfigs, configFiles, sectionRows, overlapping, sound, boardReq>>
      /\ boardsUp /\ boardsUp' /\ boardPc' = [boardPc EXCEPT ![r] = "deleteConfig"]
      /\ boardRows' = [boardRows EXCEPT ![dir] = "none"]
  BY DEF DeleteBoardRow, BoardAt, BoardGoto
<1>2. ListOK'
  <2>1. boardPc' \in [Requests -> BoardSteps] /\ boardRows' \in [Dirs -> Sections \cup {"none"}]
    BY <1>1 DEF BoardsInv, ListOK, BoardSteps
  <2> QED
    BY <1>1, <2>1 DEF BoardsInv, ListOK
<1>3. boardPc'[r] = "deleteConfig"
  BY <1>0, <1>1
<1>4. sound' => r \notin overlapping
  BY <1>0, <1>1 DEF BoardsInv, AloneInv
<1>5. ResetOf(r)'
  BY <1>3 DEF ResetOf
<1>6. sound' => FormInv(r)'
  <2>1. boardRows'[dir] = "none" /\ boardReq'[r].dir = dir
    BY <1>1 DEF BoardsInv, ListOK
  <2>2. VisibleBoards' \ {dir} \subseteq VisibleBoards
    BY <1>1 DEF VisibleBoards, BoardsInv, ListOK
  <2>3. sound' => \A d \in VisibleBoards : Whole(d)
    BY <1>0, <1>1 DEF BoardsInv, SoundInv, FormInv
  <2>4. sound' => \A d \in VisibleBoards' \ {dir} : Whole(d)'
    BY <2>2, <2>3, <1>1 DEF Whole, ConfigOK
  <2> QED
    BY <2>1, <2>4, <1>3 DEF FormInv
<1>7. AloneInv' /\ ResetInv' /\ SoundInv'
  <2>1. "deleteConfig" \in BoardSteps /\ boardPc[r] # "idle"
    BY <1>0 DEF BoardSteps
  <2>2. AloneInv /\ ResetInv /\ SoundInv
    BY DEF BoardsInv
  <2> QED
    BY <2>1, <2>2, <1>0, <1>1, <1>4, <1>5, <1>6, StepOfOne
<1> QED
  BY <1>2, <1>7 DEF BoardsInv

\* DeleteBoardConfig touches a board that is not visible.
LEMMA DeleteBoardConfigSafe ==
  ASSUME BoardsInv, NEW r \in Requests, DeleteBoardConfig(r)
  PROVE  BoardsInv'
<1>0. boardReq[r] \in BoardForm /\ boardPc[r] = "deleteConfig" /\ boardPc \in [Requests -> BoardSteps]
  BY DEF BoardsInv, ListOK, DeleteBoardConfig, BoardAt
<1> PICK dir \in Dirs : dir = boardReq[r].dir
  BY <1>0 DEF BoardForm
<1>1. UNCHANGED <<boardList, boardRows, configFiles, sectionRows, overlapping, sound>>
      /\ boardsUp /\ boardsUp' /\ boardPc' = [boardPc EXCEPT ![r] = "idle"]
      /\ boardConfigs' = [boardConfigs EXCEPT ![dir] = "none"]
  BY DEF DeleteBoardConfig, BoardAt, BoardDone
<1>2. ListOK'
  <2>1. boardPc' \in [Requests -> BoardSteps] /\ boardReq' \in [Requests -> BoardForm]
    BY DoneTypes DEF BoardsInv, DeleteBoardConfig
  <2>2. boardConfigs' \in [Dirs -> BoardConfigs \cup {"global", "none"}]
    BY <1>1 DEF BoardsInv, ListOK
  <2> QED
    BY <1>1, <2>1, <2>2 DEF BoardsInv, ListOK
<1>3. boardPc'[r] = "idle"
  BY <1>0, <1>1
<1>4. sound' => r \notin overlapping
  BY <1>0, <1>1 DEF BoardsInv, AloneInv
<1>5. ResetOf(r)' /\ FormInv(r)'
  BY <1>3 DEF ResetOf, FormInv
<1>6. sound' => \A d \in VisibleBoards' : Whole(d)'
  <2>1. VisibleBoards' = VisibleBoards
    BY <1>1, SameVisible
  <2>2. sound' => (\A d \in VisibleBoards \ {dir} : Whole(d)) /\ boardRows[dir] = "none"
    BY <1>0, <1>1 DEF BoardsInv, SoundInv, FormInv
  <2>3. boardRows[dir] = "none" => dir \notin VisibleBoards
    BY DEF VisibleBoards
  <2>4. \A d \in Dirs \ {dir} : boardConfigs'[d] = boardConfigs[d]
    BY <1>1 DEF BoardsInv, ListOK
  <2> QED
    BY <1>1, <2>1, <2>2, <2>3, <2>4, VisibleAreBoards DEF Whole, ConfigOK
<1>7. AloneInv' /\ ResetInv' /\ SoundInv'
  <2>1. "idle" \in BoardSteps /\ boardPc[r] # "idle"
    BY <1>0 DEF BoardSteps
  <2>2. AloneInv /\ ResetInv /\ SoundInv
    BY DEF BoardsInv
  <2> QED
    BY <2>1, <2>2, <1>0, <1>1, <1>4, <1>5, <1>6, StepOfOne
<1> QED
  BY <1>2, <1>7 DEF BoardsInv

\* ReadBoards holds what is visible now.
LEMMA ReadBoardsSafe ==
  ASSUME BoardsInv, NEW r \in Requests, ReadBoards(r)
  PROVE  BoardsInv'
<1> DEFINE new == [boardReq[r] EXCEPT !.read = VisibleBoards]
<1>0. /\ boardReq \in [Requests -> BoardForm] /\ boardReq[r] \in BoardForm
      /\ boardPc[r] = "readBoards" /\ boardPc \in [Requests -> BoardSteps]
  BY DEF BoardsInv, ListOK, ReadBoards, BoardAt
<1>1. UNCHANGED <<boardList, boardRows, boardConfigs, configFiles, sectionRows, overlapping, sound>>
      /\ boardsUp /\ boardsUp' /\ boardPc' = [boardPc EXCEPT ![r] = "assign"]
  BY DEF ReadBoards, BoardAt
<1>2. boardReq' = [boardReq EXCEPT ![r] = new]
  BY <1>0 DEF ReadBoards
<1>3. new \in BoardForm /\ new.read = VisibleBoards
  BY <1>0, VisibleAreBoards DEF BoardForm
<1> HIDE DEF new
<1>4. boardReq' \in [Requests -> BoardForm] /\ boardReq'[r] = new /\ boardPc'[r] = "assign"
  BY <1>0, <1>1, <1>2, <1>3
<1>5. ListOK'
  <2>1. boardPc' \in [Requests -> BoardSteps]
    BY <1>1 DEF BoardsInv, ListOK, BoardSteps
  <2> QED
    BY <1>1, <1>4, <2>1 DEF BoardsInv, ListOK
<1>6. VisibleBoards' = VisibleBoards
  BY <1>1, SameVisible
<1>7. ResetOf(r)' /\ FormInv(r)'
  BY <1>3, <1>4, <1>6 DEF ResetOf, FormInv
<1>8. sound' => r \notin overlapping
  BY <1>0, <1>1 DEF BoardsInv, AloneInv
<1>9. AloneInv' /\ ResetInv' /\ SoundInv'
  <2>1. "assign" \in BoardSteps /\ boardPc[r] # "idle" /\ "assign" # "idle"
    BY <1>0 DEF BoardSteps
  <2>2. AloneInv /\ ResetInv /\ SoundInv
    BY DEF BoardsInv
  <2> QED
    BY <2>1, <2>2, <1>0, <1>1, <1>7, <1>8, StepOfOne
<1> QED
  BY <1>5, <1>9 DEF BoardsInv

\* AssignBoards lists what was read: all that is visible, when the reset is alone.
LEMMA AssignBoardsSafe ==
  ASSUME BoardsInv, NEW r \in Requests, AssignBoards(r)
  PROVE  BoardsInv'
<1>0. boardPc[r] = "assign" /\ boardPc \in [Requests -> BoardSteps]
  BY DEF BoardsInv, ListOK, AssignBoards, BoardAt
<1>1. UNCHANGED <<boardRows, boardConfigs, configFiles, sectionRows, overlapping, sound, boardReq>>
      /\ boardsUp /\ boardsUp' /\ boardPc' = [boardPc EXCEPT ![r] = "reload"]
  BY DEF AssignBoards, BoardAt, BoardGoto
<1>2. boardList' = [d \in Dirs |-> IF d \in boardReq[r].read THEN 1 ELSE 0]
  BY DEF AssignBoards
<1>3. boardPc'[r] = "reload"
  BY <1>0, <1>1
<1>4. ListOK'
  <2>1. boardPc' \in [Requests -> BoardSteps] /\ boardList' \in [Dirs -> Nat]
    BY <1>1, <1>2 DEF BoardsInv, ListOK, BoardSteps
  <2> QED
    BY <1>1, <2>1 DEF BoardsInv, ListOK
<1>5. VisibleBoards' = VisibleBoards
  BY <1>1, SameVisible
<1>6. r \notin overlapping => ResetOf(r)'
  <2> SUFFICES ASSUME r \notin overlapping PROVE ResetOf(r)'
    OBVIOUS
  <2>1. boardReq[r].read = VisibleBoards
    BY <1>0, <1>1 DEF BoardsInv, ResetInv, ResetOf
  <2>2. \A d \in VisibleBoards' : boardList'[d] > 0 /\ d \in boardReq'[r].read
    BY <2>1, <1>1, <1>2, <1>5, VisibleAreBoards
  <2> QED
    BY <2>2, <1>3 DEF ResetOf
<1>7. FormInv(r)'
  BY <1>3 DEF FormInv
<1>8. sound' => r \notin overlapping
  BY <1>0, <1>1 DEF BoardsInv, AloneInv
<1>9. AloneInv' /\ ResetInv' /\ SoundInv'
  <2>1. "reload" \in BoardSteps /\ boardPc[r] # "idle" /\ "reload" # "idle"
    BY <1>0 DEF BoardSteps
  <2>2. AloneInv /\ ResetInv /\ SoundInv
    BY DEF BoardsInv
  <2> QED
    BY <2>1, <2>2, <1>0, <1>1, <1>6, <1>7, <1>8, StepOfOne
<1> QED
  BY <1>4, <1>9 DEF BoardsInv

\* ReloadBoardConfig takes a board off the ones still to be read, with the configuration of its
\* file; a torn file ends the reset, which is not sound any more.
LEMMA ReloadBoardConfigSafe ==
  ASSUME BoardsInv, NEW r \in Requests, NEW d \in Dirs, ReloadBoardConfig(r, d)
  PROVE  BoardsInv'
<1>0. /\ boardReq \in [Requests -> BoardForm] /\ boardReq[r] \in BoardForm
      /\ boardPc[r] = "reload" /\ boardPc \in [Requests -> BoardSteps]
  BY DEF BoardsInv, ListOK, ReloadBoardConfig, BoardAt
<1>1. UNCHANGED <<boardRows, boardList, configFiles, sectionRows, overlapping>> /\ boardsUp /\ boardsUp'
  BY DEF ReloadBoardConfig, BoardAt
<1>2. VisibleBoards' = VisibleBoards
  BY <1>1, SameVisible
<1>3. sound' => sound /\ r \notin overlapping
  BY <1>0 DEF BoardsInv, AloneInv, ReloadBoardConfig
<1>4. sound' \in BOOLEAN
  BY DEF BoardsInv, ListOK, ReloadBoardConfig
<1>5. AloneInv /\ ResetInv /\ SoundInv /\ boardPc[r] # "idle"
  BY <1>0 DEF BoardsInv
<1>6. CASE configFiles[d] = "torn"
  <2>1. BoardDone(r) /\ UNCHANGED boardConfigs /\ ~sound'
    BY <1>6 DEF ReloadBoardConfig
  <2>2. ListOK'
    BY <1>1, <1>4, <2>1, DoneTypes DEF BoardsInv, ListOK
  <2>3. boardPc' = [boardPc EXCEPT ![r] = "idle"] /\ boardPc'[r] = "idle" /\ "idle" \in BoardSteps
    BY <1>0, <2>1 DEF BoardDone, BoardSteps
  <2>4. ResetOf(r)'
    BY <2>3 DEF ResetOf
  <2>5. AloneInv' /\ ResetInv' /\ SoundInv'
    BY <1>0, <1>1, <1>5, <2>1, <2>3, <2>4, StepOfOne
  <2> QED
    BY <2>2, <2>5 DEF BoardsInv
<1>7. CASE configFiles[d] # "torn"
  <2> DEFINE new == [boardReq[r] EXCEPT !.read = @ \ {d}]
  <2>1. /\ boardConfigs' = IF configFiles[d] = "absent" THEN boardConfigs
                           ELSE [boardConfigs EXCEPT ![d] = configFiles[d]]
        /\ boardPc' = boardPc
    BY <1>7 DEF ReloadBoardConfig
  <2>2. boardReq' = [boardReq EXCEPT ![r] = new]
    BY <1>0, <1>7 DEF ReloadBoardConfig
  <2>3. new \in BoardForm /\ new.read = boardReq[r].read \ {d}
    BY <1>0 DEF BoardForm
  <2> HIDE DEF new
  <2>4. boardReq' \in [Requests -> BoardForm] /\ boardReq'[r] = new
    BY <1>0, <2>2, <2>3
  <2>5. /\ boardPc' = [boardPc EXCEPT ![r] = "reload"] /\ boardPc'[r] = "reload"
        /\ "reload" \in BoardSteps /\ "reload" # "idle"
    BY <1>0, <2>1 DEF BoardSteps
  <2>6. configFiles[d] # "absent" => configFiles[d] \in BoardConfigs \cup {"global"}
    BY <1>7 DEF BoardsInv, ListOK
  <2>7. boardConfigs' \in [Dirs -> BoardConfigs \cup {"global", "none"}]
        /\ (configFiles[d] # "absent" => boardConfigs'[d] = configFiles[d])
        /\ \A e \in Dirs \ {d} : boardConfigs'[e] = boardConfigs[e]
    BY <2>1, <2>6 DEF BoardsInv, ListOK
  <2>8. ListOK'
    BY <1>1, <1>4, <2>1, <2>4, <2>7 DEF BoardsInv, ListOK
  <2>9. r \notin overlapping => ResetOf(r)'
    <3> SUFFICES ASSUME r \notin overlapping, NEW e \in VisibleBoards
                 PROVE  boardList'[e] > 0 /\ (e \in boardReq'[r].read \/ ConfigOK(e)')
      BY <1>2, <2>5 DEF ResetOf
    <3>1. boardList[e] > 0 /\ (e \in boardReq[r].read \/ ConfigOK(e))
      BY <1>0, <1>1, <1>5 DEF ResetInv, ResetOf
    <3>2. CASE e = d
      <4>1. ConfigOK(e)'
        BY <1>1, <2>7, <3>2 DEF ConfigOK
      <4> QED
        BY <4>1, <3>1, <1>1
    <3>3. CASE e # d
      <4>1. e \in boardReq[r].read => e \in boardReq'[r].read
        BY <3>3, <2>3, <2>4
      <4>2. ConfigOK(e) => ConfigOK(e)'
        BY <3>3, <1>1, <2>7, VisibleAreBoards DEF ConfigOK
      <4> QED
        BY <4>1, <4>2, <3>1, <1>1
    <3> QED
      BY <3>2, <3>3
  <2>10. FormInv(r)'
    BY <2>5 DEF FormInv
  <2>11. AloneInv' /\ ResetInv' /\ SoundInv'
    BY <1>0, <1>1, <1>3, <1>5, <2>5, <2>9, <2>10, StepOfOne
  <2> QED
    BY <2>8, <2>11 DEF BoardsInv
<1> QED
  BY <1>6, <1>7

\* ReadSections ends a reset; one that was alone leaves every visible board whole.
LEMMA ReadSectionsSafe ==
  ASSUME BoardsInv, NEW r \in Requests, ReadSections(r)
  PROVE  BoardsInv'
<1>0. /\ boardReq \in [Requests -> BoardForm] /\ boardReq[r] \in BoardForm /\ boardReq[r].read = {}
      /\ boardPc[r] = "reload" /\ boardPc \in [Requests -> BoardSteps]
  BY DEF BoardsInv, ListOK, ReadSections, BoardAt
<1>1. UNCHANGED <<boardRows, boardList, boardConfigs, configFiles, sectionRows, overlapping>>
      /\ boardsUp /\ boardsUp'
  BY DEF ReadSections, BoardAt
<1>2. sound' \in BOOLEAN /\ (sound' => r \notin overlapping)
  BY <1>0 DEF BoardsInv, ListOK, AloneInv, ReadSections
<1>3. PICK step \in {"readBoards", "idle"} :
        /\ boardPc' = [boardPc EXCEPT ![r] = step]
        /\ step = "readBoards" => boardReq' = [boardReq EXCEPT ![r].rebuild = FALSE]
        /\ step = "idle" => BoardDone(r)
  BY DEF ReadSections, BoardDone
<1>4. boardPc' \in [Requests -> BoardSteps] /\ boardReq' \in [Requests -> BoardForm]
  <2> DEFINE new == [boardReq[r] EXCEPT !.rebuild = FALSE]
  <2>1. new \in BoardForm
    BY <1>0 DEF BoardForm
  <2>2. step = "readBoards" => boardReq' = [boardReq EXCEPT ![r] = new]
    BY <1>0, <1>3
  <2> HIDE DEF new
  <2>3. step = "readBoards" => boardReq' \in [Requests -> BoardForm]
    BY <1>0, <2>1, <2>2
  <2>4. boardPc' \in [Requests -> BoardSteps]
    BY <1>0, <1>3 DEF BoardSteps
  <2> QED
    BY <1>3, <2>3, <2>4, DoneTypes DEF BoardsInv
<1>5. ListOK'
  BY <1>1, <1>2, <1>4 DEF BoardsInv, ListOK
<1>6. boardPc'[r] = step
  BY <1>0, <1>3
<1>7. ResetOf(r)' /\ FormInv(r)'
  BY <1>6 DEF ResetOf, FormInv
<1>8. sound' => \A d \in VisibleBoards' : Whole(d)'
  <2>1. VisibleBoards' = VisibleBoards
    BY <1>1, SameVisible
  <2>2. r \notin overlapping => \A d \in VisibleBoards : Whole(d)
    BY <1>0, <1>1 DEF BoardsInv, ResetInv, ResetOf, Whole
  <2> QED
    BY <1>1, <1>2, <2>1, <2>2 DEF Whole, ConfigOK
<1>9. AloneInv' /\ ResetInv' /\ SoundInv'
  <2>1. step \in BoardSteps /\ boardPc[r] # "idle"
    BY <1>0 DEF BoardSteps
  <2>2. AloneInv /\ ResetInv /\ SoundInv
    BY DEF BoardsInv
  <2> QED
    BY <2>1, <2>2, <1>0, <1>1, <1>2, <1>3, <1>7, <1>8, StepOfOne
<1> QED
  BY <1>5, <1>9 DEF BoardsInv

\* A step that fails ends its request; nothing is promised until a reset runs alone.
LEMMA BoardStepFailsSafe ==
  ASSUME BoardsInv, NEW r \in Requests, BoardStepFails(r)
  PROVE  BoardsInv'
<1>0. boardPc \in [Requests -> BoardSteps] /\ boardPc[r] # "idle" /\ BoardDone(r) /\ ~sound'
      /\ sound' \in BOOLEAN
  BY DEF BoardsInv, ListOK, BoardStepFails
<1>1. UNCHANGED <<boardRows, boardList, boardConfigs, configFiles, sectionRows, overlapping>>
      /\ boardsUp /\ boardsUp'
  BY DEF BoardStepFails
<1>2. boardPc' = [boardPc EXCEPT ![r] = "idle"] /\ boardPc'[r] = "idle" /\ "idle" \in BoardSteps
  BY <1>0 DEF BoardDone, BoardSteps
<1>3. ListOK'
  BY <1>0, <1>1, DoneTypes DEF BoardsInv, ListOK
<1>4. ResetOf(r)'
  BY <1>2 DEF ResetOf
<1>5. AloneInv /\ ResetInv /\ SoundInv
  BY DEF BoardsInv
<1>6. AloneInv' /\ ResetInv' /\ SoundInv'
  BY <1>0, <1>1, <1>2, <1>4, <1>5, StepOfOne
<1> QED
  BY <1>3, <1>6 DEF BoardsInv

\* The end of the process leaves no request and nothing promised.
LEMMA StopServerSafe ==
  ASSUME BoardsInv, StopServer
  PROVE  BoardsInv'
<1>1. ~boardsUp' /\ ~sound' /\ \A q \in Requests : boardPc'[q] = "idle"
  BY DEF StopServer
<1>2. ListOK'
  BY EmptyForm DEF StopServer, BoardsInv, ListOK, BoardSteps
<1>3. AloneInv' /\ ResetInv' /\ SoundInv'
  BY <1>1 DEF AloneInv, ResetInv, SoundInv, BoardIdle
<1> QED
  BY <1>2, <1>3 DEF BoardsInv

\* The start of the process is a reset that runs alone.
LEMMA StartServerSafe ==
  ASSUME BoardsInv, StartServer
  PROVE  BoardsInv'
<1>1. /\ UNCHANGED <<boardRows, sectionRows, configFiles, boardPc, boardReq, overlapping>>
      /\ boardsUp' = TRUE /\ sound' = TRUE
      /\ boardList' = [d \in Dirs |-> IF d \in VisibleBoards THEN 1 ELSE 0]
      /\ boardConfigs' = [d \in Dirs |-> IF d \in VisibleBoards /\ configFiles[d] # "absent"
                                         THEN configFiles[d] ELSE "none"]
      /\ \A d \in VisibleBoards : configFiles[d] # "torn"
  BY DEF StartServer
<1>2. \A q \in Requests : boardPc'[q] = "idle"
  BY <1>1 DEF StartServer, BoardsInv, AloneInv, BoardIdle
<1>3. VisibleBoards' = VisibleBoards
  BY <1>1, SameVisible
<1>4. ListOK'
  <2>1. boardList' \in [Dirs -> Nat]
    BY <1>1
  <2>2. ASSUME NEW d \in Dirs, d \in VisibleBoards, configFiles[d] # "absent"
        PROVE  configFiles[d] \in BoardConfigs \cup {"global"}
    BY <2>2, <1>1 DEF BoardsInv, ListOK
  <2>3. boardConfigs' \in [Dirs -> BoardConfigs \cup {"global", "none"}]
    BY <2>2, <1>1
  <2> QED
    BY <1>1, <2>1, <2>3 DEF BoardsInv, ListOK
<1>5. \A d \in VisibleBoards' : Whole(d)'
  BY <1>1, <1>3, VisibleAreBoards DEF Whole, ConfigOK
<1>6. AloneInv' /\ ResetInv' /\ SoundInv'
  BY <1>1, <1>2, <1>5 DEF AloneInv, ResetInv, ResetOf, SoundInv, FormInv
<1> QED
  BY <1>4, <1>6 DEF BoardsInv

\* The first start finds no board.
LEMMA BoardsStart == BoardsInit => BoardsInv
<1> SUFFICES ASSUME BoardsInit PROVE BoardsInv
  OBVIOUS
<1>1. ListOK
  BY EmptyForm DEF BoardsInit, ListOK, BoardSteps
<1>2. VisibleBoards = {} /\ \A r \in Requests : boardPc[r] = "idle"
  BY DEF BoardsInit, VisibleBoards
<1>3. AloneInv /\ ResetInv /\ SoundInv
  BY <1>2 DEF BoardsInit, AloneInv, ResetInv, ResetOf, SoundInv, FormInv
<1> QED
  BY <1>1, <1>3 DEF BoardsInv

\* Every step of the boards keeps the invariant.
LEMMA BoardsStep == BoardsInv /\ BoardsNext => BoardsInv'
<1> SUFFICES ASSUME BoardsInv, BoardsNext PROVE BoardsInv'
  OBVIOUS
<1>1. ASSUME NEW r \in Requests, BoardRequestStep(r) PROVE BoardsInv'
  BY <1>1, SetBoardConfigSafe, TruncateConfigFileSafe, EncodeConfigSafe, InsertBoardSafe,
     AppendBoardSafe, ModifyInDBSafe, DeleteBoardRowSafe, DeleteBoardConfigSafe, ReadBoardsSafe,
     AssignBoardsSafe, ReadSectionsSafe, ReloadBoardConfigSafe, BoardStepFailsSafe
  DEF BoardRequestStep
<1>2. sectionRows \in [Sections -> {"none", "shown", "hidden"}]
  BY DEF BoardsInv, ListOK
<1>3. ASSUME NEW r \in Requests, StartBuild(r) PROVE BoardsInv'
  BY <1>2, <1>3, BoardStarts, EmptyForm DEF StartBuild
<1>4. ASSUME NEW r \in Requests, NEW d \in Dirs, NEW s \in Sections, NEW c \in BoardConfigs,
             NEW rebuild \in BOOLEAN,
             StartCreate(r, d, s, c, rebuild) \/ StartModify(r, d, s, c, rebuild)
      PROVE  BoardsInv'
  <2> PICK do \in {"create", "modify"} :
        StartBoardRequest(r, [do |-> do, dir |-> d, section |-> s, config |-> c,
                              rebuild |-> rebuild, read |-> {}], "set")
    BY <1>4 DEF StartCreate, StartModify
  <2> DEFINE form == [do |-> do, dir |-> d, section |-> s, config |-> c, rebuild |-> rebuild,
                      read |-> {}]
  <2>1. form \in BoardForm
    BY DEF BoardForm
  <2>2. StartBoardRequest(r, form, "set")
    OBVIOUS
  <2> HIDE DEF form
  <2>3. UNCHANGED <<boardList, boardConfigs, configFiles, boardsUp, boardRows, sectionRows>>
    BY <1>4 DEF StartCreate, StartModify
  <2> QED
    BY <1>2, <2>1, <2>2, <2>3, BoardStarts
<1>5. ASSUME NEW r \in Requests, NEW d \in Dirs, StartDeleteBoard(r, d) PROVE BoardsInv'
  <2> DEFINE form == [NoForm EXCEPT !.do = "delete", !.dir = d]
  <2>1. form \in BoardForm
    BY EmptyForm DEF BoardForm
  <2>2. StartBoardRequest(r, form, "deleteRow")
    BY <1>5 DEF StartDeleteBoard
  <2> HIDE DEF form
  <2>3. UNCHANGED <<boardList, boardConfigs, configFiles, boardsUp, boardRows, sectionRows>>
    BY <1>5 DEF StartDeleteBoard
  <2> QED
    BY <1>2, <2>1, <2>2, <2>3, BoardStarts
<1>6. ASSUME NEW r \in Requests, NEW s \in Sections,
             DeleteSection(r, s) \/ \E state \in {"shown", "hidden"} : SaveSection(r, s, state)
      PROVE  BoardsInv'
  <2> DEFINE form == [NoForm EXCEPT !.do = "section"]
  <2>1. form \in BoardForm
    BY EmptyForm DEF BoardForm
  <2>2. StartBoardRequest(r, form, "readBoards")
    BY <1>6 DEF DeleteSection, SaveSection
  <2> HIDE DEF form
  <2>3. UNCHANGED <<boardList, boardConfigs, configFiles, boardsUp, boardRows>>
    BY <1>6 DEF DeleteSection, SaveSection
  <2>4. sectionRows' \in [Sections -> {"none", "shown", "hidden"}]
    BY <1>2, <1>6 DEF DeleteSection, SaveSection
  <2> QED
    BY <2>1, <2>2, <2>3, <2>4, BoardStarts
<1> QED
  BY <1>1, <1>3, <1>4, <1>5, <1>6, StopServerSafe, StartServerSafe DEF BoardsNext

\* So does a step of something else.
LEMMA BoardsInvInductive == BoardsInv /\ [BoardsNext]_boardVars => BoardsInv'
<1> SUFFICES ASSUME BoardsInv, UNCHANGED boardVars PROVE BoardsInv'
  BY BoardsStep
<1>1. UNCHANGED <<boardRows, sectionRows, boardList, boardConfigs, configFiles, boardsUp,
                  boardPc, boardReq, overlapping, sound>>
  BY DEF boardVars
<1>2. VisibleBoards' = VisibleBoards
  BY <1>1, SameVisible
<1>3. ListOK'
  BY <1>1 DEF BoardsInv, ListOK
<1>4. AloneInv'
  BY <1>1 DEF BoardsInv, AloneInv, BoardIdle
<1>5. \A d \in Dirs : (Whole(d)' <=> Whole(d)) /\ (ConfigOK(d)' <=> ConfigOK(d))
  BY <1>1 DEF Whole, ConfigOK
<1>6. ResetInv'
  BY <1>1, <1>2, <1>5, VisibleAreBoards DEF BoardsInv, ResetInv, ResetOf
<1>7. SoundInv'
  BY <1>1, <1>2 DEF BoardsInv, SoundInv, FormInv, BoardIdle, Whole, ConfigOK
<1> QED
  BY <1>3, <1>4, <1>6, <1>7 DEF BoardsInv

\* Requests that do not overlap, and a reset that runs alone, leave every visible board in the list
\* with the configuration of its file: ResetBoardSectionArrays, /manage/boards and
\* /manage/boardsections.
THEOREM BoardListIsWholeCorrect == BoardsSpec => []BoardListIsWhole
<1>1. BoardsInv => BoardListIsWhole
  BY DEF BoardsInv, SoundInv, BoardListIsWhole, Whole, ConfigOK
<1> QED
  BY <1>1, BoardsStart, BoardsInvInductive, PTL DEF BoardsSpec

\* The forms that create a board and have not listed it yet.
Creating == {r \in Requests : /\ boardPc[r] \in {"set", "truncate", "encode", "insert", "append"}
                              /\ boardReq[r].do = "create"}
InsertsCreate == \A r \in Requests : boardPc[r] \in {"insert", "append"} => boardReq[r].do = "create"

\* Each form that creates a board lists it once, and a reset lists a board once: a board is listed
\* as often as forms have created one, and once more.
BoardCounts ==
    /\ creations \in 0..MaxCreations
    /\ Cardinality(Creating) <= creations
    /\ \A d \in Dirs : boardList[d] + Cardinality(Creating) <= creations + 1
    /\ overlapping \subseteq Requests
    /\ InsertsCreate

\* Some of the requests are finitely many.
LEMMA CountedRequests ==
  ASSUME NEW S \in SUBSET Requests
  PROVE  IsFiniteSet(S) /\ Cardinality(S) \in Nat /\ Cardinality(S) <= Cardinality(Requests)
  BY RequestsAssumption, FS_Subset, FS_CardinalityType

\* A step that lists no board once more keeps the counts.
LEMMA ListKeepsCounts ==
  ASSUME BoardsInv, BoardCounts, creations' = creations, Creating' \subseteq Creating,
         \A d \in Dirs : boardList'[d] \in {0, 1, boardList[d]},
         overlapping' \subseteq Requests, InsertsCreate'
  PROVE  BoardCounts'
<1>1. Cardinality(Creating)' <= Cardinality(Creating) /\ Cardinality(Creating)' \in Nat
  <2>1. Creating \in SUBSET Requests /\ Creating' \in SUBSET Requests
    BY DEF Creating
  <2> QED
    BY <2>1, CountedRequests, FS_Subset
<1>2. Cardinality(Creating) \in Nat
  BY CountedRequests DEF Creating
<1>3. creations \in Nat /\ MaxCreations \in Nat /\ \A d \in Dirs : boardList[d] \in Nat
  BY BoardNamesAssumption DEF BoardCounts, BoardsInv, ListOK
<1>4. \A d \in Dirs : boardList'[d] + Cardinality(Creating)' <= creations + 1
  BY <1>1, <1>2, <1>3 DEF BoardCounts
<1> QED
  BY <1>1, <1>2, <1>3, <1>4 DEF BoardCounts

\* A form that creates a board is counted from its start until it has listed the board.
LEMMA StartCreateCounts ==
  ASSUME BoardsInv, BoardCounts, NEW r \in Requests, NEW d \in Dirs, NEW s \in Sections,
         NEW c \in BoardConfigs, NEW rebuild \in BOOLEAN, StartCreate(r, d, s, c, rebuild)
  PROVE  BoardCounts'
<1>1. /\ boardPc[r] = "idle" /\ creations' = creations + 1 /\ creations < MaxCreations
      /\ boardList' = boardList
      /\ boardPc' = [boardPc EXCEPT ![r] = "set"]
      /\ \A q \in Requests \ {r} : boardReq'[q] = boardReq[q]
      /\ overlapping' \subseteq Requests
  BY DEF StartCreate, StartBoardRequest, BoardAt, BoardCounts, BoardsInv, ListOK
<1>2. boardPc \in [Requests -> BoardSteps]
  BY DEF BoardsInv, ListOK
<1>3. Creating' \subseteq Creating \cup {r} /\ Creating \subseteq Requests
  BY <1>1, <1>2 DEF Creating
<1>4. Cardinality(Creating)' <= Cardinality(Creating) + 1 /\ Cardinality(Creating)' \in Nat
      /\ Cardinality(Creating) \in Nat
  <2>1. IsFiniteSet(Creating) /\ IsFiniteSet(Creating \cup {r}) /\ Cardinality(Creating) \in Nat
    BY <1>3, CountedRequests, FS_AddElement
  <2>2. Cardinality(Creating \cup {r}) <= Cardinality(Creating) + 1
        /\ Cardinality(Creating \cup {r}) \in Nat
    BY <2>1, FS_AddElement, FS_CardinalityType
  <2>3. Cardinality(Creating)' <= Cardinality(Creating \cup {r}) /\ Cardinality(Creating)' \in Nat
    BY <1>3, <2>1, FS_Subset, FS_CardinalityType
  <2> QED
    BY <2>1, <2>2, <2>3
<1>5. InsertsCreate'
  BY <1>1, <1>2 DEF InsertsCreate, BoardCounts
<1>6. creations \in Nat /\ MaxCreations \in Nat /\ \A e \in Dirs : boardList[e] \in Nat
  BY BoardNamesAssumption DEF BoardCounts, BoardsInv, ListOK
<1>7. \A e \in Dirs : boardList'[e] + Cardinality(Creating)' <= creations' + 1
  BY <1>1, <1>4, <1>6 DEF BoardCounts
<1> QED
  BY <1>1, <1>4, <1>5, <1>6, <1>7 DEF BoardCounts

\* The board it lists is one more, and the form is one less.
LEMMA AppendBoardCounts ==
  ASSUME BoardsInv, BoardCounts, NEW r \in Requests, AppendBoard(r)
  PROVE  BoardCounts'
<1>1. /\ boardPc[r] = "append" /\ creations' = creations /\ overlapping' = overlapping
      /\ boardReq[r].do = "create" /\ boardReq[r].dir \in Dirs
  BY DEF AppendBoard, BoardAt, BoardCounts, InsertsCreate, BoardsInv, ListOK, BoardForm
<1>2. boardPc'[r] \in {"readBoards", "idle"} /\ \A q \in Requests \ {r} :
        boardPc'[q] = boardPc[q] /\ boardReq'[q] = boardReq[q]
  BY DEF AppendBoard, BoardGoto, BoardDone, BoardsInv, ListOK
<1>3. r \in Creating /\ Creating' \subseteq Creating \ {r} /\ Creating \in SUBSET Requests
  BY <1>1, <1>2 DEF Creating
<1>4. Cardinality(Creating)' <= Cardinality(Creating) - 1 /\ Cardinality(Creating)' \in Nat
      /\ Cardinality(Creating) \in Nat
  <2>1. IsFiniteSet(Creating) /\ Cardinality(Creating) \in Nat
    BY <1>3, CountedRequests
  <2>2. IsFiniteSet(Creating \ {r}) /\ Cardinality(Creating \ {r}) = Cardinality(Creating) - 1
    BY <1>3, <2>1, FS_RemoveElement
  <2>3. Cardinality(Creating)' <= Cardinality(Creating \ {r}) /\ Cardinality(Creating)' \in Nat
    BY <1>3, <2>2, FS_Subset, FS_CardinalityType
  <2> QED
    BY <2>1, <2>2, <2>3
<1>5. InsertsCreate'
  BY <1>2 DEF InsertsCreate, BoardCounts
<1>6. creations \in Nat /\ MaxCreations \in Nat /\ \A e \in Dirs : boardList[e] \in Nat
  BY BoardNamesAssumption DEF BoardCounts, BoardsInv, ListOK
<1>7. \A e \in Dirs : boardList'[e] \in {boardList[e], boardList[e] + 1}
  BY <1>1 DEF AppendBoard, BoardsInv, ListOK
<1>8. \A e \in Dirs : boardList'[e] + Cardinality(Creating)' <= creations + 1
  BY <1>4, <1>6, <1>7 DEF BoardCounts
<1> QED
  BY <1>1, <1>4, <1>5, <1>6, <1>8 DEF BoardCounts

\* A request that starts with another form meets others.
LEMMA OtherFormCounts ==
  ASSUME BoardsInv, BoardCounts, NEW r \in Requests, NEW form, NEW step \in {"set", "deleteRow", "readBoards"},
         StartBoardRequest(r, form, step), step = "set" => form.do # "create",
         creations' = creations, boardList' = boardList
  PROVE  BoardCounts'
<1>1. /\ boardPc \in [Requests -> BoardSteps] /\ boardReq \in [Requests -> BoardForm]
      /\ \A d \in Dirs : boardList'[d] = boardList[d]
  BY DEF BoardsInv, ListOK
<1>2. /\ boardPc'[r] = step /\ boardReq'[r] = form /\ overlapping' \subseteq Requests
      /\ \A q \in Requests \ {r} : boardPc'[q] = boardPc[q] /\ boardReq'[q] = boardReq[q]
  BY <1>1 DEF StartBoardRequest, BoardCounts
<1>3. Creating' \subseteq Creating
  BY <1>2 DEF Creating
<1>4. InsertsCreate'
  BY <1>2 DEF InsertsCreate, BoardCounts
<1> QED
  BY <1>1, <1>2, <1>3, <1>4, ListKeepsCounts

\* A request that is at work stays in its form and lists no board but as a reset does.
LEMMA RequestStepCounts ==
  ASSUME BoardsInv, BoardCounts, NEW r \in Requests, BoardRequestStep(r), ~AppendBoard(r)
  PROVE  BoardCounts'
<1>1. /\ boardPc \in [Requests -> BoardSteps] /\ boardReq \in [Requests -> BoardForm]
      /\ boardList \in [Dirs -> Nat]
  BY DEF BoardsInv, ListOK
<1>2. /\ creations' = creations /\ overlapping' = overlapping
      /\ \A d \in Dirs : boardList'[d] \in {0, 1, boardList[d]}
  BY <1>1 DEF BoardRequestStep, SetBoardConfig, TruncateConfigFile, EncodeConfig, InsertBoard, ModifyInDB,
              DeleteBoardRow, DeleteBoardConfig, ReadBoards, AssignBoards, ReadSections,
              ReloadBoardConfig, BoardStepFails
<1>3. \A q \in Requests \ {r} : boardPc'[q] = boardPc[q] /\ boardReq'[q] = boardReq[q]
  BY <1>1 DEF BoardRequestStep, SetBoardConfig, TruncateConfigFile, EncodeConfig, InsertBoard, ModifyInDB,
              DeleteBoardRow, DeleteBoardConfig, ReadBoards, AssignBoards, ReadSections,
              ReloadBoardConfig, BoardStepFails, BoardGoto, BoardDone
<1>4. /\ boardPc'[r] \in {"set", "truncate", "encode", "insert", "append"} =>
            /\ boardPc[r] \in {"set", "truncate", "encode", "insert", "append"}
            /\ boardReq'[r].do = boardReq[r].do
      /\ boardPc'[r] \in {"insert", "append"} => boardReq[r].do = "create"
  <2>1. CASE SetBoardConfig(r)
    BY <1>1, <2>1 DEF SetBoardConfig, BoardAt, BoardGoto
  <2>2. CASE TruncateConfigFile(r)
    <3>1. boardPc[r] = "truncate" /\ boardPc'[r] = "encode"
      BY <1>1, <2>2 DEF TruncateConfigFile, BoardAt
    <3>2. boardReq'[r].do = boardReq[r].do
      BY <1>1, <2>2 DEF TruncateConfigFile, BoardForm
    <3> QED
      BY <3>1, <3>2
  <2>3. CASE EncodeConfig(r)
    BY <1>1, <2>3 DEF EncodeConfig, BoardAt, BoardGoto
  <2>4. CASE InsertBoard(r)
    BY <1>1, <2>4 DEF InsertBoard, BoardAt, BoardGoto, BoardDone, BoardCounts, InsertsCreate
  <2>5. CASE ~(SetBoardConfig(r) \/ TruncateConfigFile(r) \/ EncodeConfig(r) \/ InsertBoard(r))
    <3>1. boardPc'[r] \notin {"set", "truncate", "encode", "insert", "append"}
      BY <1>1, <2>5 DEF BoardRequestStep, ModifyInDB, DeleteBoardRow, DeleteBoardConfig, ReadBoards,
                        AssignBoards, ReadSections, ReloadBoardConfig, BoardStepFails, BoardAt,
                        BoardGoto, BoardDone
    <3> QED
      BY <3>1
  <2> QED
    BY <2>1, <2>2, <2>3, <2>4, <2>5
<1>5. Creating' \subseteq Creating
  BY <1>3, <1>4 DEF Creating
<1>6. InsertsCreate'
  BY <1>3, <1>4 DEF InsertsCreate, BoardCounts
<1> QED
  BY <1>2, <1>5, <1>6, ListKeepsCounts DEF BoardCounts

\* Every step of the boards keeps the counts.
LEMMA BoardCountsStep == BoardsInv /\ BoardCounts /\ [BoardsNext]_boardVars => BoardCounts'
<1> SUFFICES ASSUME BoardsInv, BoardCounts, [BoardsNext]_boardVars
             PROVE  BoardCounts'
  OBVIOUS
<1>1. ASSUME NEW r \in Requests, BoardRequestStep(r) PROVE BoardCounts'
  BY <1>1, RequestStepCounts, AppendBoardCounts
<1>2. ASSUME NEW r \in Requests, StartBuild(r) PROVE BoardCounts'
  BY <1>2, OtherFormCounts DEF StartBuild
<1>3. ASSUME NEW r \in Requests, NEW d \in Dirs, NEW s \in Sections, NEW c \in BoardConfigs,
             NEW rebuild \in BOOLEAN, StartCreate(r, d, s, c, rebuild)
      PROVE  BoardCounts'
  BY <1>3, StartCreateCounts
<1>4. ASSUME NEW r \in Requests, NEW d \in Dirs, NEW s \in Sections, NEW c \in BoardConfigs,
             NEW rebuild \in BOOLEAN, StartModify(r, d, s, c, rebuild)
      PROVE  BoardCounts'
  <2> DEFINE form == [do |-> "modify", dir |-> d, section |-> s, config |-> c, rebuild |-> rebuild,
                      read |-> {}]
  <2>1. form.do # "create"
    OBVIOUS
  <2>2. StartBoardRequest(r, form, "set") /\ creations' = creations /\ boardList' = boardList
    BY <1>4 DEF StartModify
  <2> HIDE DEF form
  <2> QED
    BY <2>1, <2>2, OtherFormCounts
<1>5. ASSUME NEW r \in Requests, NEW d \in Dirs, StartDeleteBoard(r, d) PROVE BoardCounts'
  <2>1. \E form : StartBoardRequest(r, form, "deleteRow") /\ creations' = creations /\ boardList' = boardList
    BY <1>5, Zenon DEF StartDeleteBoard
  <2> QED
    BY <2>1, OtherFormCounts
<1>6. ASSUME NEW r \in Requests, NEW s \in Sections,
             DeleteSection(r, s) \/ \E state \in {"shown", "hidden"} : SaveSection(r, s, state)
      PROVE  BoardCounts'
  <2>1. \E form : StartBoardRequest(r, form, "readBoards") /\ creations' = creations /\ boardList' = boardList
    BY <1>6, Zenon DEF DeleteSection, SaveSection
  <2> QED
    BY <2>1, OtherFormCounts
<1>7. CASE StopServer \/ StartServer
  <2>1. /\ creations' = creations /\ overlapping' = overlapping
        /\ \A d \in Dirs : boardList'[d] \in {0, 1}
    BY <1>7 DEF StopServer, StartServer
  <2>2. Creating' \subseteq Creating /\ InsertsCreate'
    BY <1>7 DEF StopServer, StartServer, Creating, InsertsCreate, BoardCounts
  <2> QED
    BY <2>1, <2>2, ListKeepsCounts DEF BoardCounts
<1>8. CASE UNCHANGED boardVars
  BY <1>8 DEF boardVars, BoardCounts, Creating, InsertsCreate
<1> QED
  BY <1>1, <1>2, <1>3, <1>4, <1>5, <1>6, <1>7, <1>8 DEF BoardsNext

\* The tables, the list and the configurations in memory, and the files keep their types; a board is
\* listed at most once for each form that created one and once for the last reset.
THEOREM BoardsTypeCorrect == BoardsSpec => []BoardsTypeOK
<1>1. BoardsInit => BoardCounts
  <2> SUFFICES ASSUME BoardsInit PROVE BoardCounts
    OBVIOUS
  <2>1. Creating = {} /\ InsertsCreate
    BY DEF BoardsInit, Creating, InsertsCreate
  <2>2. Cardinality(Creating) = 0
    BY <2>1, FS_EmptySet
  <2> QED
    BY <2>1, <2>2, BoardNamesAssumption DEF BoardsInit, BoardCounts
<1>2. BoardsInv /\ BoardCounts => BoardsTypeOK
  <2> SUFFICES ASSUME BoardsInv, BoardCounts PROVE BoardsTypeOK
    OBVIOUS
  <2>1. Cardinality(Creating) \in Nat
    BY CountedRequests DEF Creating
  <2>2. boardList \in [Dirs -> 0..ListBound]
    BY <2>1, BoardNamesAssumption DEF BoardsInv, ListOK, BoardCounts, ListBound
  <2> QED
    BY <2>2 DEF BoardsInv, ListOK, BoardCounts, BoardsTypeOK
<1> QED
  BY <1>1, <1>2, BoardsStart, BoardsInvInductive, BoardCountsStep, PTL DEF BoardsSpec

-----------------------------------------------------------------------------
(* The components side by side, as TLC explores them. *)

\* A behaviour of the instance is a behaviour of each component: of the list of boards, of the pages,
\* of the inserts and of the update.
THEOREM ComponentsOfBoardsAndUpdates == Spec => BoardsSpec /\ PagesSpec /\ InsertSpec /\ UpdateSpec
<1>1. Init => BoardsInit /\ PagesInit /\ InsertInit /\ UpdateInit
  BY DEF Init
<1>2. [Next]_vars => /\ [BoardsNext]_boardVars /\ [PagesNext]_pageVars
                     /\ [InsertNext]_insertVars /\ [UpdateNext]_updateVars
  BY DEF Next, vars
<1> QED
  BY <1>1, <1>2, PTL DEF Spec, BoardsSpec, PagesSpec, InsertSpec, UpdateSpec

\* The rows, the files and what the requests hold keep their types in all four.
THEOREM BoardsAndUpdatesTypesCorrect == Spec => []TypesOK
<1>1. BoardsTypeOK /\ PagesTypeOK /\ InsertTypeOK /\ UpdateTypeOK => TypesOK
  BY DEF TypesOK
<1> QED
  BY <1>1, ComponentsOfBoardsAndUpdates, BoardsTypeCorrect, PagesTypeCorrect, InsertTypeCorrect,
     UpdateTypeCorrect, PTL

===============================================================================
