-------------------------------- MODULE Boards --------------------------------
(***************************************************************************)
(* Boards and sections: the rows, the list of boards and the configurations *)
(* the process keeps in memory (gcsql.AllBoards, config.boardConfigs), and  *)
(* the configuration files beside gochan.json.  The board and section pages *)
(* below /manage change them; every build of a board reads them again.      *)
(* Neither the list nor the map is guarded by a lock.                       *)
(***************************************************************************)
EXTENDS Handlers

CONSTANTS
    Dirs,           \* the directories boards may have
    Sections,
    BoardConfigs,   \* what the form of a board sets
    MaxCreations    \* bound: forms that create a board

ASSUME BoardNamesAssumption ==
    /\ BoardConfigs \cap {"none", "global", "absent", "torn"} = {}
    /\ "none" \notin Sections /\ MaxCreations \in Nat
ASSUME BoardDirsAssumption == Dirs # {} /\ Sections # {}

VARIABLES
    boardRows,      \* boardRows[d]: section of the row of the boards table with dir = d, or "none"
    sectionRows,    \* sectionRows[s]: row s of the sections table
    boardList,      \* boardList[d]: how often AllBoards lists the board
    boardConfigs,   \* boardConfigs[d]: configuration in memory, or "none" for the global one
    configFiles,    \* configFiles[d]: contents of <d>-config.json, "absent", or "torn"
    boardsUp,
    boardPc,
    boardReq,       \* boardReq[r]: the form, and what the request has read
    creations,
    overlapping,    \* history: the requests that met another one
    sound           \* history: nothing failed or overlapped since a reset that ran alone

boardVars == <<boardRows, sectionRows, boardList, boardConfigs, configFiles, boardsUp,
               boardPc, boardReq, creations, overlapping, sound>>

BoardSteps == {"idle", "set", "truncate", "encode", "insert", "append", "update", "readBoards",
               "assign", "reload", "readSections", "deleteRow", "deleteConfig"}
BoardForm == [do: {"create", "modify", "delete", "build", "section"}, dir: Dirs, section: Sections,
              config: BoardConfigs \cup {"global"}, rebuild: BOOLEAN, read: SUBSET Dirs]
NoForm == CHOOSE f \in BoardForm : f.do = "build" /\ f.config = "global" /\ f.rebuild = FALSE /\ f.read = {}
ListBound == MaxCreations + 1

BoardsTypeOK ==
    /\ boardRows \in [Dirs -> Sections \cup {"none"}]
    /\ sectionRows \in [Sections -> {"none", "shown", "hidden"}]
    /\ boardList \in [Dirs -> 0..ListBound]
    /\ boardConfigs \in [Dirs -> BoardConfigs \cup {"global", "none"}]
    /\ configFiles \in [Dirs -> BoardConfigs \cup {"global", "absent", "torn"}]
    /\ boardsUp \in BOOLEAN
    /\ boardPc \in [Requests -> BoardSteps]
    /\ boardReq \in [Requests -> BoardForm]
    /\ creations \in 0..MaxCreations
    /\ overlapping \subseteq Requests
    /\ sound \in BOOLEAN

\* A database with one section, no board but the ones created later.
BoardsInit ==
    /\ boardRows = [d \in Dirs |-> "none"]
    /\ sectionRows \in {f \in [Sections -> {"none", "shown"}] : \E s \in Sections : f[s] = "shown"}
    /\ boardList = [d \in Dirs |-> 0]
    /\ boardConfigs = [d \in Dirs |-> "none"]
    /\ configFiles = [d \in Dirs |-> "absent"]
    /\ boardsUp = TRUE
    /\ boardPc = [r \in Requests |-> "idle"]
    /\ boardReq = [r \in Requests |-> NoForm]
    /\ creations = 0
    /\ overlapping = {}
    /\ sound = TRUE

-----------------------------------------------------------------------------
BoardIdle == \A r \in Requests : boardPc[r] = "idle"
BoardAt(r, step) == boardsUp /\ boardPc[r] = step
BoardGoto(r, step) == boardPc' = [boardPc EXCEPT ![r] = step] /\ UNCHANGED boardReq
BoardDone(r) ==
    /\ boardPc' = [boardPc EXCEPT ![r] = "idle"]
    /\ boardReq' = [boardReq EXCEPT ![r] = NoForm]

\* GetAllBoards(true)
VisibleBoards ==
    {d \in Dirs : boardRows[d] # "none" /\ sectionRows[boardRows[d]] = "shown"}

StartBoardRequest(r, form, step) ==
    /\ BoardAt(r, "idle")
    /\ boardPc' = [boardPc EXCEPT ![r] = step]
    /\ boardReq' = [boardReq EXCEPT ![r] = form]
    /\ overlapping' = IF BoardIdle THEN {} ELSE overlapping \cup {r} \cup {q \in Requests : boardPc[q] # "idle"}
    /\ sound' = (sound /\ BoardIdle)

-----------------------------------------------------------------------------
(* /manage/boards: the configuration is written first, the row second. *)

\* boardsCallback: the form is valid; whether there is such a board is not yet known.
StartCreate(r, d, s, c, rebuild) ==
    /\ creations < MaxCreations
    /\ sectionRows[s] # "none"
    /\ StartBoardRequest(r, [do |-> "create", dir |-> d, section |-> s, config |-> c,
                             rebuild |-> rebuild, read |-> {}], "set")
    /\ creations' = creations + 1
    /\ UNCHANGED <<boardRows, sectionRows, boardList, boardConfigs, configFiles, boardsUp>>

\* modifyBoardCallback: GetBoardFromDir found the row.
StartModify(r, d, s, c, rebuild) ==
    /\ boardRows[d] # "none" /\ sectionRows[s] # "none"
    /\ StartBoardRequest(r, [do |-> "modify", dir |-> d, section |-> s, config |-> c,
                             rebuild |-> rebuild, read |-> {}], "set")
    /\ UNCHANGED <<boardRows, sectionRows, boardList, boardConfigs, configFiles, boardsUp, creations>>

StartDeleteBoard(r, d) ==
    /\ boardRows[d] # "none"
    /\ StartBoardRequest(r, [NoForm EXCEPT !.do = "delete", !.dir = d], "deleteRow")
    /\ UNCHANGED <<boardRows, sectionRows, boardList, boardConfigs, configFiles, boardsUp, creations>>

\* writeConfig: SetBoardConfig.  validateBoardConfig replaces zero values by defaults; a form that
\* was accepted has nothing it refuses.
SetBoardConfig(r) ==
    /\ BoardAt(r, "set")
    /\ boardConfigs' = [boardConfigs EXCEPT ![boardReq[r].dir] = boardReq[r].config]
    /\ BoardGoto(r, "truncate")
    /\ UNCHANGED <<boardRows, sectionRows, boardList, configFiles, boardsUp, creations, overlapping, sound>>

\* WriteBoardConfig reads the configuration from memory, opens the file with O_TRUNC ...
TruncateConfigFile(r) ==
    LET d == boardReq[r].dir IN
    /\ BoardAt(r, "truncate")
    /\ configFiles' = [configFiles EXCEPT ![d] = "torn"]
    /\ boardPc' = [boardPc EXCEPT ![r] = "encode"]
    /\ boardReq' = [boardReq EXCEPT ![r].config = IF boardConfigs[d] = "none" THEN "global" ELSE boardConfigs[d]]
    /\ UNCHANGED <<boardRows, sectionRows, boardList, boardConfigs, boardsUp, creations, overlapping, sound>>

\* ... and encodes it.
EncodeConfig(r) ==
    LET form == boardReq[r] IN
    /\ BoardAt(r, "encode")
    /\ configFiles' = [configFiles EXCEPT ![form.dir] = form.config]
    /\ BoardGoto(r, IF form.do = "create" THEN "insert" ELSE "update")
    /\ UNCHANGED <<boardRows, sectionRows, boardList, boardConfigs, boardsUp, creations, overlapping, sound>>

\* CreateBoard: refused when the board exists (dir is UNIQUE, too), or when its section is gone.
InsertBoard(r) ==
    LET form == boardReq[r] IN
    /\ BoardAt(r, "insert")
    /\ IF boardRows[form.dir] = "none" /\ sectionRows[form.section] # "none"
       THEN /\ boardRows' = [boardRows EXCEPT ![form.dir] = form.section]
            /\ BoardGoto(r, "append")
       ELSE BoardDone(r) /\ UNCHANGED boardRows
    /\ UNCHANGED <<sectionRows, boardList, boardConfigs, configFiles, boardsUp, creations, overlapping, sound>>

\* ... AllBoards = append(AllBoards, *board), whatever its section is.
AppendBoard_Skipped(r) ==
    /\ BoardAt(r, "append")
    /\ IF boardReq[r].rebuild THEN BoardGoto(r, "readBoards") ELSE BoardDone(r)
    /\ UNCHANGED <<boardRows, sectionRows, boardList, boardConfigs, configFiles, boardsUp, creations, overlapping, sound>>
AppendBoard(r) ==
    /\ BoardAt(r, "append")
    /\ boardList' = [boardList EXCEPT ![boardReq[r].dir] = @ + 1]
    /\ IF boardReq[r].rebuild THEN BoardGoto(r, "readBoards") ELSE BoardDone(r)
    /\ UNCHANGED <<boardRows, sectionRows, boardConfigs, configFiles, boardsUp, creations, overlapping, sound>>

\* ModifyInDB: an UPDATE by id, then ResetBoardSectionArrays.  rebuild resets once more.
ModifyInDB(r) ==
    LET form == boardReq[r] IN
    /\ BoardAt(r, "update")
    /\ IF sectionRows[form.section] = "none" THEN BoardDone(r) /\ UNCHANGED boardRows
       ELSE /\ boardRows' = IF boardRows[form.dir] = "none" THEN boardRows
                            ELSE [boardRows EXCEPT ![form.dir] = form.section]
            /\ BoardGoto(r, "readBoards")
    /\ UNCHANGED <<sectionRows, boardList, boardConfigs, configFiles, boardsUp, creations, overlapping, sound>>

\* Board.Delete: the row, then the configuration in memory.  The list and the file stay.
DeleteBoardRow(r) ==
    /\ BoardAt(r, "deleteRow")
    /\ boardRows' = [boardRows EXCEPT ![boardReq[r].dir] = "none"]
    /\ BoardGoto(r, "deleteConfig")
    /\ UNCHANGED <<sectionRows, boardList, boardConfigs, configFiles, boardsUp, creations, overlapping, sound>>

DeleteBoardConfig(r) ==
    /\ BoardAt(r, "deleteConfig")
    /\ boardConfigs' = [boardConfigs EXCEPT ![boardReq[r].dir] = "none"]
    /\ BoardDone(r)
    /\ UNCHANGED <<boardRows, sectionRows, boardList, configFiles, boardsUp, creations, overlapping, sound>>

-----------------------------------------------------------------------------
(* /manage/boardsections *)

\* NewSection, UpdateValues: one transaction; then ResetBoardSectionArrays.
SaveSection(r, s, state) ==
    /\ StartBoardRequest(r, [NoForm EXCEPT !.do = "section"], "readBoards")
    /\ sectionRows' = [sectionRows EXCEPT ![s] = state]
    /\ UNCHANGED <<boardRows, boardList, boardConfigs, configFiles, boardsUp, creations>>

\* DeleteSection: a section some board refers to is kept by the foreign key.
DeleteSection(r, s) ==
    /\ sectionRows[s] # "none" /\ \A d \in Dirs : boardRows[d] # s
    /\ StartBoardRequest(r, [NoForm EXCEPT !.do = "section"], "readBoards")
    /\ sectionRows' = [sectionRows EXCEPT ![s] = "none"]
    /\ UNCHANGED <<boardRows, boardList, boardConfigs, configFiles, boardsUp, creations>>

-----------------------------------------------------------------------------
(* ResetBoardSectionArrays, which every buildBoard calls. *)

StartBuild(r) ==
    /\ StartBoardRequest(r, NoForm, "readBoards")
    /\ UNCHANGED <<boardRows, sectionRows, boardList, boardConfigs, configFiles, boardsUp, creations>>

ReadBoards(r) ==
    /\ BoardAt(r, "readBoards")
    /\ boardPc' = [boardPc EXCEPT ![r] = "assign"]
    /\ boardReq' = [boardReq EXCEPT ![r].read = VisibleBoards]
    /\ UNCHANGED <<boardRows, sectionRows, boardList, boardConfigs, configFiles, boardsUp, creations, overlapping, sound>>

AssignBoards_Appends(r) ==
    /\ BoardAt(r, "assign")
    /\ boardList' = [d \in Dirs |-> IF d \in boardReq[r].read THEN boardList[d] + 1 ELSE boardList[d]]
    /\ BoardGoto(r, "reload")
    /\ UNCHANGED <<boardRows, sectionRows, boardConfigs, configFiles, boardsUp, creations, overlapping, sound>>
AssignBoards(r) ==
    /\ BoardAt(r, "assign")
    /\ boardList' = [d \in Dirs |-> IF d \in boardReq[r].read THEN 1 ELSE 0]
    /\ BoardGoto(r, "reload")
    /\ UNCHANGED <<boardRows, sectionRows, boardConfigs, configFiles, boardsUp, creations, overlapping, sound>>

\* ReloadBoardConfig: the file, if there is one; a file without JSON in it ends the reset.
ReloadBoardConfig(r, d) ==
    /\ BoardAt(r, "reload") /\ d \in boardReq[r].read
    /\ IF configFiles[d] = "torn" THEN BoardDone(r) /\ UNCHANGED boardConfigs
       ELSE /\ boardConfigs' = IF configFiles[d] = "absent" THEN boardConfigs
                               ELSE [boardConfigs EXCEPT ![d] = configFiles[d]]
            /\ boardReq' = [boardReq EXCEPT ![r].read = @ \ {d}]
            /\ UNCHANGED boardPc
    /\ sound' = (sound /\ configFiles[d] # "torn")
    /\ UNCHANGED <<boardRows, sectionRows, boardList, configFiles, boardsUp, creations, overlapping>>

\* The sections are read and assigned; the reset is done.  It repaired everything if no other
\* request was there.  form.Rebuild: BuildBoards, which resets again.
ReadSections(r) ==
    /\ BoardAt(r, "reload") /\ boardReq[r].read = {}
    /\ sound' = (sound \/ (r \notin overlapping /\ boardReq[r].do = "build"))
    /\ IF boardReq[r].rebuild
       THEN /\ boardPc' = [boardPc EXCEPT ![r] = "readBoards"]
            /\ boardReq' = [boardReq EXCEPT ![r].rebuild = FALSE]
       ELSE BoardDone(r)
    /\ UNCHANGED <<boardRows, sectionRows, boardList, boardConfigs, configFiles, boardsUp, creations, overlapping>>

-----------------------------------------------------------------------------
\* A query or a file operation fails.
BoardStepFails(r) ==
    /\ MayFail /\ boardsUp
    /\ boardPc[r] \notin {"idle", "set", "append", "assign", "deleteConfig"}
    /\ sound' = FALSE
    /\ BoardDone(r)
    /\ UNCHANGED <<boardRows, sectionRows, boardList, boardConfigs, configFiles, boardsUp, creations, overlapping>>

\* The process ends.  Two goroutines in the map boardConfigs are one reason: the runtime stops
\* the process when it notices them.
StopServer ==
    /\ boardsUp
    /\ MayFail \/ \E q \in Requests, r \in Requests :
          q # r /\ boardPc[q] \in {"set", "reload", "deleteConfig"} /\ boardPc[r] \in {"set", "reload", "deleteConfig"}
    /\ boardsUp' = FALSE
    /\ boardPc' = [r \in Requests |-> "idle"]
    /\ boardReq' = [r \in Requests |-> NoForm]
    /\ boardList' = [d \in Dirs |-> 0]
    /\ boardConfigs' = [d \in Dirs |-> "none"]
    /\ sound' = FALSE
    /\ UNCHANGED <<boardRows, sectionRows, configFiles, creations, overlapping>>

\* initDB ends with a reset; an error of it is fatal.  The configurations of boards in hidden
\* sections are not read.
StartServer ==
    /\ ~boardsUp
    /\ \A d \in VisibleBoards : configFiles[d] # "torn"
    /\ boardsUp' = TRUE
    /\ boardList' = [d \in Dirs |-> IF d \in VisibleBoards THEN 1 ELSE 0]
    /\ boardConfigs' = [d \in Dirs |-> IF d \in VisibleBoards /\ configFiles[d] # "absent"
                                       THEN configFiles[d] ELSE "none"]
    /\ sound' = TRUE
    /\ UNCHANGED <<boardRows, sectionRows, configFiles, boardPc, boardReq, creations, overlapping>>

BoardRequestStep(r) ==
    \/ SetBoardConfig(r) \/ TruncateConfigFile(r) \/ EncodeConfig(r)
    \/ InsertBoard(r) \/ AppendBoard(r) \/ ModifyInDB(r)
    \/ DeleteBoardRow(r) \/ DeleteBoardConfig(r)
    \/ ReadBoards(r) \/ AssignBoards(r) \/ ReadSections(r)
    \/ \E d \in Dirs : ReloadBoardConfig(r, d)
    \/ BoardStepFails(r)

BoardsNext ==
    \/ \E r \in Requests : BoardRequestStep(r) \/ StartBuild(r)
    \/ \E r \in Requests, d \in Dirs, s \in Sections, c \in BoardConfigs, rebuild \in BOOLEAN :
          StartCreate(r, d, s, c, rebuild) \/ StartModify(r, d, s, c, rebuild)
    \/ \E r \in Requests, d \in Dirs : StartDeleteBoard(r, d)
    \/ \E r \in Requests, s \in Sections :
          DeleteSection(r, s) \/ \E state \in {"shown", "hidden"} : SaveSection(r, s, state)
    \/ StopServer \/ StartServer

BoardsSpec == BoardsInit /\ [][BoardsNext]_boardVars

-----------------------------------------------------------------------------
\* Requests that do not overlap, and a reset that runs alone after ones that did or failed, leave
\* every board of a section that is shown in the list, with the configuration of its file.
BoardListIsWhole ==
    boardsUp /\ BoardIdle /\ sound =>
       \A d \in VisibleBoards :
          /\ boardList[d] > 0
          /\ configFiles[d] \notin {"absent", "torn"} => boardConfigs[d] = configFiles[d]

\* A board that was deleted is not listed once the request is done.
DeletedBoardsAreNotListed ==
    BoardIdle => \A d \in Dirs : boardRows[d] = "none" => boardList[d] = 0
===============================================================================
