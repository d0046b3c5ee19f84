----------------------------- MODULE ThreadUpkeep -----------------------------
(***************************************************************************)
(* Moving a thread to another board and replacing the uploads of its posts. *)
(* The handlers change the database and the files on disk step by step, for *)
(* the board the form names; nothing keeps two of them apart.               *)
(***************************************************************************)
EXTENDS Handlers

CONSTANTS
    BoardDirs,
    ThreadPosts,    \* the posts of the thread
    FirstFiles,     \* FirstFiles[p]: the upload post p has at the start
    NewFiles        \* bound: names of uploads received later

UploadNames == NewFiles \cup {FirstFiles[p] : p \in DOMAIN FirstFiles}

ASSUME UpkeepAssumption ==
    /\ DOMAIN FirstFiles \subseteq ThreadPosts
    /\ \A p \in DOMAIN FirstFiles : FirstFiles[p] \notin NewFiles
    /\ \A p, q \in DOMAIN FirstFiles : FirstFiles[p] = FirstFiles[q] => p = q
    /\ "" \notin UploadNames \cup BoardDirs

VARIABLES
    threadBoard,    \* the board of the thread's row
    fileRows,       \* fileRows[p]: filenames of the rows of post p in the files table
    stored,         \* <<board, name>>: the uploads on disk
    threadPages,    \* the boards with a page of the thread
    upkeepPc,
    upkeepReq

upkeepVars == <<threadBoard, fileRows, stored, threadPages, upkeepPc, upkeepReq>>

UpkeepLocals == [board: BoardDirs \cup {""}, dest: BoardDirs \cup {""}, post: ThreadPosts \cup {""},
                 old: UploadNames \cup {""}, new: UploadNames \cup {""}, todo: SUBSET UploadNames,
                 failed: BOOLEAN]
NoUpkeepLocals == [board |-> "", dest |-> "", post |-> "", old |-> "", new |-> "", todo |-> {},
                   failed |-> FALSE]

UpkeepTypeOK ==
    /\ threadBoard \in BoardDirs
    /\ fileRows \in [ThreadPosts -> SUBSET UploadNames]
    /\ stored \subseteq BoardDirs \X UploadNames
    /\ threadPages \subseteq BoardDirs
    /\ upkeepPc \in [Requests -> {"idle", "change", "files", "moveFiles", "removePage", "build",
                                  "receive", "unlink", "removeOld", "attach"}]
    /\ upkeepReq \in [Requests -> UpkeepLocals]

UpkeepInit ==
    /\ threadBoard \in BoardDirs
    /\ fileRows = [p \in ThreadPosts |-> IF p \in DOMAIN FirstFiles THEN {FirstFiles[p]} ELSE {}]
    /\ stored = {threadBoard} \X (UploadNames \ NewFiles)
    /\ threadPages = {threadBoard}
    /\ upkeepPc = [r \in Requests |-> "idle"]
    /\ upkeepReq = [r \in Requests |-> NoUpkeepLocals]

-----------------------------------------------------------------------------
UpkeepGoto(r, step) == upkeepPc' = [upkeepPc EXCEPT ![r] = step]
UpkeepDone(r) ==
    /\ UpkeepGoto(r, "idle")
    /\ upkeepReq' = [upkeepReq EXCEPT ![r] = NoUpkeepLocals]
FilesUnchanged == UNCHANGED <<threadBoard, fileRows, stored, threadPages>>

-----------------------------------------------------------------------------
(* moveThread.  The source board is the one the form was made for. *)

StartMove(r, src, dest) ==
    /\ upkeepPc[r] = "idle"
    /\ UpkeepGoto(r, "change")
    /\ upkeepReq' = [upkeepReq EXCEPT ![r] = [NoUpkeepLocals EXCEPT !.board = src, !.dest = dest]]
    /\ FilesUnchanged

ChangeBoardID(r) ==
    /\ upkeepPc[r] = "change"
    /\ threadBoard' = upkeepReq[r].dest
    /\ UpkeepGoto(r, "files")
    /\ UNCHANGED <<fileRows, stored, threadPages, upkeepReq>>

GetThreadFiles(r) ==
    /\ upkeepPc[r] = "files"
    /\ upkeepReq' = [upkeepReq EXCEPT ![r].todo = UNION {fileRows[p] : p \in ThreadPosts}]
    /\ UpkeepGoto(r, "moveFiles")
    /\ FilesUnchanged

\* moveFileIfExists: a file that is not there is an error as well; the loop goes on after one.  The
\* upload may be moved when the rename of its thumbnail fails.
MoveFile(r, f) ==
    LET src == upkeepReq[r].board
        dest == upkeepReq[r].dest
    IN
    /\ upkeepPc[r] = "moveFiles"
    /\ f \in upkeepReq[r].todo
    /\ \/ /\ <<src, f>> \in stored
          /\ stored' = (stored \ {<<src, f>>}) \cup {<<dest, f>>}
          /\ \/ upkeepReq' = [upkeepReq EXCEPT ![r].todo = @ \ {f}]
             \/ /\ MayFail
                /\ upkeepReq' = [upkeepReq EXCEPT ![r].todo = @ \ {f}, ![r].failed = TRUE]
       \/ /\ <<src, f>> \notin stored \/ MayFail
          /\ upkeepReq' = [upkeepReq EXCEPT ![r].todo = @ \ {f}, ![r].failed = TRUE]
          /\ UNCHANGED stored
    /\ UNCHANGED <<threadBoard, fileRows, threadPages, upkeepPc>>

FilesMoved(r) ==
    /\ upkeepPc[r] = "moveFiles" /\ upkeepReq[r].todo = {}
    /\ IF upkeepReq[r].failed THEN UpkeepDone(r)
       ELSE UpkeepGoto(r, "removePage") /\ UNCHANGED upkeepReq
    /\ FilesUnchanged

RemoveOldPage(r) ==
    LET src == upkeepReq[r].board IN
    /\ upkeepPc[r] = "removePage"
    /\ threadPages' = threadPages \ {src}
    /\ IF src \in threadPages
       THEN UpkeepGoto(r, "build") /\ UNCHANGED upkeepReq
       ELSE UpkeepDone(r)
    /\ UNCHANGED <<threadBoard, fileRows, stored>>

\* BuildThreadPages takes the board from the database; the pages of both boards follow.
BuildMovedThread(r) ==
    /\ upkeepPc[r] = "build"
    /\ threadPages' = threadPages \cup {threadBoard}
    /\ UpkeepDone(r)
    /\ UNCHANGED <<threadBoard, fileRows, stored>>

-----------------------------------------------------------------------------
(* editPost with doedit=upload *)

\* post.GetUpload, before the new upload is received; the board is the form's.
StartReplacing(r, p, board) ==
    /\ upkeepPc[r] = "idle"
    /\ UpkeepGoto(r, "receive")
    /\ \/ /\ fileRows[p] = {}
          /\ upkeepReq' = [upkeepReq EXCEPT ![r] = [NoUpkeepLocals EXCEPT !.board = board, !.post = p]]
       \/ \E old \in fileRows[p] :
             upkeepReq' = [upkeepReq EXCEPT ![r] =
                [NoUpkeepLocals EXCEPT !.board = board, !.post = p, !.old = old]]
    /\ FilesUnchanged

\* AttachUploadFromRequest writes the file under a name nobody knows yet.
ReceiveReplacement(r, f) ==
    /\ upkeepPc[r] = "receive"
    /\ f \in NewFiles /\ \A b \in BoardDirs : <<b, f>> \notin stored
    /\ \A q \in Requests : f \notin {upkeepReq[q].old, upkeepReq[q].new} \cup upkeepReq[q].todo
    /\ \A p \in ThreadPosts : f \notin fileRows[p]
    /\ stored' = stored \cup {<<upkeepReq[r].board, f>>}
    /\ upkeepReq' = [upkeepReq EXCEPT ![r].new = f]
    /\ UpkeepGoto(r, IF upkeepReq[r].old = "" THEN "attach" ELSE "unlink")
    /\ UNCHANGED <<threadBoard, fileRows, threadPages>>

\* UnlinkUploads(false): every row of the post.
UnlinkUploads_AfterRemoval(r) ==
    /\ upkeepPc[r] = "unlink"
    /\ stored' = stored \ {<<upkeepReq[r].board, upkeepReq[r].old>>}
    /\ UpkeepGoto(r, "removeOld")
    /\ UNCHANGED <<threadBoard, fileRows, threadPages, upkeepReq>>
UnlinkUploads(r) ==
    /\ upkeepPc[r] = "unlink"
    /\ fileRows' = [fileRows EXCEPT ![upkeepReq[r].post] = {}]
    /\ UpkeepGoto(r, "removeOld")
    /\ UNCHANGED <<threadBoard, stored, threadPages, upkeepReq>>

\* os.Remove of the old file; its error is ignored.
RemoveOldFile(r) ==
    /\ upkeepPc[r] = "removeOld"
    /\ stored' = stored \ {<<upkeepReq[r].board, upkeepReq[r].old>>}
    /\ UpkeepGoto(r, "attach")
    /\ UNCHANGED <<threadBoard, fileRows, threadPages, upkeepReq>>

\* AttachFile, or the removal of the new file if it fails; the boards are built either way.
AttachReplacement(r) ==
    LET q == upkeepReq[r] IN
    /\ upkeepPc[r] = "attach"
    /\ \/ /\ fileRows' = [fileRows EXCEPT ![q.post] = @ \cup {q.new}]
          /\ UNCHANGED stored
       \/ /\ MayFail
          /\ stored' = stored \ {<<q.board, q.new>>}
          /\ UNCHANGED fileRows
    /\ UpkeepDone(r)
    /\ UNCHANGED <<threadBoard, threadPages>>

\* A query fails and the handler answers with the error.
UpkeepQueryFails(r) ==
    /\ MayFail
    /\ upkeepPc[r] \in {"change", "files", "build", "receive", "unlink"}
    /\ UpkeepDone(r)
    /\ FilesUnchanged

\* The process dies and starts again.
UpkeepCrash ==
    /\ MayFail
    /\ \E r \in Requests : upkeepPc[r] # "idle"
    /\ upkeepPc' = [r \in Requests |-> "idle"]
    /\ upkeepReq' = [r \in Requests |-> NoUpkeepLocals]
    /\ FilesUnchanged

UpkeepNext ==
    \/ \E r \in Requests :
          \/ \E src, dest \in BoardDirs : src # dest /\ StartMove(r, src, dest)
          \/ ChangeBoardID(r) \/ GetThreadFiles(r)
          \/ \E f \in UploadNames : MoveFile(r, f) \/ ReceiveReplacement(r, f)
          \/ FilesMoved(r) \/ RemoveOldPage(r) \/ BuildMovedThread(r)
          \/ \E p \in ThreadPosts, b \in BoardDirs : StartReplacing(r, p, b)
          \/ UnlinkUploads(r) \/ RemoveOldFile(r) \/ AttachReplacement(r)
          \/ UpkeepQueryFails(r)
    \/ UpkeepCrash

UpkeepSpec == UpkeepInit /\ [][UpkeepNext]_upkeepVars

-----------------------------------------------------------------------------
\* Whatever moves, replacements, failures and crashes overlap, the upload of every row in the
\* files table is on disk, on one board or another: editPost removes a row before its file and
\* attaches a file that is there, and a move renames.
NoUploadIsLost ==
    \A p \in ThreadPosts : \A f \in fileRows[p] : \E b \in BoardDirs : <<b, f>> \in stored
===============================================================================
