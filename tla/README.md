# A TLA+ model of gochan

gochan is an imageboard server: visitors create threads and replies, each with at most one
upload; they or the staff delete them; the server keeps the posts in a SQL database and writes
static pages and uploads below a document root.  There is no lock that spans the database and
the disk, and every HTTP request runs in a goroutine of its own.  This project models what
requests do to the two, checks it with TLC on small boards, and proves most of its safety
properties with TLAPS for boards of any size.

Source lines below are relative to the repository; PROJECT.json maps every definition to the
lines it stands for.

## 1. The system

| component | state it keeps | operations | interacts with | what is hard |
|---|---|---|---|---|
| post creation (`pkg/posting/post.go`) | none of its own | `MakePost`: receive upload, filter, insert, attach, prune a cyclic thread, rebuild | store, uploads, board building | nine error returns after the upload is on disk; two transactions; a clean-up that may be rolled back |
| uploads (`pkg/posting/uploads`, `pkg/gcsql/uploads.go`) | `<board>/src`, `<board>/thumb`, table `files` | save, make thumbnails, attach | post creation, editing, deletion | file and row are written at different times; names are time plus a number below 99 |
| store (`pkg/gcsql/posts.go`, `threads.go`, `boards.go`, `sql/`) | tables `threads`, `posts`, `files` and the views on them | insert, delete, trim, select what to prune, what to build | everything | ids from `SELECT MAX(id)`, queries outside their transaction, connections held while others are awaited |
| post deletion (`cmd/gochan/deleteposts.go`) | none | `deletePosts`: look up, remove files, delete rows, mark, rebuild | store, disk, building | everything works from one look-up at the start |
| board building (`pkg/building`) | pages in `<board>/`, `<board>/res` | trim, clean, build threads, board pages, catalog, front page | store, disk | no lock between two builds; stale lists; panics in goroutines |
| process and startup (`cmd/gochan/main.go`, `server.go`) | is the server up? | start, serve, die | store | requests that die half way; what the startup repairs and what it does not |
| moving and editing (`cmd/gochan/movethread.go`, `editpost.go`) | - | move a thread to another board, edit text, replace an upload | store, disk | database first, then files one by one |
| reports, bans and appeals (`pkg/gcsql/reports.go`, `bans.go`, `appeals.go`, `pkg/posting`, `pkg/manage`) | their tables and audit tables | report, clear, ban, appeal, approve | posts, staff | check then insert; several statements without a transaction |
| staff and sessions (`pkg/gcsql/staff.go`, `pkg/manage/util.go`) | staff, sessions | log in, log out, deactivate | every staff action | a login while the account is deactivated |
| board and section cache (`pkg/gcsql/boards.go`) | `AllBoards`, `AllSections` | reset, read | building, handlers | globals without a lock |
| connections, provisioning, database update (`pkg/gcsql/database.go`, `provisioning.go`, `dbupdate`) | pool, schema version | begin, commit, update | everything | pool exhausted by requests that hold one connection and wait for another; an interrupted update |
| filters and wordfilters (`pkg/gcsql/filters.go`, `wordfilters.go`, `pkg/manage/filters.go`) | filters, their boards, conditions and hits | replace words, check before and after the upload, create, edit, switch | post creation, editing, staff | two passes with different lists; edits in several transactions meanwhile |
| configuration of boards (`pkg/config/boardconfig.go`) | `boardConfigs`, one file per board | set, write, reload, delete | board pages of the staff, every build | a map without a lock, a file that is truncated before it is written |
| formatting, embeds, captcha, geoip, templates, plugins, HTTP helpers, installer, migration, browser code | - | - | - | text processing, input and output |

What makes each correct:

- *creation*: an upload on disk has an owner; a failed post leaves nothing; a cyclic thread stays
  within its limit; other posts are not touched.
- *deletion*: what was asked for goes, nothing else; a thread goes with its OP and its replies.
- *building*: a board keeps at most `MaxThreads` threads, without the uploads of the others; a
  live post keeps its upload; a deleted thread has no page; a build ends and never takes the
  server down.
- *store*: a thread has one OP, and both are deleted or neither.
- *process*: a request ends; a crash costs no more than the requests being served.

- *moving, editing*: no upload is lost; a refused edit is undone.
- *reports, bans, appeals*: a blocked post gets no report; a banned address cannot post; what is
  lifted or appealed leaves an audit row.
- *filters*: a filter in force stops the posts it matches, in one pass or the other.
- *staff*: only administrators change other accounts; a deactivated account keeps no session.
- *boards*: the list in memory is the table's; *pages*: counts make sense, every thread is on one.
- *connections*: transactions that need a second connection do not all wait for each other.
- *database*: an insert learns its own id; an update converts what it finds and loses nothing, however
  often it is cut short.

PROJECT.json lists every component with its status and 40 hazards, each at the line where
it bites, with the properties that cover it or why none does.

## 2. The modules

    BoardStore ---+--- MakePost -----+
                  +--- DeletePosts --+--- ImageBoard --- MCImageBoard (TLC)
                  +--- BuildBoard ---+     |
                                           +-- implements Forum

    Handlers --+-- StaffSessions, Reports, EditPost, ThreadUpkeep ------ MCStaffAndReports (TLC)
               +-- BansAppeals, Filters -------------------------------- MCBansAndFilters (TLC)
               +-- Boards, BoardPages, InsertIDs, DatabaseUpdate ------- MCBoardsAndUpdates (TLC)
               +-- ConnectionPool (TLC)

    InsertIDs --- implements AtomicInserts on SQLite

The theorems are in modules that extend these (TLAPS):

    ImageBoard --- ImageBoardProofs --+-- UploadsProofs
                                      +-- ForumProofs --- LimitsProofs

    MCStaffAndReports ------------ StaffAndReportsProofs
    MCBansAndFilters ------------- BansAndFiltersProofs
    ConnectionPool, BoardPages --- PagesAndConnectionsProofs --+-- BoardsAndUpdatesProofs
    MCBoardsAndUpdates ----------------------------------------+

The last four have theorems about the specification of each component; where they extend an MC
module, they also prove that what TLC explores is a behaviour of each of its components (section 5).

### The core

`BoardStore` declares the state and what the queries of the handlers return:

| variable | code |
|---|---|
| `threads`, `posts`, `files` | the rows of the three tables; `state` is `none`, `live` or `deleted` (`is_deleted`) |
| `nextThread`, `nextPost` | AUTO_INCREMENT |
| `src`, `thumb` | the files below `<board>/src` and `<board>/thumb`, by upload name |
| `pages` | the OPs with a `res/<id>.html` |
| `up` | does the process run? |
| `pc`, `req` | for each request the next step and the local variables of its handler; `list` and `names` are what a SELECT returned, so they may be stale |
| `used`, `asked`, `abandoned`, `owed` | history, for the properties and (`used`) for fresh names |

The handlers.  A step is one transaction, one query outside a transaction, or one group of file
operations that other requests cannot tell apart; a handler that is interrupted, fails or panics
stops between two of them.

- `MakePost`: `StartPost`, `SaveUpload` / `SaveUploadFails`, `PassFilter` / `RejectByFilter` /
  `FilteringFails`, `InsertReply` / `InsertThread` / `InsertPostFails`, `AttachFile` /
  `AttachFileFails` / `TakeOwnershipFails`, `CyclicCheck` / `CyclicCheckPanics`, `PrunePost`,
  `PruneFile`.  `Post.Delete` commits for a reply and is rolled back for an OP
  (`PostsAfterDelete`); a failed `TakeOwnership` cleans up and goes on.
- `DeletePosts`: `StartDelete` takes the snapshot, `RemoveFiles` / `RemoveFilesFails` handle one
  post each, `FilesRemoved`, `DeleteRows`, `MarkPostsAsDeleted`.  `RemoveFilesFails` keeps the way
  `coalesceErrors` hides one error behind another.
- `BuildBoard`: `SelectOldThreads` (outside the transaction), `DeleteOldThreads`, `CleanPost` /
  `CleanPostFails`, `PostsCleaned`, `SelectTopPosts`, `BuildThreadPages` /
  `BuildThreadPagesPanics`, `BoardBuilt`.
- `ImageBoard` composes them, adds failing queries, crashes and the startup, and states the
  properties and the fairness.

`Forum` is what readers are promised: posts appear at once, a thread together with its OP; a
locked thread gets no reply; what was deleted stays deleted, and a thread goes with its OP in one
step.  `ImageBoard!ImplementsForum` maps its two variables to the rows of `posts` and `threads`:
every action of the handlers, with pruning, clean-ups, failures, crashes and the trimming at
startup, is one step of the forum or none.  A reply to a deleted thread is a step of the forum too, as
the code accepts it.

Abstractions of the core, all of them deliberate:

- One board.  The catalog thumbnail shares the fate of the thumbnail, and the thread's JSON file that of
  its page.  `deletePosts` does remove them together; the clean-up of `buildBoard` (`boards.go:431-439`)
  removes the page and leaves the JSON file, about which no property says anything.  The removals of one
  post's files are one step.
- `last_bump` is the id of the post that bumped the thread: no two bumps at the same instant.
- An embed has no file on disk; a post with one is a post without an upload.
- `deletePosts` for one selected post; several selected posts are the same loop over a longer list.
- `EnableCyclicThreads` is on and both limits are positive (the configuration replaces a
  `MaxThreads` that is not).
- The checks before the upload change nothing: whether a post is accepted is a free choice.
- `Insert` and `AttachFile` are atomic and their ids right.  For `Insert` this is a theorem about its
  statements on SQLite (`InsertIDs!ImplementsAtomicInserts`); on MySQL and PostgreSQL it is an
  abstraction.  `BuildThreadPages` reads and writes a page in one step.
- `getNewFilename` returns fresh names unless `MayCollide`; every run sets it to FALSE.
- The loops over posts to clean and pages to build take any order; the queries have no ORDER BY.
- Failures the environment may cause are the elements of `Faults`: a failing insert, attachment,
  change of ownership, file removal or query, a crash.

### The other components

Each has a module of its own with its variables, requests with a program counter and local
variables as in the core, and a specification of its own (`StaffSpec`, `ReportsSpec`, ...).
`Handlers` declares what they share: the requests and whether queries may fail.

- `StaffSessions`: `accounts` and `sessions` are the two tables.  The login page checks the password
  (`CheckCredentials`) and inserts a session later (`CreateLoginSession`); every page authenticates the
  request first (`OpenPage`), after which the session may end or the rank change.  The staff form has three
  fields that name an account, and every combination of them may be sent (`StaffForm`); its branches are `SubmitStaffForm`, `LookUpAccount`, `InsertAccount`,
  `UpdatePassword`, `UpdateRank`, and deactivation is `SetActive`, `ClearSessions`, `ClearSessionsAgain`: the
  callback ends the sessions before and `SetActive` after it.  `CommandLine` is newstaff and delstaff
  beside the server.
- `Reports`: `HandleReport` checks each post (`CheckReport`), then inserts (`CreateReport`); staff dismiss
  all, dismiss or block one by one (`ClearReport`); `DeleteReportsOfDeletedPosts` and the clean-up page
  delete rows.
- `BansAppeals`: ranges of addresses are pairs of numbers; `CheckIPBan`, `NewIPBan`, `DeactivateBan`
  in three steps, `Appeal` in three, `ApproveAppeal`, which always fails.  `standing` remembers which bans
  have been in force since a post was submitted.
- `Filters`: a text is the set of its words, a condition one word, or that there is an upload or
  none.  `ApplyWordfilter`, `DoNonUploadFiltering`, `DoPostFiltering`, `CheckFilter` for a post; one
  transaction for a filter that is edited, three for a wordfilter.  The form of the filters takes any
  id, also a wordfilter's, and the transaction goes on when its first statement fails (`EditFilter`).
- `EditPost`: the message is stored (`UpdateContents`), filtered (`FilterEdit`), put back
  (`RestoreContents`).  It keeps text only, so the thumbnails that `HandleFilterAction` removes when it
  refuses a post with an upload are left out.
- `ThreadUpkeep`: a thread on one of several boards; `moveThread` changes the row, then moves every
  file, or the upload and not its thumbnail; `editPost` replaces an upload by `UnlinkUploads`, `RemoveOldFile`,
  `AttachReplacement`; the process may die anywhere.  `AttachReplacement` may fail whatever the tables hold, which
  includes a post that has an upload already (`uploads.go:85`).
- `Boards`: rows and configuration files, and `boardList`, `boardConfigs` for what the process keeps in
  memory.  A creation is five steps from `SetBoardConfig` to `AppendBoard`; a reset empties, refills and
  reloads.  `overlapping` and `sound` remember which requests met another one.  Left out: `AllSections`, and
  that the pages of the sections ignore a failing reset.
- `BoardPages`: a build reads count, posts and uploads of each thread in separate queries
  (`ReadReplyCount`, `ReadPosts`, `ReadUploads`), fills the pages and writes them one by one, or goes on without one it
  cannot open (`SkipPage`); the catalog and the front page are opened (and emptied) before they are written.
- `InsertIDs`: the statements of `Insert` and `CreateThread`.  What a SELECT sees is the database's rule:
  committed rows (PostgreSQL), the snapshot of the first SELECT (MySQL), one writer (SQLite).
  `AtomicInserts` is what `Insert` promises: a post appears in one step, with its thread if it begins one,
  under ids above all that are there, and the request is told its own ids (0 for the post if asking
  failed) or that nothing was inserted.  The mapping shows the rows of the transactions that committed
  and the answers they gave.
- `ConnectionPool`: who holds a connection and who waits for one, with the deadlines of
  `setupOptions`, `setupTimeoutContext` and `PrepareContextSQL`.  How database/sql hands out connections
  is external.
- `DatabaseUpdate`: the layout of a database as far as the update looks at it, the blocks of
  statements of the three drivers, the legacy filter tables, the creation of a new database; any step may
  fail or be the last one of a start.  `rebuilt` are the tables SQLite's update drops and makes again from a
  copy (`updatesqlite3.go:108-109`, `122-123`, `220-221`, `240-241`): their columns hold what they should, but they
  have no keys, defaults or types any more, and since foreign keys are on, the drop took the rows that
  referred to them (files and reports with posts, audit and appeals with bans, the audit of reports).  So
  `LayoutConverted`, which is about columns and values, and `Complete`, the layout of a new database, are two
  things.  Statements that fail for what is in the tables, as SQLite's ADD COLUMN with CURRENT_TIMESTAMP on
  sessions does when there is one, are failing statements (`StartInterrupted`).  The statements are assumed to
  get one connection, where PRAGMA foreign_keys holds.  The recover of the update functions, after which the
  update would count as done (`updatesqlite3.go:14-16`), is not modelled: no statement of them is known to panic.

Their abstractions: strings are compared and never built, so a name, a message, an address or
a configuration is a value; pages are the facts on them; the SQL transactions of these modules are
single steps, several statements outside one are several steps; time only makes bans expire.

Operators named `X_Suffix` next to `X` are variants of `X` with a plausible mistake.  Nothing
uses them; replacing `X` by the variant shows which property would notice.

## 3. The properties

| property | kind | what it says |
|---|---|---|
| `TypeOK` | invariant | types |
| `OPAndThreadAgree` | invariant | a thread is deleted exactly when its OP is; `GetBoardTopPosts` looks at the OP only and relies on it |
| `UploadsSurvive` | invariant | a live post nobody asked to delete has its upload and thumbnail on disk, whatever other requests prune, fail or clean up |
| `CyclicBound` | invariant | a cyclic thread has at most its limit of live replies, plus one for each request that has yet to prune or ended without pruning |
| `ThreadLimit` | invariant | the same for the threads of a board |
| `UploadsAccountedFor` | invariant | an upload on disk has a row, a request about to attach it, or was left by a rejected request |
| `UploadsLeftOnlyByRaces` | action property | while the process lives, an upload on disk loses its owner only when `deletePosts` deletes the row of an upload attached after it had read the names |
| `BuildingNeverKillsTheServer` | action property | only a crash from outside ends the process |
| `ImplementsForum` | refinement | readers see the board of `Forum` |
| `RequestsFinish` | liveness | every request ends |
| `SessionsEndWithTheAccount` | invariant | a deactivated account has a session only from a login that had checked the password before, or until the request that deactivated it is done |
| `OnlyAdminsChangeOthers` | action property | an account changes for administrators and its owner's password only |
| `DuplicatesOnlyByRace` | invariant | as many equal reports of a post as requests at a time, also after dismissals |
| `BlockedPostsAreNotReported` | action property | a post blocked since before a report of it was submitted gets no new row |
| `RefusedEditIsUndone` | invariant | a message the filters refuse does not stay, if edits do not overlap and none is cut short |
| `NoUploadIsLost` | invariant | the upload of every row in `files` is on disk, on one board or another |
| `LiftedBansAreAudited` | invariant | a lifted ban has its audit row, or a request is about to write it or failed to |
| `NewestAppealIsAudited` | invariant | appeals submitted together may miss audit rows, the newest does not |
| `FiltersInForceApply` | invariant | a filter that was active and untouched since a post was submitted and matches it stops it |
| `BannedCannotPost` | action property | a ban in force since before the post was submitted stops it |
| `BoardListIsWhole` | invariant | after requests that did not overlap, or a reset alone, the list has every shown board once, with its configuration |
| `CountsMakeSense` | invariant | no page has negative counts, too many replies or a thread without its OP, whatever changes between the queries |
| `UndisturbedBuildIsExact` | invariant | a build alone puts every thread on one page in order, with exact counts and links |
| `IDsAreOwn` | invariant | the id an insert goes on with is its own row's, or 0: SQLite, and posts with MySQL |
| `ImplementsAtomicInserts` | refinement | on SQLite, with one writer at a time, an insert is one step of `AtomicInserts` or none |
| `LegacyFiltersSurvive` | invariant | the server never runs before the old filters were converted |
| `UninterruptedUpdateConverts` | invariant | an update without failures leaves every column with its values converted and all bans, converts filters once and, but for SQLite, keeps the tables it found |
| `RestartsRepairTheUpdate` | invariant | after an update that was cut short any number of times, the server has every column the update adds and its posts; with PostgreSQL and SQLite no ban is lost |
| `NewDatabaseIsWhole` | invariant | a new database is served only when complete |
| `NoCircularWait`, `EveryCallReturns` | invariant, liveness | transactions never hold all connections while waiting for one more without a deadline; every call returns |
| `FailedPostIsDeleted`, `EveryThreadHasItsOP`, `NoBanIsLost` | | what the code means to do and does not; see the findings |

`CyclicBound` and `ThreadLimit` count the requests that owe a pruning (`Owes`) and the posts whose
request ended before it paid (`owed`: a failed query, a failed attachment, a crash).  A reply
whose request panics in `CyclicCheckPanics` owes nothing: the thread has no live reply then.

## 4. The runs

The runs on `MCImageBoard` have `MaxThreads = 1` and `CyclicThreadNumPosts = 1`, so the second thread and
the second reply already go over the limit.  `MCStaffAndReports`, `MCBansAndFilters` and
`MCBoardsAndUpdates` instantiate several components that share no state: a variable `focus` says in which of
them an instance takes its steps, so that TLC visits the sum of their states and not the product,
and every property of a component is checked on all of that component's states.  Deadlock is not
checked: the bounds end every behaviour, and a server without requests may be idle.

| run (.cfg) | instance | checks |
|---|---|---|
| OneRequest | one request at a time, 3 posts, 2 threads, 2 uploads, plain, cyclic, stickied and locked threads, no failures | `UploadsAccountedFor`, `BuildingNeverKillsTheServer`, `ImplementsForum` |
| CyclicThread | 2 requests, one cyclic thread, 3 posts, 1 upload | `TypeOK`, `CyclicBound`, `UploadsSurvive`, `UploadsLeftOnlyByRaces` |
| TwoThreads | 2 requests, 2 posts, 2 threads, 1 upload, failing inserts, attachments, removals and queries, crashes and restarts | `ThreadLimit`, `UploadsSurvive`, `ImplementsForum` |
| RequestsFinish | 2 requests, a cyclic thread, 2 posts, failing ownership, `FairSpec` | `OPAndThreadAgree`, `RequestsFinish` |
| StaffAndReports | 2 requests with failing queries; 2 accounts and 2 session keys; one reported post, 3 reports; 2 texts; 2 boards, one post with an upload, 2 new uploads | types, `SessionsEndWithTheAccount`, `OnlyAdminsChangeOthers`, `DuplicatesOnlyByRace`, `BlockedPostsAreNotReported`, `RefusedEditIsUndone`, `NoUploadIsLost` |
| BansAndFilters | 2 requests with failing queries; 1 address, 1 board, 2 bans, 2 appeals; 2 words, 2 filters, 3 forms, all for the board, one post being filtered at a time | types, `LiftedBansAreAudited`, `NewestAppealIsAudited`, `BannedCannotPost`, `FiltersInForceApply` |
| BoardsAndUpdates | 2 requests with failing queries; 1 board created twice; 3 threads, 2 on a page, with up to 2 replies, 1 change during the builds; 3 databases; all old layouts, 2 bans, 2 legacy tables, 3 starts | types, `BoardListIsWhole`, `CountsMakeSense`, `UndisturbedBuildIsExact`, `IDsAreOwn`, `LegacyFiltersSurvive`, `UninterruptedUpdateConverts`, `RestartsRepairTheUpdate`, `NewDatabaseIsWhole`, `ImplementsAtomicInserts` |
| Connections | 3 requests, 2 connections | `PoolTypeOK`, `NoCircularWait`, `EveryCallReturns` |
| FailedPost | 1 request, attachment fails | `FailedPostIsDeleted`: violated |
| StaleTopPosts | 2 requests | `BuildingNeverKillsTheServer`: violated |
| TwoFirstPosts | 2 requests, MySQL | `EveryThreadHasItsOP`: violated |
| InterruptedUpdate | MySQL, 2 bans | `NoBanIsLost`: violated |

Why the bounds are enough.  Every hazard the properties are about involves two requests at most
(the one that acts on a stale snapshot and the one that made it stale), one thread that is over
the limit and one that is not, and one upload that could be taken for another's.  Three posts are
an OP and the two replies that make a cyclic thread overflow; two threads make a board overflow.
A request that ends may be followed by others for as long as there is room, deletions are not
bounded, and `RoomForPost` and `RoomForThread` let a post start only when its insert will have room,
so no request gets stuck on a bound.  In the other modules: two bans, appeals, filters, bans to convert
and legacy tables are the one that is handled and the one that is overlooked; three reports are two
equal ones and one after a dismissal; three threads with two on a page are a full page and a remainder;
three starts are one that is cut short, one that meets what it left and one that should repair it; three
requests on two connections are two that hold them and one that waits.  Requests repeat without a
bound except where a table of the instance is full.  The symmetry of requests and names is used in
runs without liveness only.

What the passing runs do not claim.  `UploadsAccountedFor` and `BuildingNeverKillsTheServer` are
checked with one request at a time.  With two the first fails too: `deletePosts` deletes the rows
of `files` by post id (`deleteposts.go:382`), also a row attached after it read the names, whose
upload then stays; `UploadsLeftOnlyByRaces` says that with any number of requests this is the only way,
short of a crash.  With failing removals it fails because one error hides another
(`deleteposts.go:106`).  `UploadsSurvive` is checked without failing changes of ownership: an OP whose
upload was attached and then removed by that clean-up stays live with its row, because of the
rollback of *FailedPost* below.  It is checked with fresh names: two posts that share a name share
the file.  `BoardListIsWhole` and `RefusedEditIsUndone` say nothing of requests that overlap, and
`NewestAppealIsAudited` nothing of the older of two: there the code has no answer.  `IDsAreOwn`
excepts PostgreSQL and new threads on MySQL, which *TwoFirstPosts* is about; `ImplementsAtomicInserts` is about SQLite only for
the same reason.  `NoUploadIsLost` does
not say on which board the upload is: after a move that stopped half way it is on the wrong one.
`UninterruptedUpdateConverts` says of SQLite's tables only what is in them (`UpdateKeepsKeys` fails), and
`RestartsRepairTheUpdate` nothing of the bans of MySQL, which *InterruptedUpdate* is about, nor of the addresses
of posts and the table of reports (`ReportsTableStays` fails).  The filters of *BansAndFilters* are all for the
board of the posts; that filters of other boards change nothing is left to the theorem.

### Where code and comments disagree

With a run:

1. *FailedPost*: `Post.Delete` of an OP returns before its commit (`posts.go:391`), so a thread
   whose upload could not be attached stays on the board.
2. *StaleTopPosts*: a thread deleted between two queries of a build makes `posts[0]` panic where
   nothing recovers (`building/threads.go:94`); the process ends.
3. *TwoFirstPosts*: `CreateThread` takes `MAX(id)` for its own; on MySQL another new thread's first post
   can end up with this one, and a thread stays without posts (`threads.go:38`).
4. *InterruptedUpdate*: the update drops the column of the addresses after the first ban
   (`updatemysql.go:97`); what an interrupted update leaves is never converted.

Stated in a module, without a run of their own:
`PrunedThreadsLeaveNoFiles`, `NoLiveReplyInDeletedThread`, `DeletedThreadHasNoPage` (ImageBoard),
`DeletedBoardsAreNotListed` (Boards), `CatalogNumbersPages` (BoardPages), `DeactivatedStaffHasNoSession`
(StaffSessions), `BlockIsNotLifted` (Reports), `ApprovalLiftsTheBan` (BansAppeals),
`WordfiltersHaveNoHits` (Filters), `UpdateKeepsKeys`, `ReportsTableStays` (DatabaseUpdate).  To see one, put it in place of the properties of the .cfg that covers
the module.  The other findings of PROJECT.json were met while reading and are in the actions, without
a property of their own.

### Fairness

`FairSpec` is weak fairness of each request that is being served.  net/http serves a request in a
goroutine of its own; no step of a handler waits for another request (no lock is shared, a
transaction is a single step), so a request that has started always can take its next step and
the Go scheduler lets it.  Starting a request is not fair: visitors come when they like.  Nor is
the startup: the service files of the repository (`examples/configs`) do not restart the server.

`PoolFairness` is weak fairness of everything a request does with the connections it has (the
database answers or the deadline fires) and strong fairness of taking one: database/sql puts requests
that wait in a queue and hands a connection that is put back to one of them, so none is passed over forever,
though a free connection may be taken by a newcomer many times.  The other modules are checked for
safety only.

## 5. The proofs

The theorems hold for every number of requests, rows and files and for all values of the other
constants, under the named assumptions of the modules; TLC evaluates those on the instances.  Each
proof has the same shape: an inductive invariant whose last conjuncts are the property and what it
needs, one lemma per action, and a temporal step that puts them together.  Lemmas that say what a
step of one request leaves to the others keep the lemmas about actions short.

| module | proves | inductive invariant |
|---|---|---|
| `ImageBoardProofs` | `TypeOK`, `OPAndThreadAgree` | `IInv` |
| `UploadsProofs` | `UploadsSurvive` | `IInv /\ UploadInv` |
| | `UploadsLeftOnlyByRaces` | `IInv /\ OwnersInv` |
| | `BuildingNeverKillsTheServer` | `IInv /\ AloneInv` |
| | `UploadsAccountedFor` | `IInv /\ OwnersInv /\ AloneInv` and itself |
| `ForumProofs` | `ImplementsForum` | `IInv /\ ForumInv` |
| `LimitsProofs` | `ThreadLimit`, `CyclicBound` | `IInv /\ ForumInv /\ LimitInv` |
| `StaffAndReportsProofs` | `StaffTypeOK`, `SessionsEndWithTheAccount`, `OnlyAdminsChangeOthers` | `StaffInv` |
| | `ReportsTypeOK`, `BlockedPostsAreNotReported`, `DuplicatesOnlyByRace` | `ReportsInv` |
| | `EditTypeOK`, `RefusedEditIsUndone` | `EditInv` |
| | `UpkeepTypeOK`, `NoUploadIsLost` | `UpkeepInv` |
| | `TypesOK` of the instance | the four specifications |
| `BansAndFiltersProofs` | `BansTypeOK`, `BannedCannotPost`, `LiftedBansAreAudited`, `NewestAppealIsAudited` | `BansInv` |
| | `FiltersTypeOK`, `FiltersInForceApply` | `FiltersInv` |
| | `TypesOK` of the instance | the two specifications |
| `PagesAndConnectionsProofs` | `PoolTypeOK`, `NoCircularWait` | `PoolInv` |
| | `PagesTypeOK`, `CountsMakeSense` | `PagesInv` |
| | `UndisturbedBuildIsExact` | `PagesInv /\ ExactInv` |
| `BoardsAndUpdatesProofs` | `UpdateTypeOK`, `LegacyFiltersSurvive`, `NewDatabaseIsWhole`, `UninterruptedUpdateConverts`, `RestartsRepairTheUpdate` | `UpdateInv` |
| | `IDsAreOwn` | `InsertInv` |
| | `InsertTypeOK` | `InsertCounts` |
| | `ImplementsAtomicInserts` | `OneWriterInv` |
| | `BoardListIsWhole` | `BoardsInv` |
| | `BoardsTypeOK` | `BoardsInv /\ BoardCounts` |
| | `TypesOK` of the instance | the four specifications |

Five theorems of properties have a hypothesis on the constants, each the one of its run or weaker, and section 4 says
what happens without:

- `UploadsSurvive`: fresh names (`MayCollide = FALSE`) and no failing change of ownership; neither is
  certain in the code.
- `UploadsLeftOnlyByRaces`: fresh names and no failing removal of files.  Inserts, attachments, queries,
  changes of ownership may fail and the process may crash.
- `UploadsAccountedFor`: one request at a time (all elements of `Requests` are equal), no failing
  removal, no crash.  Names need not be fresh.
- `BuildingNeverKillsTheServer`: one request at a time; everything may fail.
- `NoCircularWait`: `DefaultTimeout = TRUE`, the default of the configuration.

`ImplementsAtomicInserts` says itself that it is about SQLite; `SQLiteImplementsAtomicInserts` is the plain
refinement for a server with that database.

### The core

*Threads and their OPs.*  Neither `TypeOK` nor `OPAndThreadAgree` is inductive.  `IInv` has three parts:

- `TypeInv`: `TypeOK`, and a request that will filter or attach an upload has one (else `files` or
  `abandoned` could receive the empty name).
- `RowsInv`: only ids below the counters have rows; an OP has a thread with a row; two OPs have
  different threads; `OPAndThreadAgree`.  The first three are what makes the last one survive an
  insert (the new row is the only one in its thread) and a deletion (marking the posts of a set of
  threads, and the threads of the OPs among them, marks an OP exactly with its thread).
- `ControlInv`: the posts and threads in the local variables of a request have rows, and what a
  cyclic thread prunes are replies.  Without it `PrunePost`, which looks nothing up again, could
  mark an OP and leave its thread.

*Uploads.*  A handler removes files under names it read long ago.  `UploadInv` makes a name the property of
one post for good: every name in a table or in memory has been returned (`NamesAreUsed`), one in a
row is in no other row, nor is it remembered for another post (`NamesHaveOnePost`), one that is not
in a row yet is known to its request only (`PendingIsKnownToOne`), and what a request is about to
remove belongs to posts that are deleted or that somebody asked to delete (`RemovesForGood`).

*Owners.*  An upload is removed from the disk before its row.  `OwnersInv` says that deletePosts has removed
what it read (`NamesRemoved`) by the time it deletes rows, so a row whose upload is still there was
attached in between; and that a request attaches to its own post, which has no upload yet
(`AttachesOnce`), so no row is overwritten.  `KeepsOwners` then goes through the actions: each one that takes
an owner away removes the file or gives it another owner, but for that race.

*One request alone.*  `AloneInv` says that what the request read still holds when it uses it: the names
deletePosts read are those of the rows, so the race cannot happen, and the OPs listed for a build are
live, so by `OPAndThreadAgree` their posts are found and `posts[0]` does not panic.  Each action of
the others would break it; that there is none is the hypothesis.

*The forum.*  The forum adds a post only where there was none, and a reply only to a
thread that was there.  The handlers insert at the counters and name threads they looked up earlier,
so `ForumInv` says that ids below the counters have rows for good, that those threads have a row, and
that a thread with a row has an OP, which is what removes it.  Then `ForumStep` is shown
action by action: inserts map to a new thread or a reply, deletions, pruning and the startup to a
removal, all others to a stutter.

*Limits.*  A request selects what is over the limit, and deletes it later, when others have inserted
and deleted.  So `LimitInv` does not count what is there now but what is left whatever set of
requests does what it has selected (`BoardLimit`, `ReplyLimit`, quantified over subsets); each new post
adds one to what is counted and one to the debts (`LimitGrows`), each deletion takes from the first
only (`LimitShrinks`), and a request that pays its debt leaves what the limit allows
(`LimitHolds`).  The last one needs that `ORDER BY last_bump DESC LIMIT n` leaves at most `n` rows
(`FirstByKey`), for a key no two rows share: `BumpsDiffer`.

### The other components

- *Staff.*  `StaffInv` adds what a request knows at each step (`StaffKnows`) and why it may change an
  account (`MayChange`): it was authenticated as an administrator, or the account is its own.  The
  action property follows from the latter.
- *Reports.*  `StillAreBlocked`: nothing unblocks a post for the requests that remember it as blocked,
  since a dismissal makes them forget.  `RoomForCopies`: equal reports and the requests about to add one are
  together at most as many as there are requests; a request gets there only when there is no report.
- *Edits.*  As long as no edits overlapped and none was cut short, at most one request is at work, and
  the message is the one it stored (`OneEdit`).
- *Moves and replacements.*  An upload is received, in a row, or being removed, and known to nobody else in
  the first and the last case: `RowsAreApart`, `OldIsOwn`, `NewIsThere`, `NewIsOwn`.  Where it is on disk
  does not matter to the argument, so moves only have to keep every file somewhere.
- *Bans.*  A ban that stands since a post was submitted is in force (`StandingInForce`), so the check
  finds a ban, or no standing ban covers the post (`PassedCheck`).  The
  audits follow from `LiftedBansAreAudited` itself and `NewestIsOnItsWay`.
- *Filters.*  `PassOK` relates each filter that has been in force to what is left to check in
  either pass; the first leaves out the filters with upload conditions, and for the others it makes
  no difference whether there is an upload (`UploadDoesNotMatter`).
- *Connections.*  The transactions stuck without a deadline are fewer than the connections, because
  the one that would be the last still holds the connection on which its query was prepared.
- *Pages.*  `PagesInv` says that whatever a build holds makes sense already: an entry
  has its OP, no more replies than configured, and omits a number that is not negative
  (`EntryMakesSense`, with `LastRepliesBound` for the replies that are shown).  `OrderExists` shows that the threads of a board can be put
  in order, by a minimal counterexample; that is what needs `FinitePagesAssumption`.
- *Exact pages.*  `ExactInv` says of a build nobody disturbed that its entries are the
  threads of the board in order, each with its exact counts (`ExactSoFar`), step by step.  Places on
  pages do not overlap (`OnePlace`).  It also needs that every upload belongs to a post
  (`ImagesHavePosts`).
- *The update.*  `MigratedInv` says which tables of old filters have been converted at least once, whatever was cut short;
  `VersionInv` that the version is written last.  `UndisturbedInv` follows an update nothing interrupts
  through its blocks: those done are converted, those ahead as found, the one at work between two of
  its statements.  `RepairInv`
  holds of every start, cut short or not: what a block of columns or, but for MySQL, of bans has left behind was
  `Repaired` when a later block is at work, because a block whose condition does not hold has nothing to do.
- *Inserts.*  On SQLite nobody writes after a request until it has committed (`LastWriter`), so `MAX(id)` is
  its own row.  On MySQL the snapshot is older than the request's row (`OldSnapshot`), so its row is the
  largest id it sees.
- *Counters.*  `InsertCounts` and `BoardCounts` bound a counter together with the requests that will
  still raise it: ids by one for each request, entries of a board by one for each form that creates
  boards and one for the last reset.
- *One writer.*  `OneWriterInv` adds that no two requests insert the same row (`RowsAreTheirs`), that none is
  the first (`RowsAreNew`), and that a post is in the thread it was meant for (`ThreadsAreTheirs`).  A commit
  is an insert of `AtomicInserts` (`CommitIsAtomic`), because the row is above all that committed before; a rollback
  is a refusal (`RollbackIsRefused`); nobody sees the other statements (`HiddenStep`).
- *Boards.*  `AloneInv` says what it means that requests did not overlap, `ResetInv` what a reset that is alone has read,
  and `SoundInv` that the only request at work leaves all boards whole but its own.

### The instances

`MCStaffAndReports`, `MCBansAndFilters` and `MCBoardsAndUpdates` let one component at a time take steps.
`ComponentsOfStaffAndReports`, `ComponentsOfBansAndFilters` and `ComponentsOfBoardsAndUpdates` prove that their `Spec`
implies the specification of each component: a step of one leaves the variables of the others alone.
So what is proved of a component holds of the instance, and `TypesOK` of each instance follows from
the type invariants of its parts.

### What stays with TLC

- `RequestsFinish` and `EveryCallReturns`: liveness under fairness needs ENABLED, which the prover does
  not support.
- The four violations of section 4: a counterexample is found, not proved.

## 6. Not modelled

- Installer, templates, HTTP helpers, browser code, formatting, embeds, captcha, geoip, plugins,
  utilities: pure input and output or text processing; where their outcome matters (a post is accepted,
  an event handler fails) it is a free choice of an action.
- The temporary upload cleaner is dead code: nothing adds to the list it empties.
- Migration from other engines: a sequential tool run by hand while the server is stopped.
- Staff pages of one query or one page each: thread attributes, IP search, post information,
  fingerprints, template overrides, announcements, the log view, rebuild commands.
- Parsing of addresses, durations and configuration values; regular expressions of filters; sizes and
  types of uploads.
- The cooldown, which two posts sent together both pass: it reads the clock and the last post and accepts or refuses; nothing in the code
  depends on it afterwards.
- What two writers of one page leave in it.
- `OPTIMIZE TABLE` and the rewriting of SQL for the drivers.

What could follow: the same of `AttachFile`, whose transaction is a single step in the core; several
boards in the core, so that a move of a thread meets its pruning and its deletion.
