---------------------------- MODULE ConnectionPool ----------------------------
(***************************************************************************)
(* pkg/gcsql: how the helpers for queries and transactions share the        *)
(* connections of database/sql.  A transaction holds one connection to its  *)
(* end, and some functions ask the pool for another one meanwhile.  Waiting *)
(* ends with the deadline of the context, when it has one.                  *)
(***************************************************************************)
EXTENDS Handlers

CONSTANTS
    MaxConns,           \* DBMaxOpenConnections
    DefaultTimeout      \* DBTimeoutSeconds > 0

ASSUME PoolAssumption == MaxConns \in Nat \ {0} /\ DefaultTimeout \in BOOLEAN

\* What requests do: a query with a background context or with the default timeout; and a query
\* of the pool inside a transaction, by AddAttachment, Insert of a new thread, DeleteOldThreads.
Calls == {"query", "timeoutQuery", "attach", "insert", "trim"}
Transactions == {"attach", "insert", "trim"}

VARIABLES
    poolPc,     \* poolPc[r]: the next step of request r
    call        \* call[r]: what request r does

poolVars == <<poolPc, call>>

Waiting == {"begin", "prepare", "run"}
PoolSteps == {"idle", "preparing", "running", "statements"} \cup Waiting

PoolInit == poolPc = [r \in Requests |-> "idle"] /\ call = [r \in Requests |-> "query"]

-----------------------------------------------------------------------------
PoolGoto(r, step) == poolPc' = [poolPc EXCEPT ![r] = step] /\ UNCHANGED call

InTransaction == {r \in Requests : call[r] \in Transactions /\ poolPc[r] \notin {"idle", "begin"}}
InQuery == {r \in Requests : poolPc[r] \in {"preparing", "running"}}
InUse == Cardinality(InTransaction) + Cardinality(InQuery)
Free == InUse < MaxConns

\* PrepareContextSQL sets the default timeout where the context has none ...
PrepareHasDeadline_Never(c) == FALSE
PrepareHasDeadline(c) == DefaultTimeout \/ c = "trim"

\* ... only for the preparation: the statement then runs with the context of the caller.
RunHasDeadline(c) == c = "trim" \/ (DefaultTimeout /\ c \in {"timeoutQuery", "insert"})

HasDeadline(r) ==
    IF poolPc[r] = "prepare" THEN PrepareHasDeadline(call[r]) ELSE RunHasDeadline(call[r])

\* setupOptions, setupOptionsWithTimeout and the deprecated variants differ in the context alone.
StartCall(r) ==
    /\ poolPc[r] = "idle"
    /\ \E c \in Calls :
          /\ call' = [call EXCEPT ![r] = c]
          /\ poolPc' = [poolPc EXCEPT ![r] = IF c \in Transactions THEN "begin" ELSE "prepare"]

\* BeginTx, BeginContextTx
BeginTx(r) ==
    /\ poolPc[r] = "begin" /\ Free
    /\ PoolGoto(r, "prepare")

\* PrepareContext without a transaction takes a connection and puts it back.
Prepare_WithoutConnection(r) ==
    /\ poolPc[r] = "prepare"
    /\ PoolGoto(r, "preparing")
Prepare(r) ==
    /\ poolPc[r] = "prepare" /\ Free
    /\ PoolGoto(r, "preparing")

Prepared(r) ==
    /\ poolPc[r] = "preparing"
    /\ PoolGoto(r, "run")

\* Stmt.ExecContext, Stmt.QueryContext take one again.
Run(r) ==
    /\ poolPc[r] = "run" /\ Free
    /\ PoolGoto(r, "running")

\* The rows were read.  A transaction goes on with statements on its own connection.
Ran(r) ==
    /\ poolPc[r] = "running"
    /\ PoolGoto(r, IF call[r] \in Transactions THEN "statements" ELSE "idle")

Commit(r) ==
    /\ poolPc[r] = "statements"
    /\ PoolGoto(r, "idle")

\* No connection came in time: the error is returned, the deferred Rollback ends the transaction.
DeadlineExceeded(r) ==
    /\ poolPc[r] \in Waiting /\ ~Free
    /\ HasDeadline(r)
    /\ PoolGoto(r, "idle")

\* A query fails.
QueryError(r) ==
    /\ MayFail
    /\ poolPc[r] \in {"preparing", "running", "statements"}
    /\ PoolGoto(r, "idle")

TakeConnection(r) == BeginTx(r) \/ Prepare(r) \/ Run(r)
FinishStep(r) == Prepared(r) \/ Ran(r) \/ Commit(r) \/ DeadlineExceeded(r) \/ QueryError(r)

PoolNext == \E r \in Requests : StartCall(r) \/ TakeConnection(r) \/ FinishStep(r)

\* The database answers and timers fire.  database/sql gives a connection that is put back to
\* one of the waiting requests, none is passed over forever.
PoolFairness == \A r \in Requests : WF_poolVars(FinishStep(r)) /\ SF_poolVars(TakeConnection(r))

PoolSpec == PoolInit /\ [][PoolNext]_poolVars /\ PoolFairness

-----------------------------------------------------------------------------
PoolTypeOK ==
    /\ poolPc \in [Requests -> PoolSteps] /\ call \in [Requests -> Calls]
    /\ InUse <= MaxConns

\* The connections are never all held by transactions that wait without a deadline for one more:
\* the one that began last has not yet prepared its query, and preparing has a deadline.
NoCircularWait ==
    Cardinality({r \in InTransaction : poolPc[r] \in Waiting /\ ~HasDeadline(r)}) < MaxConns

\* Every query and every transaction ends, also when transactions that hold all connections
\* ask for more.
EveryCallReturns == \A r \in Requests : poolPc[r] # "idle" ~> poolPc[r] = "idle"
===============================================================================
