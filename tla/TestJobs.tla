------------------------------ MODULE TestJobs -------------------------------
(***************************************************************************)
(* The scan log as the backend serves it, over the pool of ConnPool:       *)
(*                                                                         *)
(*  - the connection test: a request (POST /customers/test-connection)     *)
(*    starts a task and returns; the task counts the customer's scan-log   *)
(*    rows, sends a mail through the gateway, and polls the count.  The    *)
(*    task has the repository of the request, and with it the handle of a  *)
(*    connection that goes back to the pool when the request ends;         *)
(*  - the log pages (GET /logs): a client walks the pages of one customer  *)
(*    while rows arrive.  A page is two statements on one connection, each *)
(*    with a snapshot of its own.                                          *)
(*                                                                         *)
(* One customer.  A row's number is its created_at, the start of its       *)
(* insert; rows become visible in any order.  Nothing deletes a row.       *)
(***************************************************************************)
EXTENDS ConnPool, Integers

CONSTANTS
    Tests,     \* the requests whose handler starts a connection test
    History,   \* rows of the customer's scan log at the start
    MaxRows,   \* bound: its rows
    PageSize   \* rows on a page

ASSUME TestAssumption ==
    /\ Tests \subseteq {r \in Requests : ShapeOf[r] = "scoped"}
    /\ History \in Nat /\ MaxRows \in Nat /\ PageSize \in Nat \ {0}

VARIABLES
    task,     \* task[r]: the step of r's background task
    before,   \* before[r]: what its first count returned
    entry,    \* entry[r]: the status parked in _test_jobs, or "gone"
    old,      \* the tests that started more than the TTL ago
    mishap,   \* history: the tests that the gateway, a statement or the deadline failed
    begun,    \* rows whose insert has started
    visible,  \* rows whose insert has committed
    walk      \* the client walking the log's pages: the page it is at, the
              \* total it was told, the rows of its start it has not seen,
              \* and the rows that came between its last two statements

logVars == <<begun, visible>>
jobVars == <<task, before, entry, old, mishap>>
poolVars == <<pc, holds, idle>>
allVars == <<poolVars, jobVars, logVars, walk>>

NoWalk == [at |-> "idle", page |-> 0, total |-> 0, missing |-> {}, late |-> 0]

TestInit ==
    /\ Init
    /\ task = [r \in Tests |-> "none"] /\ before = [r \in Tests |-> 0]
    /\ entry = [r \in Tests |-> "gone"] /\ old = {} /\ mishap = {}
    /\ begun = History /\ visible = 1..History /\ walk = NoWalk
-----------------------------------------------------------------------------
Settled == {"success", "failed"}

CountForCustomer == Cardinality(visible)

\* The repository's handle: asyncpg detaches it when the request returns its
\* connection, and every statement on it raises from then on.
Attached(r) == holds[r] # {}

\* _prune_test_jobs.
Pruned == [r \in Tests |-> IF r \in old THEN "gone" ELSE entry[r]]

\* The handler registers the test and creates its task.
StartTest(r) ==
    /\ pc[r] = "one" /\ task[r] = "none"
    /\ task' = [task EXCEPT ![r] = "count"]
    /\ entry' = [Pruned EXCEPT ![r] = "pending"]
    /\ UNCHANGED <<before, old, mishap, poolVars, logVars, walk>>

\* The task ends, its locals with it; its result is parked if the entry is still
\* there.
SettleMutant(r, result) ==
    /\ task' = [task EXCEPT ![r] = "end"]
    /\ before' = [before EXCEPT ![r] = 0]
    /\ entry' = [entry EXCEPT ![r] = result]
Settle(r, result) ==
    /\ task' = [task EXCEPT ![r] = "end"]
    /\ before' = [before EXCEPT ![r] = 0]
    /\ entry' = [entry EXCEPT ![r] = IF @ = "gone" THEN @ ELSE result]

\* The test fails for a reason outside of it.
Fails(r) == Settle(r, "failed") /\ mishap' = mishap \cup {r}

\* The first count; on a detached handle, or when the query fails, the test
\* ends in "Internal error".
CountBeforeMutant(r) ==
    /\ task[r] = "count"
    /\ IF Attached(r)
         THEN task' = [task EXCEPT ![r] = "send"]
              /\ before' = [before EXCEPT ![r] = CountForCustomer]
         ELSE task' = [task EXCEPT ![r] = "end"] /\ UNCHANGED before
    /\ UNCHANGED <<entry, old, mishap, poolVars, logVars, walk>>
CountBefore(r) ==
    /\ task[r] = "count"
    /\ \/ /\ Attached(r)
          /\ before' = [before EXCEPT ![r] = CountForCustomer]
          /\ task' = [task EXCEPT ![r] = "send"]
          /\ UNCHANGED <<entry, mishap>>
       \/ ~Attached(r) /\ Settle(r, "failed") /\ UNCHANGED mishap
       \/ Fails(r)
    /\ UNCHANGED <<old, poolVars, logVars, walk>>

\* A row is inserted in one piece.
NewRow ==
    /\ begun < MaxRows /\ begun' = begun + 1
    /\ visible' = visible \cup {begun'}

\* smtplib's conversation in a worker thread.  The gateway logs the mail before
\* it answers 250, unless its own attempts to log fail.
SendTestEmail(r) ==
    /\ task[r] = "send"
    /\ \/ /\ task' = [task EXCEPT ![r] = "poll"]
          /\ NewRow \/ UNCHANGED logVars
          /\ UNCHANGED <<before, entry, mishap>>
       \/ Fails(r) /\ UNCHANGED logVars
    /\ UNCHANGED <<old, poolVars, walk>>

\* One round of the poll, once a second: it ends the test with success when the
\* count has grown, and with an internal error when the statement raises.
Poll(r) ==
    /\ task[r] = "poll"
    /\ \/ Attached(r) /\ CountForCustomer > before[r] /\ Settle(r, "success")
       \/ ~Attached(r) /\ Settle(r, "failed")
    /\ UNCHANGED <<old, mishap, poolVars, logVars, walk>>

\* Ten seconds without a new row, or a poll that fails.
Deadline(r) ==
    /\ task[r] = "poll" /\ Fails(r)
    /\ UNCHANGED <<old, poolVars, logVars, walk>>

\* Five minutes pass since the test began.
Age(r) ==
    /\ entry[r] # "gone" /\ r \notin old
    /\ old' = old \cup {r}
    /\ UNCHANGED <<task, before, entry, mishap, poolVars, logVars, walk>>

\* GET /customers/test-connection/{id}: prunes, then reads the entry.
Status ==
    /\ Pruned # entry /\ entry' = Pruned
    /\ UNCHANGED <<task, before, old, mishap, poolVars, logVars, walk>>

TaskStep(r) == CountBefore(r) \/ SendTestEmail(r) \/ Poll(r) \/ Deadline(r)
-----------------------------------------------------------------------------
\* The gateway logs another message of the customer: an insert starts ...
LogBegins ==
    /\ begun < MaxRows /\ begun' = begun + 1
    /\ UNCHANGED <<visible, poolVars, jobVars, walk>>

\* ... and commits.
LogCommits ==
    /\ \E i \in (1..begun) \ visible : visible' = visible \cup {i}
    /\ UNCHANGED <<begun, poolVars, jobVars, walk>>

\* ORDER BY created_at DESC LIMIT PageSize OFFSET (page - 1) * PageSize.
NewerThan(i) == Cardinality({j \in visible : j > i})
RowsOfPageMutant(p) ==
    {i \in visible : NewerThan(i) \in p * PageSize .. (p + 1) * PageSize - 1}
RowsOfPage(p) ==
    {i \in visible : NewerThan(i) \in (p - 1) * PageSize .. p * PageSize - 1}

\* The client opens page 1, or the next one: search counts, ...
CountRows ==
    /\ \/ walk.at = "idle"
       \/ walk.at = "shown" /\ walk.page * PageSize < walk.total
    /\ walk' = [walk EXCEPT !.at = "counted", !.page = @ + 1, !.late = 0,
                            !.total = CountForCustomer,
                            !.missing = IF walk.at = "idle" THEN visible ELSE @]
    /\ UNCHANGED <<poolVars, jobVars, logVars>>

\* ... and then selects the page.
FetchRows ==
    /\ walk.at = "counted"
    /\ walk' = [walk EXCEPT !.at = "shown", !.late = CountForCustomer - walk.total,
                            !.missing = @ \ RowsOfPage(walk.page)]
    /\ UNCHANGED <<poolVars, jobVars, logVars>>

\* A request of the other parts of the API moves on.
PoolStep ==
    /\ Next
    /\ UNCHANGED <<jobVars, logVars, walk>>

TestNext ==
    \/ PoolStep
    \/ \E r \in Tests : StartTest(r) \/ TaskStep(r) \/ Age(r)
    \/ Status
    \/ LogBegins \/ LogCommits
    \/ CountRows \/ FetchRows

TestSpec == TestInit /\ [][TestNext]_allVars

\* The event loop runs requests and tasks; statements, the gateway's
\* conversation (with its timeouts) and the deadline end.
FairTestSpec ==
    /\ TestSpec
    /\ \A r \in Requests : WF_allVars(Step(r) /\ UNCHANGED <<jobVars, logVars, walk>>)
    /\ \A r \in Tests : WF_allVars(TaskStep(r))
-----------------------------------------------------------------------------
\* The outcome that the client polls for is the gateway's: a test whose mail
\* reached the scan log in time is not told that it failed, whether or not the
\* request that started it has been answered by then.
FailureIsDeserved == \A r \in Tests : entry[r] = "failed" => r \in mishap

\* A test that has been started ends with a verdict parked or its entry
\* expired: no client polls a pending entry for good.
EveryTestSettles == []<>(\A r \in Tests : entry[r] # "pending")

\* A result once parked stays until it expires, and an expired test is not
\* heard of again.
ResultsStay == [][\A r \in Tests :
    /\ entry[r] \in Settled => entry'[r] \in {entry[r], "gone"}
    /\ entry[r] = "gone" /\ task[r] # "none" => entry'[r] = "gone"]_allVars

\* A client that pages to the end has seen every row that was visible when it
\* began, but for as many as became visible between its last count and its last
\* page: rows that arrive push older ones down, never past the walk.
WalkMisses == walk.at = "shown" /\ walk.page * PageSize >= walk.total
    => Cardinality(walk.missing) <= walk.late
=============================================================================
