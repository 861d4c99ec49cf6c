----------------------------- MODULE AsyncJobs -----------------------------
(***************************************************************************)
(* Asynchronous request processing: the job manager of                     *)
(* internal/async/manager.go together with the dispatcher of               *)
(* internal/service/runtime/runtime.go that feeds it.                      *)
(*                                                                         *)
(* A request with "Prefer: respond-async" takes a queue slot, writes a job *)
(* record, registers the job in memory and answers 202; a worker goroutine *)
(* runs the handler and persists the result; monitor requests read the     *)
(* record and may cancel the job.  Memory (jobs, worker goroutines, queue) *)
(* is lost in a crash, the record table is not.  Memory and table are      *)
(* written in separate steps, and each write to the table may fail.        *)
(***************************************************************************)
EXTENDS Integers, FiniteSets

CONSTANTS
  JobIds,         \* identifiers of the jobs that may be requested
  RuntimeJobs,    \* those dispatched by the HTTP runtime; the others are
                  \* started through Service.AsyncManager().StartJob
  Clients,        \* concurrent monitor requests
  MaxQueueSize,   \* AsyncConfig.MaxQueueSize, 0 disables the limit
  TTL,            \* retention, in ticks; 0 disables cleanup
  DbMayFail,      \* whether a write to the job table may fail
  MaxCrashes      \* bound on the number of process crashes

ASSUME AsyncAssumption ==
  /\ RuntimeJobs \subseteq JobIds
  /\ IsFiniteSet(JobIds)
  /\ MaxQueueSize \in Nat
  /\ TTL \in Nat
  /\ DbMayFail \in BOOLEAN
  /\ MaxCrashes \in Nat

VARIABLES
  caller,     \* the goroutine of tryHandleAsync / StartJob, per job
  worker,     \* the goroutine of Manager.run, per job
  outcome,    \* what the handler returned
  final,      \* the terminal status run() chose
  canceled,   \* whether the job's context was cancelled
  jobs,       \* keys of Manager.jobs
  memStatus,  \* Job.Status
  queue,      \* number of tokens in Runtime.asyncQueue
  recStatus,  \* JobRecord.Status, "none" when there is no row
  recResult,  \* JobRecord.Response*/ErrorText: the outcome stored with it
  recAge,     \* ticks since JobRecord.CompletedAt, saturating past TTL
  recURL,     \* whether JobRecord.MonitorURL was saved
  closed,     \* Manager.Close has been called
  client,     \* step of each monitor request
  target,     \* job each monitor request is about
  snapshot,   \* the jobSnapshot it loaded
  told,       \* history: final results monitors reported, per job
  crashes     \* number of crashes so far

workerVars == <<worker, outcome, final, canceled, jobs, memStatus>>
recVars    == <<recStatus, recResult, recAge, recURL>>
clientVars == <<client, target, snapshot, told>>
vars == <<caller, workerVars, queue, recVars, closed, clientVars, crashes>>

Terminal == {"completed", "failed", "canceled"}
Status   == {"pending", "running"} \cup Terminal
Outcomes == {"ok", "error", "ctxError"}

(***************************************************************************)
(* Init: a manager that has just been constructed over an empty table.     *)
(***************************************************************************)
Init ==
  /\ caller = [j \in JobIds |-> "idle"]
  /\ worker = [j \in JobIds |-> "none"]
  /\ outcome = [j \in JobIds |-> "none"]
  /\ final = [j \in JobIds |-> "none"]
  /\ canceled = [j \in JobIds |-> FALSE]
  /\ jobs = {}
  /\ memStatus = [j \in JobIds |-> "pending"]
  /\ queue = 0
  /\ recStatus = [j \in JobIds |-> "none"]
  /\ recResult = [j \in JobIds |-> "none"]
  /\ recAge = [j \in JobIds |-> 0]
  /\ recURL = [j \in JobIds |-> FALSE]
  /\ closed = FALSE
  /\ client = [c \in Clients |-> "idle"]
  /\ target = [c \in Clients |-> "none"]
  /\ snapshot = [c \in Clients |-> "none"]
  /\ told = [j \in JobIds |-> {}]
  /\ crashes = 0

-----------------------------------------------------------------------------
(* The dispatching side: Runtime.tryHandleAsync and Manager.StartJob.      *)

\* acquireAsyncSlot sends to the channel unless it is full; without a limit
\* the token carries no channel and neither send nor release touches it.
SlotFree == MaxQueueSize = 0 \/ queue < MaxQueueSize
AddToken == IF MaxQueueSize = 0 THEN queue ELSE queue + 1
DropToken == IF MaxQueueSize = 0 THEN queue ELSE queue - 1

\* An eligible respond-async request obtains a slot...
AcquireSlot(j) ==
  /\ j \in RuntimeJobs
  /\ caller[j] = "idle"
  /\ SlotFree
  /\ queue' = AddToken
  /\ caller' = [caller EXCEPT ![j] = "acquired"]
  /\ UNCHANGED <<workerVars, recVars, closed, clientVars, crashes>>

\* ... or, when the queue is full, is served synchronously.
FallBackToSync(j) ==
  /\ j \in RuntimeJobs
  /\ caller[j] = "idle"
  /\ ~SlotFree
  /\ caller' = [caller EXCEPT ![j] = "sync"]
  /\ UNCHANGED <<workerVars, queue, recVars, closed, clientVars, crashes>>

\* A direct StartJob has no slot to acquire.
CallStartJob(j) ==
  /\ j \in JobIds \ RuntimeJobs
  /\ caller[j] = "idle"
  /\ caller' = [caller EXCEPT ![j] = "acquired"]
  /\ UNCHANGED <<workerVars, queue, recVars, closed, clientVars, crashes>>

\* StartJob inserts the record before anything else knows the job.
CreateRecord(j) ==
  /\ caller[j] = "acquired"
  /\ caller' = [caller EXCEPT ![j] = "created"]
  /\ recStatus' = [recStatus EXCEPT ![j] = "pending"]
  /\ UNCHANGED <<workerVars, queue, recResult, recAge, recURL, closed,
                 clientVars, crashes>>

CreateRecordFailsKeepingSlot(j) ==
  /\ DbMayFail
  /\ caller[j] = "acquired"
  /\ caller' = [caller EXCEPT ![j] = "rejected"]
  /\ UNCHANGED <<workerVars, queue, recVars, closed, clientVars, crashes>>

\* The insert fails: StartJob returns the error, tryHandleAsync gives the
\* slot back and answers 500.
CreateRecordFails(j) ==
  /\ DbMayFail
  /\ caller[j] = "acquired"
  /\ caller' = [caller EXCEPT ![j] = "rejected"]
  /\ queue' = IF j \in RuntimeJobs THEN DropToken ELSE queue
  /\ UNCHANGED <<workerVars, recVars, closed, clientVars, crashes>>

\* The job enters Manager.jobs and its goroutine is spawned.
Register(j) ==
  /\ caller[j] = "created"
  /\ caller' = [caller EXCEPT ![j] = "registered"]
  /\ jobs' = jobs \cup {j}
  /\ worker' = [worker EXCEPT ![j] = "ready"]
  /\ UNCHANGED <<outcome, final, canceled, memStatus, queue, recVars,
                 closed, clientVars, crashes>>

\* SetMonitorURL persists the URL (a failure is only logged), then
\* WriteInitialResponse answers 202 with it.  The row may be updated by the
\* worker meanwhile; an update of a missing row changes nothing.
AnswerAccepted(j) ==
  /\ caller[j] = "registered"
  /\ caller' = [caller EXCEPT ![j] = "answered"]
  /\ \E saved \in IF DbMayFail THEN BOOLEAN ELSE {TRUE} :
       recURL' = [recURL EXCEPT
                    ![j] = saved /\ j \in RuntimeJobs /\ recStatus[j] # "none"]
  /\ UNCHANGED <<workerVars, queue, recStatus, recResult, recAge, closed,
                 clientVars, crashes>>

-----------------------------------------------------------------------------
(* The worker: Manager.run, updateStatus and finish.                       *)

\* updateStatus(JobRunning), the part under the mutex.
StartRunning(j) ==
  /\ worker[j] = "ready"
  /\ worker' = [worker EXCEPT ![j] = "starting"]
  /\ memStatus' = [memStatus EXCEPT ![j] = "running"]
  /\ UNCHANGED <<caller, outcome, final, canceled, jobs, queue, recVars,
                 closed, clientVars, crashes>>

\* updateStatus(JobRunning), the update of the row; a failure is logged.
PersistRunning(j) ==
  /\ worker[j] = "starting"
  /\ worker' = [worker EXCEPT ![j] = "handling"]
  /\ \/ recStatus' = [recStatus EXCEPT
                        ![j] = IF @ = "none" THEN @ ELSE "running"]
     \/ DbMayFail /\ UNCHANGED recStatus
  /\ UNCHANGED <<caller, outcome, final, canceled, jobs, memStatus, queue,
                 recResult, recAge, recURL, closed, clientVars, crashes>>

HandlerReturnsKeepingSlot(j) ==
  /\ worker[j] = "handling"
  /\ worker' = [worker EXCEPT ![j] = "returned"]
  /\ \E o \in IF j \in RuntimeJobs THEN {"ok"} ELSE Outcomes :
       outcome' = [outcome EXCEPT ![j] = o]
  /\ UNCHANGED <<caller, final, canceled, jobs, memStatus, queue, recVars,
                 closed, clientVars, crashes>>

\* The handler returns.  The runtime's handler records whatever the router
\* answers, returns no error and releases its slot on the way out; another
\* handler may return any error.
HandlerReturns(j) ==
  /\ worker[j] = "handling"
  /\ worker' = [worker EXCEPT ![j] = "returned"]
  /\ \E o \in IF j \in RuntimeJobs THEN {"ok"} ELSE Outcomes :
       outcome' = [outcome EXCEPT ![j] = o]
  /\ queue' = IF j \in RuntimeJobs THEN DropToken ELSE queue
  /\ UNCHANGED <<caller, final, canceled, jobs, memStatus, recVars, closed,
                 clientVars, crashes>>

\* run() classifies the result: a cancellation error, or any error once the
\* context is cancelled, is JobCanceled.
ClassifiedAs(j) ==
  IF outcome[j] = "ok" THEN "completed"
  ELSE IF outcome[j] = "ctxError" \/ canceled[j] THEN "canceled"
  ELSE "failed"

Classify(j) ==
  /\ worker[j] = "returned"
  /\ worker' = [worker EXCEPT ![j] = "classified"]
  /\ final' = [final EXCEPT ![j] = ClassifiedAs(j)]
  /\ UNCHANGED <<caller, outcome, canceled, jobs, memStatus, queue, recVars,
                 closed, clientVars, crashes>>

\* finish(), the part under the mutex: terminal status, out of the map.
FinishInMemory(j) ==
  /\ worker[j] = "classified"
  /\ worker' = [worker EXCEPT ![j] = "finishing"]
  /\ memStatus' = [memStatus EXCEPT ![j] = final[j]]
  /\ jobs' = jobs \ {j}
  /\ UNCHANGED <<caller, outcome, final, canceled, queue, recVars, closed,
                 clientVars, crashes>>

PersistFinishReclassified(j) ==
  /\ worker[j] = "finishing"
  /\ worker' = [worker EXCEPT ![j] = "done"]
  /\ recStatus' = [recStatus EXCEPT ![j] = ClassifiedAs(j)]
  /\ recResult' = [recResult EXCEPT ![j] = outcome[j]]
  /\ UNCHANGED <<caller, outcome, final, canceled, jobs, memStatus, queue,
                 recAge, recURL, closed, clientVars, crashes>>

\* finish(), the update of the row.  JobCanceled stores no error text.
PersistFinish(j) ==
  /\ worker[j] = "finishing"
  /\ worker' = [worker EXCEPT ![j] = "done"]
  /\ IF recStatus[j] = "none"
     THEN UNCHANGED <<recStatus, recResult, recAge>>
     ELSE /\ recStatus' = [recStatus EXCEPT ![j] = final[j]]
          /\ recResult' = [recResult EXCEPT ![j] = outcome[j]]
          /\ recAge' = [recAge EXCEPT ![j] = 0]
  /\ UNCHANGED <<caller, outcome, final, canceled, jobs, memStatus, queue,
                 recURL, closed, clientVars, crashes>>

\* The update fails and is only logged: nothing retries it.
PersistFinishFails(j) ==
  /\ DbMayFail
  /\ worker[j] = "finishing"
  /\ worker' = [worker EXCEPT ![j] = "done"]
  /\ UNCHANGED <<caller, outcome, final, canceled, jobs, memStatus, queue,
                 recVars, closed, clientVars, crashes>>

-----------------------------------------------------------------------------
(* The monitor: Manager.ServeMonitor, one request per client at a time.    *)

\* db.First: a client only knows the URL of a job that was answered.
LoadRecord(c, j) ==
  /\ client[c] = "idle"
  /\ caller[j] = "answered"
  /\ target' = [target EXCEPT ![c] = j]
  /\ snapshot' = [snapshot EXCEPT ![c] = recStatus[j]]
  /\ client' = [client EXCEPT ![c] = IF recStatus[j] = "none" THEN "notFound"
                                     ELSE "loaded"]
  /\ UNCHANGED <<caller, workerVars, queue, recVars, closed, told, crashes>>

\* The load failed: 500.
LoadFails(c, j) ==
  /\ DbMayFail
  /\ client[c] = "idle"
  /\ caller[j] = "answered"
  /\ target' = [target EXCEPT ![c] = j]
  /\ client' = [client EXCEPT ![c] = "error"]
  /\ UNCHANGED <<caller, workerVars, queue, recVars, closed, snapshot, told,
                 crashes>>

\* GET or HEAD: 202 while the snapshot is not terminal, otherwise the stored
\* response, the error, or 204 for a cancelled job.
ServeGet(c) ==
  /\ client[c] = "loaded"
  /\ IF snapshot[c] \in Terminal
     THEN /\ client' = [client EXCEPT ![c] = "result"]
          /\ told' = [told EXCEPT ![target[c]] = @ \cup {snapshot[c]}]
     ELSE /\ client' = [client EXCEPT ![c] = "accepted"]
          /\ UNCHANGED told
  /\ UNCHANGED <<caller, workerVars, queue, recVars, closed, target,
                 snapshot, crashes>>

\* DELETE, CancelJob under the mutex: a live job is remembered for the
\* cancel() that follows; any other DELETE drops the in-memory entry of a
\* completed or failed job and answers 204.
ServeDelete(c) ==
  LET j == target[c]
      live == j \in jobs /\ memStatus[j] \notin Terminal
  IN /\ client[c] = "loaded"
     /\ client' = [client EXCEPT ![c] = IF live THEN "cancelling"
                                        ELSE "deleted"]
     /\ jobs' = IF ~live /\ snapshot[c] \in {"completed", "failed"}
                THEN jobs \ {j} ELSE jobs
     /\ UNCHANGED <<caller, worker, outcome, final, canceled, memStatus,
                    queue, recVars, closed, target, snapshot, told, crashes>>

\* cancel() after the mutex is released, then 204.
CancelContext(c) ==
  /\ client[c] = "cancelling"
  /\ canceled' = [canceled EXCEPT ![target[c]] = TRUE]
  /\ client' = [client EXCEPT ![c] = "deleted"]
  /\ UNCHANGED <<caller, worker, outcome, final, jobs, memStatus, queue,
                 recVars, closed, target, snapshot, told, crashes>>

\* The client is ready for another request.
NextRequest(c) ==
  /\ client[c] \in {"notFound", "error", "result", "accepted", "deleted"}
  /\ client' = [client EXCEPT ![c] = "idle"]
  /\ target' = [target EXCEPT ![c] = "none"]
  /\ snapshot' = [snapshot EXCEPT ![c] = "none"]
  /\ UNCHANGED <<caller, workerVars, queue, recVars, closed, told, crashes>>

-----------------------------------------------------------------------------
(* Retention, shutdown and crash.                                          *)

\* Time passes: the rows with a completed_at grow older.
Tick ==
  /\ recAge' = [j \in JobIds |->
                  IF recStatus[j] \in Terminal /\ recAge[j] <= TTL
                  THEN recAge[j] + 1 ELSE recAge[j]]
  /\ UNCHANGED <<caller, workerVars, queue, recStatus, recResult, recURL,
                 closed, clientVars, crashes>>

ExpiredInAnyStatus(j) == recStatus[j] # "none"
ExpiredLate(j) == recStatus[j] \in Terminal /\ recAge[j] > TTL + 1

Expired(j) == recStatus[j] \in Terminal /\ recAge[j] > TTL

\* cleanupExpired, on the ticker until Close: rows with an old completed_at
\* go, and so would in-memory jobs that completed.  No row without a
\* completed_at is ever removed.
CleanupExpired ==
  /\ TTL > 0 /\ ~closed
  /\ \E j \in JobIds : Expired(j)
  /\ recStatus' = [j \in JobIds |-> IF Expired(j) THEN "none"
                                    ELSE recStatus[j]]
  /\ recResult' = [j \in JobIds |-> IF Expired(j) THEN "none"
                                    ELSE recResult[j]]
  /\ recAge' = [j \in JobIds |-> IF Expired(j) THEN 0 ELSE recAge[j]]
  /\ recURL' = [j \in JobIds |-> recURL[j] /\ ~Expired(j)]
  /\ jobs' = {j \in jobs : memStatus[j] \notin Terminal}
  /\ UNCHANGED <<caller, worker, outcome, final, canceled, memStatus, queue,
                 closed, clientVars, crashes>>

\* Manager.Close stops the ticker; jobs in flight go on.
Close ==
  /\ ~closed
  /\ closed' = TRUE
  /\ UNCHANGED <<caller, workerVars, queue, recVars, clientVars, crashes>>

\* The process dies (a panic in a worker goroutine has no recover) and is
\* started again with a new manager over the same table.
Crash ==
  /\ crashes < MaxCrashes
  /\ crashes' = crashes + 1
  /\ caller' = [j \in JobIds |-> IF caller[j] \in {"idle", "answered"}
                                 THEN caller[j] ELSE "lost"]
  /\ worker' = [j \in JobIds |-> IF worker[j] \in {"none", "done"}
                                 THEN worker[j] ELSE "lost"]
  /\ canceled' = [j \in JobIds |-> FALSE]
  /\ jobs' = {}
  /\ queue' = 0
  /\ closed' = FALSE
  /\ client' = [c \in Clients |-> "idle"]
  /\ target' = [c \in Clients |-> "none"]
  /\ snapshot' = [c \in Clients |-> "none"]
  /\ UNCHANGED <<outcome, final, memStatus, recVars, told>>

-----------------------------------------------------------------------------
CallerStep(j) ==
  \/ AcquireSlot(j) \/ FallBackToSync(j) \/ CallStartJob(j)
  \/ CreateRecord(j) \/ CreateRecordFails(j) \/ Register(j)
  \/ AnswerAccepted(j)

WorkerStep(j) ==
  \/ StartRunning(j) \/ PersistRunning(j) \/ HandlerReturns(j)
  \/ Classify(j) \/ FinishInMemory(j) \/ PersistFinish(j)
  \/ PersistFinishFails(j)

ClientStep(c) ==
  \/ \E j \in JobIds : LoadRecord(c, j) \/ LoadFails(c, j)
  \/ ServeGet(c) \/ ServeDelete(c) \/ CancelContext(c) \/ NextRequest(c)

Next ==
  \/ \E j \in JobIds : CallerStep(j) \/ WorkerStep(j)
  \/ \E c \in Clients : ClientStep(c)
  \/ Tick \/ CleanupExpired \/ Close \/ Crash

Spec == Init /\ [][Next]_vars

(***************************************************************************)
(* Fairness: worker goroutines are scheduled and handlers return (the      *)
(* handler is the service's own router on a buffered request), a request   *)
(* that began is carried through, time passes and the ticker fires.        *)
(***************************************************************************)
Fairness ==
  /\ \A j \in JobIds : WF_vars(WorkerStep(j))
  /\ \A j \in JobIds : WF_vars(CreateRecord(j) \/ CreateRecordFails(j)
                               \/ Register(j) \/ AnswerAccepted(j))
  /\ WF_vars(Tick)
  /\ WF_vars(CleanupExpired)

FairSpec == Spec /\ Fairness

-----------------------------------------------------------------------------
(* Properties.                                                             *)

CallerSteps == {"idle", "acquired", "created", "registered", "answered",
                "sync", "rejected", "lost"}
WorkerSteps == {"none", "ready", "starting", "handling", "returned",
                "classified", "finishing", "done", "lost"}
ClientSteps == {"idle", "loaded", "notFound", "error", "result", "accepted",
                "cancelling", "deleted"}

WorkerTypeOK ==
  /\ worker \in [JobIds -> WorkerSteps]
  /\ outcome \in [JobIds -> Outcomes \cup {"none"}]
  /\ final \in [JobIds -> Terminal \cup {"none"}]
  /\ canceled \in [JobIds -> BOOLEAN]
  /\ jobs \subseteq JobIds
  /\ memStatus \in [JobIds -> Status]

RecTypeOK ==
  /\ recStatus \in [JobIds -> Status \cup {"none"}]
  /\ recResult \in [JobIds -> Outcomes \cup {"none"}]
  /\ recAge \in [JobIds -> 0 .. TTL + 1]
  /\ recURL \in [JobIds -> BOOLEAN]

ClientTypeOK ==
  /\ client \in [Clients -> ClientSteps]
  /\ target \in [Clients -> JobIds \cup {"none"}]
  /\ \A c \in Clients : client[c] # "idle" => target[c] \in JobIds
  /\ snapshot \in [Clients -> Status \cup {"none"}]
  /\ told \in [JobIds -> SUBSET Terminal]

\* Every variable of the manager, the runtime and the monitor keeps its type,
\* and a monitor request beyond its first step is about a job.
TypeOK ==
  /\ caller \in [JobIds -> CallerSteps]
  /\ queue \in Int
  /\ closed \in BOOLEAN
  /\ crashes \in 0 .. MaxCrashes
  /\ WorkerTypeOK
  /\ RecTypeOK
  /\ ClientTypeOK

\* The requests that took a slot and have not given it back.
Holders ==
  {j \in RuntimeJobs : \/ caller[j] \in {"acquired", "created"}
                       \/ worker[j] \in {"ready", "starting", "handling"}}

\* The queue channel holds exactly one token per request between
\* acquireAsyncSlot and release, whatever fails on the way: no slot leaks,
\* release never blocks on an empty channel, the limit is never exceeded.
SlotsMatchHolders ==
  /\ MaxQueueSize > 0 => queue = Cardinality(Holders) /\ queue <= MaxQueueSize
  /\ MaxQueueSize = 0 => queue = 0

\* Until finish() publishes the result, the job is in Manager.jobs with a
\* live status, so that a DELETE of its monitor still reaches its context;
\* afterwards it is not, so that the cleanup of memory finds nothing to do.
JobsAreTheLiveOnes ==
  \A j \in JobIds :
    /\ j \in jobs <=> worker[j] \in {"ready", "starting", "handling",
                                     "returned", "classified"}
    /\ j \in jobs => memStatus[j] \in {"pending", "running"}

\* A row with a terminal status holds the result of the one execution of its
\* job, as run() classified it: neither a racing cancellation nor a crash
\* can leave a row that claims another result.
RecordIsTruthful ==
  \A j \in JobIds : recStatus[j] \in Terminal =>
    /\ worker[j] = "done"
    /\ recStatus[j] = final[j]
    /\ recResult[j] = outcome[j]

\* All the monitors that ever reported a final result of a job reported the
\* same one, however stale their snapshot and across restarts.
ToldOneResult == \A j \in JobIds : told[j] \subseteq {final[j]}

\* The persisted status only moves forward: pending, running, one terminal
\* status, no row.
StatusOnlyAdvances ==
  [][\A j \in JobIds :
       /\ recStatus[j] = "running" => recStatus'[j] # "pending"
       /\ recStatus[j] = "running" => recStatus'[j] # "none"
       /\ recStatus[j] \in Terminal => recStatus'[j] \in {recStatus[j], "none"}
    ]_vars

\* The retention cleanup removes every finished row, unless the manager is
\* closed first.
FinishedIsPruned ==
  \A j \in JobIds : recStatus[j] \in Terminal ~> recStatus[j] = "none" \/ closed

\* Whatever fails or crashes, every slot comes back.
SlotsAreReturned == <>[](queue = 0)

\* What the monitor of a job shows: the row, or "gone" once it was pruned.
MonitorView ==
  [j \in JobIds |->
     IF recStatus[j] \in {"pending", "running"} THEN "accepted"
     ELSE IF recStatus[j] \in Terminal THEN recStatus[j]
     ELSE IF worker[j] = "done" THEN "gone" ELSE "unknown"]

Monitor == INSTANCE AsyncJobSpec WITH Results <- Terminal, view <- MonitorView

\* Crashes and failing writes never make a monitor take a result back,
\* change it or forget an unfinished job (safety of AsyncJobSpec).
ImplementsMonitor == Monitor!Spec

\* Without crashes and failing writes every accepted job is also resolved.
ImplementsFairMonitor == Monitor!FairSpec

\* A job that was accepted is resolved, once and for good, and its row goes.
JobsRunTheirCourse == ImplementsFairMonitor /\ FinishedIsPruned

-----------------------------------------------------------------------------
(* The inductive invariant behind these properties.                        *)

\* The goroutines and the row of a job are in matching stages: nothing runs
\* before Register, and the row outlives the worker that will finish it.
StagesAgree ==
  \A j \in JobIds :
    /\ caller[j] \in {"idle", "acquired", "created", "sync", "rejected"}
         => worker[j] = "none"
    /\ caller[j] \in {"idle", "acquired", "sync", "rejected"}
         => recStatus[j] = "none"
    /\ caller[j] = "created" => recStatus[j] = "pending"
    /\ worker[j] \in {"ready", "starting", "handling", "returned",
                      "classified", "finishing"}
         => recStatus[j] \in {"pending", "running"}
    /\ worker[j] = "none" => memStatus[j] = "pending"
    /\ worker[j] \in {"classified", "finishing", "done"}
         => final[j] \in Terminal

\* A terminal status that was reported, or was loaded and is about to be, is
\* the one the finished worker chose.
ReportsAreFinal ==
  /\ \A j \in JobIds : told[j] # {} => worker[j] = "done"
  /\ \A c \in Clients : client[c] = "loaded" /\ snapshot[c] \in Terminal =>
       /\ worker[target[c]] = "done"
       /\ snapshot[c] = final[target[c]]

IInv ==
  /\ TypeOK
  /\ StagesAgree
  /\ JobsAreTheLiveOnes
  /\ RecordIsTruthful
  /\ ReportsAreFinal
  /\ ToldOneResult
=============================================================================
