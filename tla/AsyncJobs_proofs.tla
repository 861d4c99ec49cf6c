-------------------------- MODULE AsyncJobs_proofs --------------------------
(***************************************************************************)
(* Proofs about AsyncJobs for every set of jobs and clients, every queue   *)
(* limit, retention and number of crashes: type correctness, what becomes  *)
(* of the records and of the queue slots, and the refinement of            *)
(* AsyncJobSpec.  IInv is inductive; each of its parts has a lemma that    *)
(* names the actions able to disturb it and dismisses the others because   *)
(* they leave its variables alone.                                         *)
(***************************************************************************)
EXTENDS AsyncJobs, FiniteSetTheorems, TLAPS

USE DEF Terminal, Status, Outcomes, CallerSteps, WorkerSteps, ClientSteps

\* The rest of TypeOK.
QueueTypeOK ==
  /\ caller \in [JobIds -> CallerSteps]
  /\ queue \in Int
  /\ closed \in BOOLEAN
  /\ crashes \in 0 .. MaxCrashes

-----------------------------------------------------------------------------
(* The inductive invariant.                                                *)

\* A manager just constructed satisfies the invariant.
LEMMA InvInit == Init => IInv
<1> SUFFICES ASSUME Init PROVE IInv
  OBVIOUS
<1> USE AsyncAssumption DEF Init
<1>1. WorkerTypeOK
  BY DEF WorkerTypeOK
<1>2. RecTypeOK
  <2>1. recStatus \in [JobIds -> Status \cup {"none"}]
    OBVIOUS
  <2>2. recResult \in [JobIds -> Outcomes \cup {"none"}]
    OBVIOUS
  <2>3. recAge \in [JobIds -> 0 .. TTL + 1]
    OBVIOUS
  <2>4. recURL \in [JobIds -> BOOLEAN]
    OBVIOUS
  <2> QED BY <2>1, <2>2, <2>3, <2>4 DEF RecTypeOK
<1>3. ClientTypeOK
  BY DEF ClientTypeOK
<1>4. TypeOK
  <2>1. caller \in [JobIds -> CallerSteps] /\ queue \in Int
    OBVIOUS
  <2>2. closed \in BOOLEAN
    OBVIOUS
  <2>3. crashes \in 0 .. MaxCrashes
    OBVIOUS
  <2> QED BY <1>1, <1>2, <1>3, <2>1, <2>2, <2>3 DEF TypeOK
<1>5. StagesAgree /\ JobsAreTheLiveOnes
  BY DEF StagesAgree, JobsAreTheLiveOnes
<1>6. RecordIsTruthful /\ ReportsAreFinal /\ ToldOneResult
  BY DEF RecordIsTruthful, ReportsAreFinal, ToldOneResult
<1> QED BY <1>4, <1>5, <1>6 DEF IInv

\* The variables of the worker goroutines keep their types.  FinishInMemory
\* publishes final[j], which StagesAgree says has been chosen by then.
LEMMA WorkerTypeNext == IInv /\ [Next]_vars => WorkerTypeOK'
<1> SUFFICES ASSUME IInv, [Next]_vars PROVE WorkerTypeOK'
  OBVIOUS
<1> USE AsyncAssumption DEF IInv, TypeOK, WorkerTypeOK, ClientTypeOK,
        StagesAgree, workerVars
<1>1. ASSUME NEW j \in JobIds, Register(j) PROVE WorkerTypeOK'
  BY <1>1 DEF Register
<1>2. ASSUME NEW j \in JobIds, StartRunning(j) PROVE WorkerTypeOK'
  BY <1>2 DEF StartRunning
<1>3. ASSUME NEW j \in JobIds, PersistRunning(j) PROVE WorkerTypeOK'
  BY <1>3 DEF PersistRunning
<1>4. ASSUME NEW j \in JobIds, HandlerReturns(j) PROVE WorkerTypeOK'
  BY <1>4 DEF HandlerReturns, DropToken
<1>5. ASSUME NEW j \in JobIds, Classify(j) PROVE WorkerTypeOK'
  BY <1>5 DEF Classify, ClassifiedAs
<1>6. ASSUME NEW j \in JobIds, FinishInMemory(j) PROVE WorkerTypeOK'
  BY <1>6 DEF FinishInMemory
<1>7. ASSUME NEW j \in JobIds, PersistFinish(j) PROVE WorkerTypeOK'
  BY <1>7 DEF PersistFinish
<1>8. ASSUME NEW j \in JobIds, PersistFinishFails(j) PROVE WorkerTypeOK'
  BY <1>8 DEF PersistFinishFails
<1>9. ASSUME NEW j \in JobIds,
             \/ AcquireSlot(j) \/ FallBackToSync(j) \/ CallStartJob(j)
             \/ CreateRecord(j) \/ CreateRecordFails(j) \/ AnswerAccepted(j)
      PROVE  UNCHANGED <<workerVars>>
  BY <1>9 DEF AcquireSlot, FallBackToSync, CallStartJob, CreateRecord,
       CreateRecordFails, AnswerAccepted
<1>10. ASSUME NEW c \in Clients, NEW j \in JobIds,
              \/ LoadRecord(c, j) \/ LoadFails(c, j)
      PROVE  UNCHANGED <<workerVars>>
  BY <1>10 DEF LoadRecord, LoadFails
<1>11. ASSUME NEW c \in Clients, ServeDelete(c) PROVE WorkerTypeOK'
  BY <1>11 DEF ServeDelete
<1>12. ASSUME NEW c \in Clients, CancelContext(c) PROVE WorkerTypeOK'
  BY <1>12 DEF CancelContext
<1>13. ASSUME NEW c \in Clients,
              \/ ServeGet(c) \/ NextRequest(c)
      PROVE  UNCHANGED <<workerVars>>
  BY <1>13 DEF ServeGet, NextRequest
<1>14. ASSUME CleanupExpired PROVE WorkerTypeOK'
  BY <1>14 DEF CleanupExpired, Expired
<1>15. ASSUME Crash PROVE WorkerTypeOK'
  BY <1>15 DEF Crash
<1>16. ASSUME \/ Tick \/ Close
      PROVE  UNCHANGED <<workerVars>>
  BY <1>16 DEF Tick, Close
<1>17. ASSUME UNCHANGED <<workerVars>> PROVE WorkerTypeOK'
  BY <1>17
<1> QED
  BY <1>1, <1>2, <1>3, <1>4, <1>5, <1>6, <1>7, <1>8, <1>9, <1>10, <1>11,
     <1>12, <1>13, <1>14, <1>15, <1>16, <1>17 DEF Next, CallerStep,
     WorkerStep, ClientStep, vars

\* The columns of the job table keep their types: finish() stores a final
\* status, and no row grows older than TTL + 1.
LEMMA RecTypeNext == IInv /\ [Next]_vars => RecTypeOK'
<1> SUFFICES ASSUME IInv, [Next]_vars PROVE RecTypeOK'
  OBVIOUS
<1> USE AsyncAssumption DEF IInv, TypeOK, WorkerTypeOK, RecTypeOK,
        StagesAgree, recVars
<1>1. ASSUME NEW j \in JobIds, CreateRecord(j) PROVE RecTypeOK'
  BY <1>1 DEF CreateRecord
<1>2. ASSUME NEW j \in JobIds, AnswerAccepted(j) PROVE RecTypeOK'
  BY <1>2 DEF AnswerAccepted
<1>3. ASSUME NEW j \in JobIds, PersistRunning(j) PROVE RecTypeOK'
  BY <1>3 DEF PersistRunning
<1>4. ASSUME NEW j \in JobIds, PersistFinish(j) PROVE RecTypeOK'
  BY <1>4 DEF PersistFinish
<1>5. ASSUME NEW j \in JobIds,
             \/ AcquireSlot(j) \/ FallBackToSync(j) \/ CallStartJob(j)
             \/ CreateRecordFails(j) \/ Register(j) \/ StartRunning(j)
             \/ HandlerReturns(j) \/ Classify(j) \/ FinishInMemory(j)
             \/ PersistFinishFails(j)
      PROVE  UNCHANGED <<recVars>>
  BY <1>5 DEF AcquireSlot, FallBackToSync, CallStartJob, CreateRecordFails,
       Register, StartRunning, HandlerReturns, Classify, FinishInMemory,
       PersistFinishFails
<1>6. ASSUME NEW c \in Clients, NEW j \in JobIds,
             \/ LoadRecord(c, j) \/ LoadFails(c, j)
      PROVE  UNCHANGED <<recVars>>
  BY <1>6 DEF LoadRecord, LoadFails
<1>7. ASSUME NEW c \in Clients,
             \/ ServeGet(c) \/ ServeDelete(c) \/ CancelContext(c)
             \/ NextRequest(c)
      PROVE  UNCHANGED <<recVars>>
  BY <1>7 DEF ServeGet, ServeDelete, CancelContext, NextRequest
<1>8. ASSUME Tick PROVE RecTypeOK'
  BY <1>8 DEF Tick
<1>9. ASSUME CleanupExpired PROVE RecTypeOK'
  BY <1>9 DEF CleanupExpired, Expired
<1>10. ASSUME \/ Close \/ Crash
      PROVE  UNCHANGED <<recVars>>
  BY <1>10 DEF Close, Crash
<1>11. ASSUME UNCHANGED <<recVars>> PROVE RecTypeOK'
  BY <1>11
<1> QED
  BY <1>1, <1>2, <1>3, <1>4, <1>5, <1>6, <1>7, <1>8, <1>9, <1>10, <1>11 DEF
     Next, CallerStep, WorkerStep, ClientStep, vars

\* The monitor requests keep their types, and one beyond its first step is
\* about a job.
LEMMA ClientTypeNext == IInv /\ [Next]_vars => ClientTypeOK'
<1> SUFFICES ASSUME IInv, [Next]_vars PROVE ClientTypeOK'
  OBVIOUS
<1> USE AsyncAssumption DEF IInv, TypeOK, RecTypeOK, ClientTypeOK, clientVars
<1>1. ASSUME NEW j \in JobIds,
             \/ AcquireSlot(j) \/ FallBackToSync(j) \/ CallStartJob(j)
             \/ CreateRecord(j) \/ CreateRecordFails(j) \/ Register(j)
             \/ AnswerAccepted(j) \/ StartRunning(j) \/ PersistRunning(j)
             \/ HandlerReturns(j) \/ Classify(j) \/ FinishInMemory(j)
             \/ PersistFinish(j) \/ PersistFinishFails(j)
      PROVE  UNCHANGED <<clientVars>>
  BY <1>1 DEF AcquireSlot, FallBackToSync, CallStartJob, CreateRecord,
       CreateRecordFails, Register, AnswerAccepted, StartRunning,
       PersistRunning, HandlerReturns, Classify, FinishInMemory,
       PersistFinish, PersistFinishFails
<1>2. ASSUME NEW c \in Clients, NEW j \in JobIds, LoadRecord(c, j)
      PROVE  ClientTypeOK'
  BY <1>2 DEF LoadRecord
<1>3. ASSUME NEW c \in Clients, NEW j \in JobIds, LoadFails(c, j)
      PROVE  ClientTypeOK'
  BY <1>3 DEF LoadFails
<1>4. ASSUME NEW c \in Clients, ServeGet(c) PROVE ClientTypeOK'
  BY <1>4 DEF ServeGet
<1>5. ASSUME NEW c \in Clients, ServeDelete(c) PROVE ClientTypeOK'
  BY <1>5 DEF ServeDelete
<1>6. ASSUME NEW c \in Clients, CancelContext(c) PROVE ClientTypeOK'
  BY <1>6 DEF CancelContext
<1>7. ASSUME NEW c \in Clients, NextRequest(c) PROVE ClientTypeOK'
  BY <1>7 DEF NextRequest
<1>8. ASSUME Crash PROVE ClientTypeOK'
  BY <1>8 DEF Crash
<1>9. ASSUME \/ Tick \/ CleanupExpired \/ Close
      PROVE  UNCHANGED <<clientVars>>
  BY <1>9 DEF Tick, CleanupExpired, Close
<1>10. ASSUME UNCHANGED <<clientVars>> PROVE ClientTypeOK'
  BY <1>10
<1> QED
  BY <1>1, <1>2, <1>3, <1>4, <1>5, <1>6, <1>7, <1>8, <1>9, <1>10 DEF Next,
     CallerStep, WorkerStep, ClientStep, vars

\* The goroutines of the callers, the queue, the closed flag and the crash
\* counter keep their types.
LEMMA QueueTypeNext == IInv /\ [Next]_vars => QueueTypeOK'
<1> SUFFICES ASSUME IInv, [Next]_vars PROVE QueueTypeOK'
  OBVIOUS
<1> USE AsyncAssumption DEF IInv, TypeOK, QueueTypeOK
<1>1. ASSUME NEW j \in JobIds, AcquireSlot(j) PROVE QueueTypeOK'
  BY <1>1 DEF AcquireSlot, AddToken
<1>2. ASSUME NEW j \in JobIds, FallBackToSync(j) PROVE QueueTypeOK'
  BY <1>2 DEF FallBackToSync
<1>3. ASSUME NEW j \in JobIds, CallStartJob(j) PROVE QueueTypeOK'
  BY <1>3 DEF CallStartJob
<1>4. ASSUME NEW j \in JobIds, CreateRecord(j) PROVE QueueTypeOK'
  BY <1>4 DEF CreateRecord
<1>5. ASSUME NEW j \in JobIds, CreateRecordFails(j) PROVE QueueTypeOK'
  BY <1>5 DEF CreateRecordFails, DropToken
<1>6. ASSUME NEW j \in JobIds, Register(j) PROVE QueueTypeOK'
  BY <1>6 DEF Register
<1>7. ASSUME NEW j \in JobIds, AnswerAccepted(j) PROVE QueueTypeOK'
  BY <1>7 DEF AnswerAccepted
<1>8. ASSUME NEW j \in JobIds, HandlerReturns(j) PROVE QueueTypeOK'
  BY <1>8 DEF HandlerReturns, DropToken
<1>9. ASSUME NEW j \in JobIds,
             \/ StartRunning(j) \/ PersistRunning(j) \/ Classify(j)
             \/ FinishInMemory(j) \/ PersistFinish(j)
             \/ PersistFinishFails(j)
      PROVE  UNCHANGED <<caller, queue, closed, crashes>>
  BY <1>9 DEF StartRunning, PersistRunning, Classify, FinishInMemory,
       PersistFinish, PersistFinishFails
<1>10. ASSUME NEW c \in Clients, NEW j \in JobIds,
              \/ LoadRecord(c, j) \/ LoadFails(c, j)
      PROVE  UNCHANGED <<caller, queue, closed, crashes>>
  BY <1>10 DEF LoadRecord, LoadFails
<1>11. ASSUME NEW c \in Clients,
              \/ ServeGet(c) \/ ServeDelete(c) \/ CancelContext(c)
              \/ NextRequest(c)
      PROVE  UNCHANGED <<caller, queue, closed, crashes>>
  BY <1>11 DEF ServeGet, ServeDelete, CancelContext, NextRequest
<1>12. ASSUME Close PROVE QueueTypeOK'
  BY <1>12 DEF Close
<1>13. ASSUME Crash PROVE QueueTypeOK'
  <2>1. caller' \in [JobIds -> CallerSteps] /\ queue' \in Int
    BY <1>13 DEF Crash
  <2>2. closed' \in BOOLEAN
    BY <1>13 DEF Crash
  <2>3. crashes' \in 0 .. MaxCrashes
    BY <1>13 DEF Crash
  <2> QED BY <2>1, <2>2, <2>3
<1>14. ASSUME \/ Tick \/ CleanupExpired
      PROVE  UNCHANGED <<caller, queue, closed, crashes>>
  BY <1>14 DEF Tick, CleanupExpired
<1>15. ASSUME UNCHANGED <<caller, queue, closed, crashes>> PROVE QueueTypeOK'
  BY <1>15
<1> QED
  BY <1>1, <1>2, <1>3, <1>4, <1>5, <1>6, <1>7, <1>8, <1>9, <1>10, <1>11,
     <1>12, <1>13, <1>14, <1>15 DEF Next, CallerStep, WorkerStep, ClientStep,
     vars

\* The stages of caller, worker and row stay in step.
LEMMA StagesNext == IInv /\ [Next]_vars => StagesAgree'
<1> SUFFICES ASSUME IInv, [Next]_vars PROVE StagesAgree'
  OBVIOUS
<1> USE AsyncAssumption DEF IInv, TypeOK, WorkerTypeOK, RecTypeOK,
        StagesAgree, RecordIsTruthful, workerVars, recVars
<1>1. ASSUME NEW j \in JobIds, AcquireSlot(j) PROVE StagesAgree'
  BY <1>1 DEF AcquireSlot, AddToken
<1>2. ASSUME NEW j \in JobIds, FallBackToSync(j) PROVE StagesAgree'
  BY <1>2 DEF FallBackToSync
<1>3. ASSUME NEW j \in JobIds, CallStartJob(j) PROVE StagesAgree'
  BY <1>3 DEF CallStartJob
<1>4. ASSUME NEW j \in JobIds, CreateRecord(j) PROVE StagesAgree'
  BY <1>4 DEF CreateRecord
<1>5. ASSUME NEW j \in JobIds, CreateRecordFails(j) PROVE StagesAgree'
  BY <1>5 DEF CreateRecordFails, DropToken
<1>6. ASSUME NEW j \in JobIds, Register(j) PROVE StagesAgree'
  BY <1>6 DEF Register
<1>7. ASSUME NEW j \in JobIds, AnswerAccepted(j) PROVE StagesAgree'
  BY <1>7 DEF AnswerAccepted
<1>8. ASSUME NEW j \in JobIds, StartRunning(j) PROVE StagesAgree'
  BY <1>8 DEF StartRunning
<1>9. ASSUME NEW j \in JobIds, PersistRunning(j) PROVE StagesAgree'
  BY <1>9 DEF PersistRunning
<1>10. ASSUME NEW j \in JobIds, HandlerReturns(j) PROVE StagesAgree'
  BY <1>10 DEF HandlerReturns, DropToken
<1>11. ASSUME NEW j \in JobIds, Classify(j) PROVE StagesAgree'
  BY <1>11 DEF Classify, ClassifiedAs
<1>12. ASSUME NEW j \in JobIds, FinishInMemory(j) PROVE StagesAgree'
  BY <1>12 DEF FinishInMemory
<1>13. ASSUME NEW j \in JobIds, PersistFinish(j) PROVE StagesAgree'
  BY <1>13 DEF PersistFinish
<1>14. ASSUME NEW j \in JobIds, PersistFinishFails(j) PROVE StagesAgree'
  BY <1>14 DEF PersistFinishFails
<1>15. ASSUME NEW c \in Clients, NEW j \in JobIds,
              \/ LoadRecord(c, j) \/ LoadFails(c, j)
      PROVE  UNCHANGED <<caller, worker, final, memStatus, recStatus>>
  BY <1>15 DEF LoadRecord, LoadFails
<1>16. ASSUME NEW c \in Clients,
              \/ ServeGet(c) \/ ServeDelete(c) \/ CancelContext(c)
              \/ NextRequest(c)
      PROVE  UNCHANGED <<caller, worker, final, memStatus, recStatus>>
  BY <1>16 DEF ServeGet, ServeDelete, CancelContext, NextRequest
<1>17. ASSUME CleanupExpired PROVE StagesAgree'
  BY <1>17 DEF CleanupExpired, Expired
<1>18. ASSUME Crash PROVE StagesAgree'
  BY <1>18 DEF Crash
<1>19. ASSUME \/ Tick \/ Close
      PROVE  UNCHANGED <<caller, worker, final, memStatus, recStatus>>
  BY <1>19 DEF Tick, Close
<1>20. ASSUME UNCHANGED <<caller, worker, final, memStatus, recStatus>> PROVE StagesAgree'
  BY <1>20
<1> QED
  BY <1>1, <1>2, <1>3, <1>4, <1>5, <1>6, <1>7, <1>8, <1>9, <1>10, <1>11,
     <1>12, <1>13, <1>14, <1>15, <1>16, <1>17, <1>18, <1>19, <1>20 DEF Next,
     CallerStep, WorkerStep, ClientStep, vars

\* Manager.jobs stays the set of live jobs: a DELETE finds the entry of a job
\* it loaded as completed already gone.
LEMMA JobsNext == IInv /\ [Next]_vars => JobsAreTheLiveOnes'
<1> SUFFICES ASSUME IInv, [Next]_vars PROVE JobsAreTheLiveOnes'
  OBVIOUS
<1> USE AsyncAssumption DEF IInv, TypeOK, WorkerTypeOK, ClientTypeOK,
        StagesAgree, JobsAreTheLiveOnes, workerVars
<1>1. ASSUME NEW j \in JobIds, Register(j) PROVE JobsAreTheLiveOnes'
  BY <1>1 DEF Register
<1>2. ASSUME NEW j \in JobIds, StartRunning(j) PROVE JobsAreTheLiveOnes'
  BY <1>2 DEF StartRunning
<1>3. ASSUME NEW j \in JobIds, PersistRunning(j) PROVE JobsAreTheLiveOnes'
  BY <1>3 DEF PersistRunning
<1>4. ASSUME NEW j \in JobIds, HandlerReturns(j) PROVE JobsAreTheLiveOnes'
  BY <1>4 DEF HandlerReturns, DropToken
<1>5. ASSUME NEW j \in JobIds, Classify(j) PROVE JobsAreTheLiveOnes'
  BY <1>5 DEF Classify, ClassifiedAs
<1>6. ASSUME NEW j \in JobIds, FinishInMemory(j) PROVE JobsAreTheLiveOnes'
  BY <1>6 DEF FinishInMemory
<1>7. ASSUME NEW j \in JobIds, PersistFinish(j) PROVE JobsAreTheLiveOnes'
  BY <1>7 DEF PersistFinish
<1>8. ASSUME NEW j \in JobIds, PersistFinishFails(j) PROVE JobsAreTheLiveOnes'
  BY <1>8 DEF PersistFinishFails
<1>9. ASSUME NEW j \in JobIds,
             \/ AcquireSlot(j) \/ FallBackToSync(j) \/ CallStartJob(j)
             \/ CreateRecord(j) \/ CreateRecordFails(j) \/ AnswerAccepted(j)
      PROVE  UNCHANGED <<jobs, worker, memStatus>>
  BY <1>9 DEF AcquireSlot, FallBackToSync, CallStartJob, CreateRecord,
       CreateRecordFails, AnswerAccepted
<1>10. ASSUME NEW c \in Clients, NEW j \in JobIds,
              \/ LoadRecord(c, j) \/ LoadFails(c, j)
      PROVE  UNCHANGED <<jobs, worker, memStatus>>
  BY <1>10 DEF LoadRecord, LoadFails
<1>11. ASSUME NEW c \in Clients, ServeDelete(c) PROVE JobsAreTheLiveOnes'
  BY <1>11 DEF ServeDelete
<1>12. ASSUME NEW c \in Clients,
              \/ ServeGet(c) \/ CancelContext(c) \/ NextRequest(c)
      PROVE  UNCHANGED <<jobs, worker, memStatus>>
  BY <1>12 DEF ServeGet, CancelContext, NextRequest
<1>13. ASSUME CleanupExpired PROVE JobsAreTheLiveOnes'
  BY <1>13 DEF CleanupExpired, Expired
<1>14. ASSUME Crash PROVE JobsAreTheLiveOnes'
  BY <1>14 DEF Crash
<1>15. ASSUME \/ Tick \/ Close
      PROVE  UNCHANGED <<jobs, worker, memStatus>>
  BY <1>15 DEF Tick, Close
<1>16. ASSUME UNCHANGED <<jobs, worker, memStatus>> PROVE JobsAreTheLiveOnes'
  BY <1>16
<1> QED
  BY <1>1, <1>2, <1>3, <1>4, <1>5, <1>6, <1>7, <1>8, <1>9, <1>10, <1>11,
     <1>12, <1>13, <1>14, <1>15, <1>16 DEF Next, CallerStep, WorkerStep,
     ClientStep, vars

\* A terminal row keeps telling what its worker found: only finish() writes
\* one, and no later step of the worker or of a caller touches it.
LEMMA RecordNext == IInv /\ [Next]_vars => RecordIsTruthful'
<1> SUFFICES ASSUME IInv, [Next]_vars PROVE RecordIsTruthful'
  OBVIOUS
<1> USE AsyncAssumption DEF IInv, TypeOK, WorkerTypeOK, RecTypeOK,
        StagesAgree, RecordIsTruthful, workerVars, recVars
<1>1. ASSUME NEW j \in JobIds, CreateRecord(j) PROVE RecordIsTruthful'
  BY <1>1 DEF CreateRecord
<1>2. ASSUME NEW j \in JobIds, Register(j) PROVE RecordIsTruthful'
  BY <1>2 DEF Register
<1>3. ASSUME NEW j \in JobIds, StartRunning(j) PROVE RecordIsTruthful'
  BY <1>3 DEF StartRunning
<1>4. ASSUME NEW j \in JobIds, PersistRunning(j) PROVE RecordIsTruthful'
  BY <1>4 DEF PersistRunning
<1>5. ASSUME NEW j \in JobIds, HandlerReturns(j) PROVE RecordIsTruthful'
  BY <1>5 DEF HandlerReturns, DropToken
<1>6. ASSUME NEW j \in JobIds, Classify(j) PROVE RecordIsTruthful'
  BY <1>6 DEF Classify, ClassifiedAs
<1>7. ASSUME NEW j \in JobIds, FinishInMemory(j) PROVE RecordIsTruthful'
  BY <1>7 DEF FinishInMemory
<1>8. ASSUME NEW j \in JobIds, PersistFinish(j) PROVE RecordIsTruthful'
  BY <1>8 DEF PersistFinish
<1>9. ASSUME NEW j \in JobIds, PersistFinishFails(j) PROVE RecordIsTruthful'
  BY <1>9 DEF PersistFinishFails
<1>10. ASSUME NEW j \in JobIds,
              \/ AcquireSlot(j) \/ FallBackToSync(j) \/ CallStartJob(j)
              \/ CreateRecordFails(j) \/ AnswerAccepted(j)
      PROVE  UNCHANGED <<worker, outcome, final, recStatus, recResult>>
  BY <1>10 DEF AcquireSlot, FallBackToSync, CallStartJob, CreateRecordFails,
       AnswerAccepted
<1>11. ASSUME NEW c \in Clients, NEW j \in JobIds,
              \/ LoadRecord(c, j) \/ LoadFails(c, j)
      PROVE  UNCHANGED <<worker, outcome, final, recStatus, recResult>>
  BY <1>11 DEF LoadRecord, LoadFails
<1>12. ASSUME NEW c \in Clients,
              \/ ServeGet(c) \/ ServeDelete(c) \/ CancelContext(c)
              \/ NextRequest(c)
      PROVE  UNCHANGED <<worker, outcome, final, recStatus, recResult>>
  BY <1>12 DEF ServeGet, ServeDelete, CancelContext, NextRequest
<1>13. ASSUME CleanupExpired PROVE RecordIsTruthful'
  BY <1>13 DEF CleanupExpired, Expired
<1>14. ASSUME Crash PROVE RecordIsTruthful'
  BY <1>14 DEF Crash
<1>15. ASSUME \/ Tick \/ Close
      PROVE  UNCHANGED <<worker, outcome, final, recStatus, recResult>>
  BY <1>15 DEF Tick, Close
<1>16. ASSUME UNCHANGED <<worker, outcome, final, recStatus, recResult>> PROVE RecordIsTruthful'
  BY <1>16
<1> QED
  BY <1>1, <1>2, <1>3, <1>4, <1>5, <1>6, <1>7, <1>8, <1>9, <1>10, <1>11,
     <1>12, <1>13, <1>14, <1>15, <1>16 DEF Next, CallerStep, WorkerStep,
     ClientStep, vars

\* What a monitor loaded stays true while it is being reported.
LEMMA ReportsNext == IInv /\ [Next]_vars => ReportsAreFinal'
<1> SUFFICES ASSUME IInv, [Next]_vars PROVE ReportsAreFinal'
  OBVIOUS
<1> USE AsyncAssumption DEF IInv, TypeOK, WorkerTypeOK, RecTypeOK,
        ClientTypeOK, StagesAgree, RecordIsTruthful, ReportsAreFinal,
        workerVars, recVars, clientVars
<1>1. ASSUME NEW j \in JobIds, Register(j) PROVE ReportsAreFinal'
  BY <1>1 DEF Register
<1>2. ASSUME NEW j \in JobIds, StartRunning(j) PROVE ReportsAreFinal'
  BY <1>2 DEF StartRunning
<1>3. ASSUME NEW j \in JobIds, PersistRunning(j) PROVE ReportsAreFinal'
  BY <1>3 DEF PersistRunning
<1>4. ASSUME NEW j \in JobIds, HandlerReturns(j) PROVE ReportsAreFinal'
  BY <1>4 DEF HandlerReturns, DropToken
<1>5. ASSUME NEW j \in JobIds, Classify(j) PROVE ReportsAreFinal'
  BY <1>5 DEF Classify, ClassifiedAs
<1>6. ASSUME NEW j \in JobIds, FinishInMemory(j) PROVE ReportsAreFinal'
  BY <1>6 DEF FinishInMemory
<1>7. ASSUME NEW j \in JobIds, PersistFinish(j) PROVE ReportsAreFinal'
  BY <1>7 DEF PersistFinish
<1>8. ASSUME NEW j \in JobIds, PersistFinishFails(j) PROVE ReportsAreFinal'
  BY <1>8 DEF PersistFinishFails
<1>9. ASSUME NEW j \in JobIds,
             \/ AcquireSlot(j) \/ FallBackToSync(j) \/ CallStartJob(j)
             \/ CreateRecord(j) \/ CreateRecordFails(j) \/ AnswerAccepted(j)
      PROVE  UNCHANGED <<worker, final, client, target, snapshot, told>>
  BY <1>9 DEF AcquireSlot, FallBackToSync, CallStartJob, CreateRecord,
       CreateRecordFails, AnswerAccepted
<1>10. ASSUME NEW c \in Clients, NEW j \in JobIds, LoadRecord(c, j)
      PROVE  ReportsAreFinal'
  BY <1>10 DEF LoadRecord
<1>11. ASSUME NEW c \in Clients, NEW j \in JobIds, LoadFails(c, j)
      PROVE  ReportsAreFinal'
  BY <1>11 DEF LoadFails
<1>12. ASSUME NEW c \in Clients, ServeGet(c) PROVE ReportsAreFinal'
  BY <1>12 DEF ServeGet
<1>13. ASSUME NEW c \in Clients, ServeDelete(c) PROVE ReportsAreFinal'
  BY <1>13 DEF ServeDelete
<1>14. ASSUME NEW c \in Clients, CancelContext(c) PROVE ReportsAreFinal'
  BY <1>14 DEF CancelContext
<1>15. ASSUME NEW c \in Clients, NextRequest(c) PROVE ReportsAreFinal'
  BY <1>15 DEF NextRequest
<1>16. ASSUME Crash PROVE ReportsAreFinal'
  BY <1>16 DEF Crash
<1>17. ASSUME \/ Tick \/ CleanupExpired \/ Close
      PROVE  UNCHANGED <<worker, final, client, target, snapshot, told>>
  BY <1>17 DEF Tick, CleanupExpired, Close
<1>18. ASSUME UNCHANGED <<worker, final, client, target, snapshot, told>> PROVE ReportsAreFinal'
  BY <1>18
<1> QED
  BY <1>1, <1>2, <1>3, <1>4, <1>5, <1>6, <1>7, <1>8, <1>9, <1>10, <1>11,
     <1>12, <1>13, <1>14, <1>15, <1>16, <1>17, <1>18 DEF Next, CallerStep,
     WorkerStep, ClientStep, vars

\* A report adds the final status and Classify cannot change it afterwards.
LEMMA ToldNext == IInv /\ [Next]_vars => ToldOneResult'
<1> SUFFICES ASSUME IInv, [Next]_vars PROVE ToldOneResult'
  OBVIOUS
<1> USE AsyncAssumption DEF IInv, TypeOK, WorkerTypeOK, ClientTypeOK,
        ReportsAreFinal, ToldOneResult, workerVars, clientVars
<1>1. ASSUME NEW j \in JobIds, Classify(j) PROVE ToldOneResult'
  BY <1>1 DEF Classify, ClassifiedAs
<1>2. ASSUME NEW j \in JobIds,
             \/ AcquireSlot(j) \/ FallBackToSync(j) \/ CallStartJob(j)
             \/ CreateRecord(j) \/ CreateRecordFails(j) \/ Register(j)
             \/ AnswerAccepted(j) \/ StartRunning(j) \/ PersistRunning(j)
             \/ HandlerReturns(j) \/ FinishInMemory(j) \/ PersistFinish(j)
             \/ PersistFinishFails(j)
      PROVE  UNCHANGED <<final, told>>
  BY <1>2 DEF AcquireSlot, FallBackToSync, CallStartJob, CreateRecord,
       CreateRecordFails, Register, AnswerAccepted, StartRunning,
       PersistRunning, HandlerReturns, FinishInMemory, PersistFinish,
       PersistFinishFails
<1>3. ASSUME NEW c \in Clients, NEW j \in JobIds,
             \/ LoadRecord(c, j) \/ LoadFails(c, j)
      PROVE  UNCHANGED <<final, told>>
  BY <1>3 DEF LoadRecord, LoadFails
<1>4. ASSUME NEW c \in Clients, ServeGet(c) PROVE ToldOneResult'
  BY <1>4 DEF ServeGet
<1>5. ASSUME NEW c \in Clients,
             \/ ServeDelete(c) \/ CancelContext(c) \/ NextRequest(c)
      PROVE  UNCHANGED <<final, told>>
  BY <1>5 DEF ServeDelete, CancelContext, NextRequest
<1>6. ASSUME \/ Tick \/ CleanupExpired \/ Close \/ Crash
      PROVE  UNCHANGED <<final, told>>
  BY <1>6 DEF Tick, CleanupExpired, Close, Crash
<1>7. ASSUME UNCHANGED <<final, told>> PROVE ToldOneResult'
  BY <1>7
<1> QED
  BY <1>1, <1>2, <1>3, <1>4, <1>5, <1>6, <1>7 DEF Next, CallerStep,
     WorkerStep, ClientStep, vars

\* IInv is inductive: every action of the manager, the runtime, the monitor
\* and the environment preserves it.
LEMMA InvNext == IInv /\ [Next]_vars => IInv'
<1> SUFFICES ASSUME IInv, [Next]_vars PROVE IInv'
  OBVIOUS
<1>1. TypeOK'
  BY WorkerTypeNext, RecTypeNext, ClientTypeNext, QueueTypeNext
  DEF TypeOK, QueueTypeOK
<1>2. StagesAgree' /\ JobsAreTheLiveOnes' /\ RecordIsTruthful'
  BY StagesNext, JobsNext, RecordNext
<1>3. ReportsAreFinal' /\ ToldOneResult'
  BY ReportsNext, ToldNext
<1> QED BY <1>1, <1>2, <1>3 DEF IInv

\* Every reachable state of the asynchronous runtime satisfies IInv.
THEOREM Invariance == Spec => []IInv
  BY InvInit, InvNext, PTL DEF Spec

-----------------------------------------------------------------------------
(* The invariants the runs check, for every instance.                      *)

\* The manager, the runtime and the monitor never leave their types.
THEOREM TypeCorrect == Spec => []TypeOK
<1>1. IInv => TypeOK
  BY DEF IInv
<1> QED BY <1>1, Invariance, PTL

\* Manager.jobs holds exactly the jobs whose result is not yet published, so
\* that a DELETE reaches the context of each of them.
THEOREM LiveJobsAreCancellable == Spec => []JobsAreTheLiveOnes
<1>1. IInv => JobsAreTheLiveOnes
  BY DEF IInv
<1> QED BY <1>1, Invariance, PTL

\* A row with a terminal status tells the outcome of its job's only
\* execution, whatever writes fail and whenever the process crashes.
THEOREM RecordsAreTruthful == Spec => []RecordIsTruthful
<1>1. IInv => RecordIsTruthful
  BY DEF IInv
<1> QED BY <1>1, Invariance, PTL

\* No two monitor requests ever report different results of one job.
THEOREM MonitorsAgree == Spec => []ToldOneResult
<1>1. IInv => ToldOneResult
  BY DEF IInv
<1> QED BY <1>1, Invariance, PTL

-----------------------------------------------------------------------------
(* The queue slots.                                                        *)

\* There are finitely many holders of a slot.
LEMMA HoldersFinite == IsFiniteSet(Holders) /\ Cardinality(Holders) \in Nat
<1>1. Holders \subseteq JobIds
  BY AsyncAssumption DEF Holders
<1> QED BY <1>1, AsyncAssumption, FS_Subset, FS_CardinalityType

\* What each step does to the holders: the steps between acquireAsyncSlot
\* and release hand the slot on within the same request.
LEMMA HoldersNext ==
  ASSUME IInv, [Next]_vars
  PROVE  \/ Holders' = Holders /\ queue' = queue
         \/ \E j \in JobIds : /\ j \notin Holders
                              /\ Holders' = Holders \cup {j}
                              /\ SlotFree /\ queue' = AddToken
         \/ \E j \in Holders : Holders' = Holders \ {j} /\ queue' = DropToken
         \/ Holders' = {} /\ queue' = 0
<1> USE AsyncAssumption DEF IInv, TypeOK, WorkerTypeOK, StagesAgree, Holders,
        workerVars
<1>1. ASSUME NEW j \in JobIds, AcquireSlot(j)
      PROVE  /\ j \notin Holders
             /\ Holders' = Holders \cup {j}
             /\ SlotFree /\ queue' = AddToken
  BY <1>1 DEF AcquireSlot
<1>2. ASSUME NEW j \in JobIds, CreateRecordFails(j)
      PROVE  \/ Holders' = Holders /\ queue' = queue
             \/ j \in Holders /\ Holders' = Holders \ {j} /\ queue' = DropToken
  BY <1>2 DEF CreateRecordFails
<1>3. ASSUME NEW j \in JobIds, HandlerReturns(j)
      PROVE  \/ Holders' = Holders /\ queue' = queue
             \/ j \in Holders /\ Holders' = Holders \ {j} /\ queue' = DropToken
  BY <1>3 DEF HandlerReturns
<1>4. ASSUME NEW j \in JobIds,
             \/ FallBackToSync(j) \/ CallStartJob(j) \/ CreateRecord(j)
             \/ Register(j) \/ AnswerAccepted(j)
      PROVE  Holders' = Holders /\ queue' = queue
  <2>1. ASSUME FallBackToSync(j) \/ CallStartJob(j)
        PROVE  Holders' = Holders /\ queue' = queue
    BY <2>1 DEF FallBackToSync, CallStartJob
  <2>2. ASSUME CreateRecord(j) PROVE Holders' = Holders /\ queue' = queue
    BY <2>2 DEF CreateRecord
  <2>3. ASSUME Register(j) PROVE Holders' = Holders /\ queue' = queue
    BY <2>3 DEF Register
  <2>4. ASSUME AnswerAccepted(j) PROVE Holders' = Holders /\ queue' = queue
    BY <2>4 DEF AnswerAccepted
  <2> QED BY <1>4, <2>1, <2>2, <2>3, <2>4
<1>5. ASSUME NEW j \in JobIds,
             \/ StartRunning(j) \/ PersistRunning(j) \/ Classify(j)
             \/ FinishInMemory(j) \/ PersistFinish(j)
             \/ PersistFinishFails(j)
      PROVE  Holders' = Holders /\ queue' = queue
  BY <1>5 DEF StartRunning, PersistRunning, Classify, FinishInMemory,
              PersistFinish, PersistFinishFails
<1>6. ASSUME NEW c \in Clients, ClientStep(c)
      PROVE  UNCHANGED <<caller, worker, queue>>
  BY <1>6 DEF ClientStep, LoadRecord, LoadFails, ServeGet, ServeDelete,
              CancelContext, NextRequest
<1>7. ASSUME Tick \/ CleanupExpired \/ Close
      PROVE  UNCHANGED <<caller, worker, queue>>
  BY <1>7 DEF Tick, CleanupExpired, Close
<1>8. ASSUME Crash PROVE Holders' = {} /\ queue' = 0
  BY <1>8 DEF Crash
<1>9. ASSUME UNCHANGED <<caller, worker, queue>>
      PROVE  Holders' = Holders /\ queue' = queue
  BY <1>9
<1> QED
  BY <1>1, <1>2, <1>3, <1>4, <1>5, <1>6, <1>7, <1>8, <1>9
  DEF Next, CallerStep, WorkerStep, vars

\* The channel keeps counting the holders.
LEMMA SlotsNext ==
  IInv /\ SlotsMatchHolders /\ [Next]_vars => SlotsMatchHolders'
<1> SUFFICES ASSUME IInv, SlotsMatchHolders, [Next]_vars
             PROVE  SlotsMatchHolders'
  OBVIOUS
<1> DEFINE H == Holders
           H1 == Holders'
<1>1. IsFiniteSet(H) /\ Cardinality(H) \in Nat /\ queue \in Int
  BY HoldersFinite DEF IInv, TypeOK
<1>2. ASSUME H1 = H, queue' = queue PROVE SlotsMatchHolders'
  BY <1>2 DEF SlotsMatchHolders
<1>3. ASSUME NEW j \in JobIds, j \notin H, H1 = H \cup {j},
             SlotFree, queue' = AddToken
      PROVE  SlotsMatchHolders'
  <2>1. Cardinality(H1) = Cardinality(H) + 1
    BY <1>1, <1>3, FS_AddElement
  <2> QED BY <1>1, <1>3, <2>1, AsyncAssumption
          DEF SlotsMatchHolders, SlotFree, AddToken
<1>4. ASSUME NEW j \in H, H1 = H \ {j}, queue' = DropToken
      PROVE  SlotsMatchHolders'
  <2>1. Cardinality(H1) = Cardinality(H) - 1
    BY <1>1, <1>4, FS_RemoveElement
  <2> QED BY <1>1, <1>4, <2>1, AsyncAssumption
          DEF SlotsMatchHolders, DropToken
<1>5. ASSUME H1 = {}, queue' = 0 PROVE SlotsMatchHolders'
  <2>1. Cardinality(H1) = 0
    BY <1>5, FS_EmptySet
  <2> QED BY <1>5, <2>1, AsyncAssumption DEF SlotsMatchHolders
<1> QED BY <1>2, <1>3, <1>4, <1>5, HoldersNext

\* Every slot acquireAsyncSlot hands out is given back exactly once, on every
\* path through StartJob, run and the failures between them, and the queue
\* never exceeds AsyncConfig.MaxQueueSize.
THEOREM SlotsNeverLeak == Spec => []SlotsMatchHolders
<1>1. Init => SlotsMatchHolders
  <2> SUFFICES ASSUME Init PROVE SlotsMatchHolders
    OBVIOUS
  <2>1. Holders = {} /\ queue = 0
    BY AsyncAssumption DEF Init, Holders
  <2>2. Cardinality(Holders) = 0
    BY <2>1, FS_EmptySet
  <2> QED BY <2>1, <2>2, AsyncAssumption DEF SlotsMatchHolders
<1> QED BY <1>1, SlotsNext, Invariance, PTL DEF Spec

-----------------------------------------------------------------------------
(* The persisted status, and what the monitor shows.                       *)

\* What each step does to the row of one job.
LEMMA RowNext ==
  ASSUME IInv, [Next]_vars, NEW j \in JobIds
  PROVE  \/ recStatus'[j] = recStatus[j]
         \/ /\ recStatus[j] = "none" /\ recStatus'[j] = "pending"
            /\ worker[j] = "none"
         \/ /\ recStatus[j] \in {"pending", "running"}
            /\ recStatus'[j] \in {"running"} \cup Terminal
         \/ /\ recStatus[j] \in Terminal /\ recStatus'[j] = "none"
            /\ worker'[j] = "done"
<1> USE AsyncAssumption DEF IInv, TypeOK, WorkerTypeOK, RecTypeOK, StagesAgree,
        RecordIsTruthful, workerVars, recVars
<1> DEFINE Step == \/ recStatus'[j] = recStatus[j]
                   \/ /\ recStatus[j] = "none" /\ recStatus'[j] = "pending"
                      /\ worker[j] = "none"
                   \/ /\ recStatus[j] \in {"pending", "running"}
                      /\ recStatus'[j] \in {"running"} \cup Terminal
                   \/ /\ recStatus[j] \in Terminal /\ recStatus'[j] = "none"
                      /\ worker'[j] = "done"
<1>1. ASSUME NEW i \in JobIds, CreateRecord(i) PROVE Step
  BY <1>1 DEF CreateRecord
<1>2. ASSUME NEW i \in JobIds, PersistRunning(i) PROVE Step
  BY <1>2 DEF PersistRunning
<1>3. ASSUME NEW i \in JobIds, PersistFinish(i) PROVE Step
  BY <1>3 DEF PersistFinish
<1>4. ASSUME CleanupExpired PROVE Step
  BY <1>4 DEF CleanupExpired, Expired
<1>5. ASSUME NEW i \in JobIds,
             \/ AcquireSlot(i) \/ FallBackToSync(i) \/ CallStartJob(i)
             \/ CreateRecordFails(i) \/ Register(i) \/ AnswerAccepted(i)
             \/ StartRunning(i) \/ HandlerReturns(i) \/ Classify(i)
             \/ FinishInMemory(i) \/ PersistFinishFails(i)
      PROVE  recStatus' = recStatus
  BY <1>5 DEF AcquireSlot, FallBackToSync, CallStartJob, CreateRecordFails,
              Register, AnswerAccepted, StartRunning, HandlerReturns,
              Classify, FinishInMemory, PersistFinishFails
<1>6. ASSUME NEW c \in Clients, ClientStep(c)
      PROVE  recStatus' = recStatus
  BY <1>6 DEF ClientStep, LoadRecord, LoadFails, ServeGet, ServeDelete,
              CancelContext, NextRequest
<1>7. ASSUME Tick \/ Close \/ Crash PROVE recStatus' = recStatus
  BY <1>7 DEF Tick, Close, Crash
<1> QED
  BY <1>1, <1>2, <1>3, <1>4, <1>5, <1>6, <1>7
  DEF Next, CallerStep, WorkerStep, vars

\* The persisted status never moves back: no crash, failing write or racing
\* worker turns a running job into a pending one, drops its row or revises a
\* final status.
THEOREM StatusAdvances == Spec => StatusOnlyAdvances
<1>1. IInv /\ [Next]_vars =>
        \A j \in JobIds :
          /\ recStatus[j] = "running" => recStatus'[j] # "pending"
          /\ recStatus[j] = "running" => recStatus'[j] # "none"
          /\ recStatus[j] \in Terminal
               => recStatus'[j] \in {recStatus[j], "none"}
  BY RowNext
<1> QED BY <1>1, Invariance, PTL DEF Spec, StatusOnlyAdvances

\* A step changes what the monitor of a job shows only by creating, finishing
\* or pruning its row.
LEMMA ViewNext ==
  ASSUME IInv, [Next]_vars
  PROVE  \/ MonitorView' = MonitorView
         \/ Monitor!Next
<1> USE AsyncAssumption DEF IInv, TypeOK, WorkerTypeOK, RecTypeOK, StagesAgree,
        RecordIsTruthful, workerVars, recVars
<1>1. ASSUME NEW j \in JobIds, CreateRecord(j) PROVE Monitor!Accept(j)
  BY <1>1 DEF CreateRecord, MonitorView, Monitor!Accept
<1>2. ASSUME NEW j \in JobIds, PersistFinish(j) PROVE Monitor!Resolve(j)
  <2>1. recStatus[j] \in {"pending", "running"} /\ final[j] \in Terminal
    BY <1>2 DEF PersistFinish
  <2>2. MonitorView[j] = "accepted"
    BY <2>1 DEF MonitorView
  <2>3. MonitorView' = [MonitorView EXCEPT ![j] = final[j]]
    <3>1. /\ recStatus' = [recStatus EXCEPT ![j] = final[j]]
          /\ worker' = [worker EXCEPT ![j] = "done"]
      BY <1>2, <2>1 DEF PersistFinish
    <3>2. final[j] \notin {"pending", "running"}
      BY <2>1
    <3>3. \A i \in JobIds :
            MonitorView'[i] = IF i = j THEN final[j] ELSE MonitorView[i]
      BY <2>1, <3>1, <3>2 DEF MonitorView
    <3> QED BY <3>3 DEF MonitorView
  <2> QED BY <2>1, <2>2, <2>3 DEF Monitor!Resolve
<1>3. ASSUME CleanupExpired PROVE Monitor!Forget
  <2> DEFINE J == {j \in JobIds : Expired(j)}
  <2>1. J \in SUBSET {j \in JobIds : MonitorView[j] \in Terminal}
    BY DEF Expired, MonitorView
  <2>2. MonitorView' = [j \in JobIds |-> IF j \in J THEN "gone"
                                        ELSE MonitorView[j]]
    BY <1>3 DEF CleanupExpired, Expired, MonitorView
  <2> QED BY <2>1, <2>2 DEF Monitor!Forget
<1>4. ASSUME NEW j \in JobIds, PersistRunning(j) \/ PersistFinishFails(j)
      PROVE  MonitorView' = MonitorView
  BY <1>4 DEF PersistRunning, PersistFinishFails, MonitorView
<1>5. ASSUME recStatus' = recStatus,
             \A j \in JobIds : worker'[j] = "done" <=> worker[j] = "done"
      PROVE  MonitorView' = MonitorView
  BY <1>5 DEF MonitorView
<1>6. ASSUME NEW j \in JobIds,
             \/ AcquireSlot(j) \/ FallBackToSync(j) \/ CallStartJob(j)
             \/ CreateRecordFails(j) \/ AnswerAccepted(j)
      PROVE  recStatus' = recStatus /\ worker' = worker
  BY <1>6 DEF AcquireSlot, FallBackToSync, CallStartJob, CreateRecordFails,
              AnswerAccepted
<1>7. ASSUME NEW j \in JobIds,
             \/ Register(j) \/ StartRunning(j) \/ HandlerReturns(j)
             \/ Classify(j) \/ FinishInMemory(j)
      PROVE  /\ recStatus' = recStatus
             /\ \A i \in JobIds : worker'[i] = "done" <=> worker[i] = "done"
  BY <1>7 DEF Register, StartRunning, HandlerReturns, Classify,
              FinishInMemory
<1>8. ASSUME NEW c \in Clients, ClientStep(c)
      PROVE  recStatus' = recStatus /\ worker' = worker
  BY <1>8 DEF ClientStep, LoadRecord, LoadFails, ServeGet, ServeDelete,
              CancelContext, NextRequest
<1>9. ASSUME Tick \/ Close
      PROVE  recStatus' = recStatus /\ worker' = worker
  BY <1>9 DEF Tick, Close
<1>10. ASSUME Crash
       PROVE  /\ recStatus' = recStatus
              /\ \A i \in JobIds : worker'[i] = "done" <=> worker[i] = "done"
  BY <1>10 DEF Crash
<1> QED
  BY <1>1, <1>2, <1>3, <1>4, <1>5, <1>6, <1>7, <1>8, <1>9, <1>10
  DEF Next, CallerStep, WorkerStep, vars, Monitor!Next

\* The job manager and its table implement the abstract monitor: a client
\* that polls sees a job accepted, then one result, then nothing, across
\* failing writes and crashes.
THEOREM Implements == Spec => ImplementsMonitor
<1>1. Init => Monitor!Init
  BY DEF Init, Monitor!Init, MonitorView
<1>2. IInv /\ [Next]_vars => [Monitor!Next]_MonitorView
  BY ViewNext
<1> QED BY <1>1, <1>2, Invariance, PTL DEF Spec, ImplementsMonitor, Monitor!Spec
=============================================================================
