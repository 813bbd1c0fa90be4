-------------------------- MODULE TaskQueueProofs --------------------------
(***************************************************************************)
(* Proofs about TaskQueue for any number of calls, any distribution of     *)
(* them over pieces of work, and any bounds.                               *)
(***************************************************************************)
EXTENDS TaskQueue, TLAPS

\* A job has a worker, or a lost one, exactly while River has it as working;
\* a job that waits for an attempt has one left.
JobInv ==
  \A c \in Calls :
    /\ wpc[c] # "idle" <=> job[c] = "working"
    /\ job[c] = "available" => attempt[c] < MaxAttempts
    /\ job[c] = "none" => attempt[c] = 0

\* A call has no row before Create and no job before Insert, and has not
\* answered before it returns.
CallInv ==
  \A c \in Calls :
    /\ pc[c] \in {"create", "find"} => task[c] = "absent"
    /\ pc[c] \in {"create", "find", "insert"} => job[c] = "none"
    /\ pc[c] # "returned" => answer[c] = "none"

Base == TypeOK /\ JobInv /\ CallInv

-----------------------------------------------------------------------------
(* Type correctness.                                                       *)

LEMMA BaseInit == Init => Base
  BY BoundsAssumption DEF Init, Base, TypeOK, JobInv, CallInv, NoTask

LEMMA BaseArrive ==
  ASSUME Base, NEW c \in Calls, Arrive(c)
  PROVE  Base'
  BY DEF Base, TypeOK, JobInv, CallInv, Arrive, Create, CreateRefused, CreateFails,
         CreateReplyLost, SetStatus, Goto, Return, NoTask, jobVars, workerVars

LEMMA BaseProceed ==
  ASSUME Base, NEW c \in Calls, Proceed(c)
  PROVE  Base'
<1>1. CASE Insert(c) \/ InsertReplyLost(c)
  BY <1>1, BoundsAssumption
     DEF Base, TypeOK, JobInv, CallInv, Insert, InsertReplyLost, Goto, Return, workerVars
<1>2. CASE FindActiveByDedupKey(c)
  BY <1>2 DEF Base, TypeOK, JobInv, CallInv, FindActiveByDedupKey, Rivals, Return,
              jobVars, workerVars
<1>3. CASE \/ FindNothing(c) \/ FindFails(c) \/ InsertFails(c)
           \/ Settle(c) \/ SettleFails(c)
  BY <1>3 DEF Base, TypeOK, JobInv, CallInv, FindNothing, FindFails, InsertFails, Settle,
              SettleFails, SetStatus, Goto, Return, NoTask, jobVars, workerVars
<1>. QED BY <1>1, <1>2, <1>3 DEF Proceed

LEMMA BaseJob ==
  ASSUME Base, NEW c \in Calls, Fetch(c) \/ Attempt(c) \/ Rescue(c)
  PROVE  Base'
<1>. USE BoundsAssumption DEF Base, TypeOK, JobInv, CallInv
<1>1. CASE Fetch(c)
  BY <1>1 DEF Fetch, callVars
<1>2. CASE JobReturns(c) \/ Rescue(c)
  BY <1>2 DEF JobReturns, Rescue, RetryOrDiscard, callVars
<1>3. CASE \/ MarkRunning(c) \/ MarkFails(c) \/ MarkReplyLost(c)
           \/ Finish(c) \/ FinishFails(c)
  BY <1>3 DEF MarkRunning, MarkFails, MarkReplyLost, Finish, FinishFails,
              SetStatus, Continue, callVars, jobVars
<1>4. CASE Operate(c)
  BY <1>4 DEF Operate, Continue, callVars, jobVars
<1>. QED BY <1>1, <1>2, <1>3, <1>4 DEF Attempt

LEMMA BaseEnvironment ==
  ASSUME Base, NEW c \in Calls, Environment(c)
  PROVE  Base'
  BY DEF Base, TypeOK, JobInv, CallInv, Environment, CancelRequest, CallerCrashes,
         CancelJob, WorkerCrashes, Return, NoTask, callVars, jobVars, workerVars

LEMMA BaseStep == Base /\ [Next]_vars => Base'
<1>1. ASSUME Base, UNCHANGED vars PROVE Base'
  BY <1>1 DEF Base, TypeOK, JobInv, CallInv, vars, callVars, jobVars, workerVars
<1>. QED
  BY <1>1, BaseArrive, BaseProceed, BaseJob, BaseEnvironment DEF Next

LEMMA BaseCorrect == Spec => []Base
  BY BaseInit, BaseStep, PTL DEF Spec

\* Every row, job, call and worker keeps to its states, and River starts no
\* job more than MaxAttempts times.
THEOREM TypeCorrect == Spec => []TypeOK
<1>1. Base => TypeOK
  BY DEF Base
<1>. QED BY <1>1, BaseCorrect, PTL

-----------------------------------------------------------------------------
(* Answers.                                                                *)

AnswerInv ==
  /\ AnswerIsSameWork
  /\ \A c \in Calls : pc[c] = "insert" => task[c] # "absent"

\* Rows are never deleted, so a task that was answered stays there to be watched.
LEMMA RowsStay ==
  ASSUME Base, [Next]_vars
  PROVE  \A d \in Calls : task[d] # "absent" => task'[d] # "absent"
<1>1. ASSUME NEW c \in Calls, Arrive(c) \/ Proceed(c) \/ Environment(c)
      PROVE  \A d \in Calls : task[d] # "absent" => task'[d] # "absent"
  BY <1>1 DEF Base, TypeOK, SetStatus, Arrive, Create, CreateRefused, CreateFails,
              CreateReplyLost, Proceed, FindActiveByDedupKey, FindNothing, FindFails,
              Insert, InsertFails, InsertReplyLost, Settle, SettleFails, Environment,
              CancelRequest, CallerCrashes, CancelJob, WorkerCrashes
<1>2. ASSUME NEW c \in Calls, Fetch(c) \/ Attempt(c) \/ Rescue(c)
      PROVE  \A d \in Calls : task[d] # "absent" => task'[d] # "absent"
  BY <1>2 DEF Base, TypeOK, SetStatus, Fetch, Attempt, MarkRunning, MarkFails,
              MarkReplyLost, Operate, Finish, FinishFails, JobReturns, Rescue
<1>. QED BY <1>1, <1>2 DEF Next, vars

LEMMA AnswerStep == Base /\ AnswerInv /\ [Next]_vars => AnswerInv'
<1>. SUFFICES ASSUME Base, AnswerInv, [Next]_vars PROVE AnswerInv'
  OBVIOUS
<1>. USE RowsStay, CallsAssumption DEF Base, TypeOK, AnswerInv, AnswerIsSameWork, NoTask
<1>1. ASSUME NEW c \in Calls, FindActiveByDedupKey(c) PROVE AnswerInv'
  BY <1>1 DEF FindActiveByDedupKey, Rivals, Active, Return
<1>2. ASSUME NEW c \in Calls, Arrive(c) PROVE AnswerInv'
  BY <1>2 DEF Arrive, Create, CreateRefused, CreateFails, CreateReplyLost, SetStatus, Goto,
              Return
<1>3. ASSUME NEW c \in Calls,
             \/ FindNothing(c) \/ FindFails(c) \/ Insert(c) \/ InsertFails(c)
             \/ InsertReplyLost(c) \/ Settle(c) \/ SettleFails(c) \/ Environment(c)
      PROVE  AnswerInv'
  BY <1>3 DEF FindNothing, FindFails, Insert, InsertFails, InsertReplyLost, Settle,
              SettleFails, Environment, CancelRequest, CallerCrashes, CancelJob,
              WorkerCrashes, Goto, Return, callVars
<1>4. ASSUME NEW c \in Calls, Fetch(c) \/ Attempt(c) \/ Rescue(c) PROVE AnswerInv'
  <2>1. UNCHANGED callVars
    BY <1>4 DEF Fetch, Attempt, MarkRunning, MarkFails, MarkReplyLost, Operate, Finish,
                FinishFails, JobReturns, Rescue, Continue
  <2>. QED BY <2>1 DEF callVars
<1>5. CASE UNCHANGED vars
  BY <1>5 DEF vars, callVars
<1>. QED BY <1>1, <1>2, <1>3, <1>4, <1>5 DEF Next, Proceed

\* Under every fault, the task enqueue answers with is a row of the same user
\* and dedup_key, and it is still there to be watched.
THEOREM AnswerCorrect == Spec => []AnswerIsSameWork
<1>1. Init => AnswerInv
  BY CallsAssumption DEF Init, AnswerInv, AnswerIsSameWork, NoTask
<1>2. AnswerInv => AnswerIsSameWork
  BY DEF AnswerInv
<1>. QED BY <1>1, <1>2, AnswerStep, BaseCorrect, PTL DEF Spec

-----------------------------------------------------------------------------
(* Exclusion.  The unique index keeps the active rows of a piece of work   *)
(* apart; what has to be shown is that a row stays running for as long as  *)
(* its operation runs.  The one statement that could settle it from        *)
(* outside is enqueue's Finish after a failed Insert, which is harmless    *)
(* because a failed Insert leaves no job, unless River's reply was lost.   *)

NoLostInsert == "lost_insert" \notin Faults

IndexInv ==
  \A c, d \in Calls :
    c # d /\ WorkOf[c] = WorkOf[d] => ~(Active(c) /\ Active(d))

ExecutingInv ==
  \A c \in Calls : wpc[c] \in {"operate", "finish"} => task[c] = "running"

UninsertedInv ==
  \A c \in Calls : pc[c] = "settle" \/ answer[c] = "error" => job[c] = "none"

LockInv == IndexInv /\ ExecutingInv /\ UninsertedInv

LEMMA LockInit == Init => LockInv
  BY DEF Init, LockInv, IndexInv, ExecutingInv, UninsertedInv, Active

\* A row may become active whenever it has no rival.
LEMMA IndexKept ==
  ASSUME Base, IndexInv, NEW c \in Calls, NEW s, SetStatus(c, s),
         Rivals(c) = {} \/ Active(c) \/ s \notin {"pending", "running"}
  PROVE  IndexInv'
  BY DEF Base, TypeOK, IndexInv, Active, SetStatus, Rivals

LEMMA LockArrive ==
  ASSUME Base, LockInv, NEW c \in Calls, Arrive(c)
  PROVE  LockInv'
<1>1. IndexInv'
  <2>1. CASE Create(c) \/ CreateReplyLost(c)
    BY <2>1, IndexKept DEF LockInv, Create, CreateReplyLost
  <2>2. CASE CreateRefused(c) \/ CreateFails(c)
    BY <2>2 DEF LockInv, IndexInv, Active, CreateRefused, CreateFails
  <2>. QED BY <2>1, <2>2 DEF Arrive
<1>2. ExecutingInv'
  BY DEF Base, TypeOK, JobInv, CallInv, LockInv, ExecutingInv, Arrive, Create,
         CreateRefused, CreateFails, CreateReplyLost, SetStatus, workerVars
<1>3. UninsertedInv'
  BY DEF Base, TypeOK, CallInv, LockInv, UninsertedInv, Arrive, Create, CreateRefused,
         CreateFails, CreateReplyLost, Goto, Return, jobVars
<1>. QED BY <1>1, <1>2, <1>3 DEF LockInv

LEMMA LockProceed ==
  ASSUME NoLostInsert, Base, LockInv, NEW c \in Calls, Proceed(c)
  PROVE  LockInv'
<1>1. CASE Settle(c)
  <2>1. wpc[c] = "idle"
    BY <1>1 DEF Base, JobInv, LockInv, UninsertedInv, Settle
  <2>2. IndexInv'
    BY <1>1, IndexKept DEF LockInv, Settle
  <2>. QED
    BY <1>1, <2>1, <2>2 DEF Base, TypeOK, LockInv, ExecutingInv, UninsertedInv, Settle,
                           SetStatus, Return, jobVars, workerVars
<1>2. CASE FindActiveByDedupKey(c)
  BY <1>2, CallsAssumption
     DEF Base, TypeOK, LockInv, IndexInv, ExecutingInv, UninsertedInv, Active, Rivals,
         NoTask, FindActiveByDedupKey, Return, jobVars, workerVars
<1>3. CASE Insert(c)
  BY <1>3, CallsAssumption
     DEF Base, TypeOK, CallInv, LockInv, IndexInv, ExecutingInv, UninsertedInv, Active,
         NoTask, Insert, Return, workerVars
<1>4. CASE FindNothing(c) \/ FindFails(c) \/ InsertFails(c) \/ SettleFails(c)
  BY <1>4 DEF Base, TypeOK, CallInv, LockInv, IndexInv, ExecutingInv, UninsertedInv,
              Active, FindNothing, FindFails, InsertFails, SettleFails, Goto, Return,
              jobVars, workerVars
<1>. QED
  BY <1>1, <1>2, <1>3, <1>4 DEF Proceed, InsertReplyLost, NoLostInsert

LEMMA LockJob ==
  ASSUME Base, LockInv, NEW c \in Calls, Fetch(c) \/ Attempt(c) \/ Rescue(c)
  PROVE  LockInv'
<1>1. IndexInv'
  <2>1. CASE MarkRunning(c) \/ MarkReplyLost(c)
    BY <2>1, IndexKept DEF LockInv, MarkRunning, MarkReplyLost
  <2>2. CASE Finish(c)
    BY <2>2, IndexKept DEF LockInv, Finish
  <2>3. CASE \/ Fetch(c) \/ MarkFails(c) \/ Operate(c) \/ FinishFails(c)
             \/ JobReturns(c) \/ Rescue(c)
    BY <2>3 DEF LockInv, IndexInv, Active, Fetch, MarkFails, Operate, FinishFails,
                JobReturns, Rescue
  <2>. QED BY <2>1, <2>2, <2>3 DEF Attempt
<1>2. ExecutingInv'
  BY DEF Base, TypeOK, LockInv, ExecutingInv, Attempt, Fetch, MarkRunning, MarkFails,
         MarkReplyLost, Operate, Finish, FinishFails, JobReturns, Rescue, SetStatus,
         Continue
<1>3. UninsertedInv'
  BY DEF Base, TypeOK, JobInv, LockInv, UninsertedInv, Attempt, Fetch, MarkRunning,
         MarkFails, MarkReplyLost, Operate, Finish, FinishFails, JobReturns, Rescue,
         Continue, callVars, jobVars
<1>. QED BY <1>1, <1>2, <1>3 DEF LockInv

LEMMA LockEnvironment ==
  ASSUME Base, LockInv, NEW c \in Calls, Environment(c)
  PROVE  LockInv'
  BY DEF Base, TypeOK, CallInv, LockInv, IndexInv, ExecutingInv, UninsertedInv, Active,
         Environment, CancelRequest, CallerCrashes, CancelJob, WorkerCrashes, Return,
         callVars, jobVars, workerVars

LEMMA LockStep == ASSUME NoLostInsert PROVE Base /\ LockInv /\ [Next]_vars => LockInv'
<1>1. ASSUME LockInv, UNCHANGED vars PROVE LockInv'
  BY <1>1 DEF LockInv, IndexInv, ExecutingInv, UninsertedInv, Active, vars, callVars,
              jobVars, workerVars
<1>. QED
  BY <1>1, LockArrive, LockProceed, LockJob, LockEnvironment DEF Next

LEMMA LockCorrect == ASSUME NoLostInsert PROVE Spec => [](Base /\ LockInv)
  BY LockInit, LockStep, BaseCorrect, PTL DEF Spec

\* No piece of work is carried out twice at a time, however many requests,
\* retries, crashes, cancelled contexts and failing statements there are,
\* provided that an Insert that reports an error has not queued the job.
THEOREM Exclusion == ASSUME NoLostInsert PROVE Spec => []WorkExclusive
<1>1. Base /\ LockInv => WorkExclusive
  BY DEF Base, LockInv, IndexInv, ExecutingInv, Active, WorkExclusive, Operating
<1>. QED BY <1>1, LockCorrect, PTL

\* Under the same proviso a caller who was told that the request failed has
\* no job in the queue.
THEOREM Refusal == ASSUME NoLostInsert PROVE Spec => []RefusedNeverRuns
<1>1. LockInv => RefusedNeverRuns
  BY DEF LockInv, UninsertedInv, RefusedNeverRuns
<1>. QED BY <1>1, LockCorrect, PTL

-----------------------------------------------------------------------------
(* Success is final as long as no process dies between Finish and River's  *)
(* own record of the job's completion.                                     *)

NoCrash == "crash" \notin Faults

SucceededInv ==
  \A c \in Calls :
    /\ wpc[c] # "lost"
    /\ task[c] = "succeeded" =>
         job[c] = "completed" \/ (wpc[c] = "return" /\ opErr[c] = "nil")

LEMMA SucceededInit == Init => SucceededInv
  BY DEF Init, SucceededInv

LEMMA SucceededCall ==
  ASSUME NoLostInsert, NoCrash, Base, LockInv, SucceededInv, NEW c \in Calls,
         Arrive(c) \/ Proceed(c) \/ Environment(c)
  PROVE  /\ SucceededInv'
         /\ \A d \in Calls : task[d] = "succeeded" => task'[d] = "succeeded"
<1>. USE DEF Base, TypeOK, JobInv, CallInv, LockInv, UninsertedInv, SucceededInv, callVars,
             jobVars, workerVars, SetStatus, Goto, Return
<1>1. CASE Arrive(c)
  BY <1>1 DEF Arrive, Create, CreateRefused, CreateFails, CreateReplyLost
<1>2. CASE Proceed(c)
  BY <1>2 DEF NoLostInsert, Proceed, FindActiveByDedupKey, FindNothing, FindFails, Insert,
              InsertFails, InsertReplyLost, Settle, SettleFails
<1>3. CASE Environment(c)
  BY <1>3 DEF NoCrash, Environment, CancelRequest, CallerCrashes, CancelJob, WorkerCrashes
<1>. QED BY <1>1, <1>2, <1>3

LEMMA SucceededJob ==
  ASSUME Base, LockInv, SucceededInv, NEW c \in Calls, Fetch(c) \/ Attempt(c) \/ Rescue(c)
  PROVE  /\ SucceededInv'
         /\ \A d \in Calls : task[d] = "succeeded" => task'[d] = "succeeded"
  BY DEF Base, TypeOK, JobInv, LockInv, ExecutingInv, SucceededInv, Attempt, Fetch,
         MarkRunning, MarkFails, MarkReplyLost, Operate, Finish, FinishFails, JobReturns,
         Rescue, RetryOrDiscard, SetStatus, Continue, callVars, jobVars

LEMMA SucceededStep ==
  ASSUME NoLostInsert, NoCrash
  PROVE  Base /\ LockInv /\ SucceededInv /\ [Next]_vars =>
           /\ SucceededInv'
           /\ \A d \in Calls : task[d] = "succeeded" => task'[d] = "succeeded"
<1>1. ASSUME SucceededInv, UNCHANGED vars
      PROVE  /\ SucceededInv'
             /\ \A d \in Calls : task[d] = "succeeded" => task'[d] = "succeeded"
  BY <1>1 DEF SucceededInv, vars, jobVars, workerVars
<1>. QED BY <1>1, SucceededCall, SucceededJob DEF Next

\* A task that has succeeded is never touched again: no retry and no late
\* enqueue reopens it, whatever statements fail and contexts are cancelled.
THEOREM SuccessKept == ASSUME NoLostInsert, NoCrash PROVE Spec => SuccessIsFinal
<1>1. Spec => []SucceededInv
  BY SucceededInit, SucceededStep, LockCorrect, PTL DEF Spec
<1>2. Base /\ LockInv /\ SucceededInv /\ [Next]_vars =>
        [\A c \in Calls : task[c] = "succeeded" => task'[c] = "succeeded"]_vars
  BY SucceededStep
<1>. QED BY <1>1, <1>2, LockCorrect, PTL DEF Spec, SuccessIsFinal

-----------------------------------------------------------------------------
(* Who moves an active row on.  If statements do not fail and no context   *)
(* ends, an attempt leaves its row settled: Finish settles it, and a       *)
(* MarkRunning the index refuses has a rival, whose row is the active one. *)
(* River may still refuse jobs, or take one and lose the reply.  Each      *)
(* other kind of fault leaves an active row that nobody drives.            *)

OnlyInsertFails == Faults \subseteq {"insert_error", "lost_insert"}

DrivenInv ==
  /\ IndexInv
  /\ ActiveIsDriven
  /\ \A c \in Calls :
       /\ reqCtx[c] = "live" /\ jobCtx[c] = "live"
       /\ wpc[c] # "lost"
       /\ wpc[c] = "return" => ~Active(c)

LEMMA DrivenInit == Init => DrivenInv
  BY DEF Init, DrivenInv, IndexInv, ActiveIsDriven, Active

LEMMA DrivenCall ==
  ASSUME OnlyInsertFails, Base, DrivenInv, NEW c \in Calls,
         Arrive(c) \/ Proceed(c) \/ Environment(c)
  PROVE  DrivenInv'
<1>. USE DEF Base, TypeOK, JobInv, CallInv, DrivenInv, ActiveIsDriven, Active, OnlyInsertFails,
             RequestStatementFails
<1>1. CASE Create(c)
  <2>1. IndexInv'
    BY <1>1, IndexKept DEF Create
  <2>2. ActiveIsDriven'
    BY <1>1 DEF Create, SetStatus, Goto, jobVars
  <2>. QED BY <1>1, <2>1, <2>2 DEF Create, SetStatus, Goto, jobVars, workerVars
<1>2. CASE Settle(c)
  <2>1. IndexInv'
    BY <1>2, IndexKept DEF Settle
  <2>2. ActiveIsDriven'
    BY <1>2 DEF Settle, SetStatus, Return, jobVars
  <2>. QED BY <1>2, <2>1, <2>2 DEF Settle, SetStatus, Return, jobVars, workerVars
<1>3. CASE Insert(c) \/ InsertFails(c) \/ InsertReplyLost(c)
  BY <1>3 DEF IndexInv, Insert, InsertFails, InsertReplyLost, Goto, Return, jobVars, workerVars
<1>4. CASE CreateRefused(c) \/ FindActiveByDedupKey(c) \/ FindNothing(c)
  BY <1>4 DEF IndexInv, CreateRefused, FindActiveByDedupKey, FindNothing, Goto, Return,
              jobVars, workerVars
<1>. QED
  BY <1>1, <1>2, <1>3, <1>4
     DEF Arrive, Proceed, Environment, CreateFails, CreateReplyLost, FindFails, SettleFails,
         CancelRequest, CallerCrashes, CancelJob, WorkerCrashes

LEMMA DrivenJob ==
  ASSUME OnlyInsertFails, Base, DrivenInv, NEW c \in Calls,
         Fetch(c) \/ Attempt(c) \/ Rescue(c)
  PROVE  DrivenInv'
<1>. USE DEF Base, TypeOK, JobInv, DrivenInv, ActiveIsDriven, Active, OnlyInsertFails,
             JobStatementFails
<1>1. CASE MarkRunning(c)
  <2>1. IndexInv'
    BY <1>1, IndexKept DEF MarkRunning
  <2>2. ActiveIsDriven'
    BY <1>1 DEF MarkRunning, SetStatus, Continue, callVars, jobVars
  <2>. QED BY <1>1, <2>1, <2>2 DEF MarkRunning, SetStatus, Continue, callVars, jobVars
<1>2. CASE Finish(c)
  <2>1. IndexInv'
    BY <1>2, IndexKept DEF Finish
  <2>2. ActiveIsDriven'
    BY <1>2 DEF Finish, SetStatus, Continue, callVars, jobVars
  <2>. QED BY <1>2, <2>1, <2>2 DEF Finish, SetStatus, Continue, callVars, jobVars
<1>3. CASE MarkFails(c)
  <2>1. ~Active(c)
    BY <1>3 DEF MarkFails, IndexInv, Rivals
  <2>. QED BY <1>3, <2>1 DEF MarkFails, IndexInv, Continue, callVars, jobVars
<1>4. CASE JobReturns(c)
  BY <1>4 DEF JobReturns, IndexInv, RetryOrDiscard, callVars
<1>5. CASE Fetch(c)
  BY <1>5 DEF Fetch, IndexInv, callVars
<1>6. CASE Operate(c)
  BY <1>6 DEF Operate, IndexInv, Continue, callVars, jobVars
<1>. QED
  BY <1>1, <1>2, <1>3, <1>4, <1>5, <1>6
     DEF Attempt, MarkReplyLost, FinishFails, Rescue

\* A pending or running task always has somebody who moves it on, as long as
\* the only thing that goes wrong is that River refuses a job, or takes it
\* and loses the reply: enqueue settles the row, or a job drives it.
THEOREM Driven == ASSUME OnlyInsertFails PROVE Spec => []ActiveIsDriven
<1>1. Base /\ DrivenInv /\ [Next]_vars => DrivenInv'
  <2>1. ASSUME DrivenInv, UNCHANGED vars PROVE DrivenInv'
    BY <2>1 DEF DrivenInv, IndexInv, ActiveIsDriven, Active, vars, callVars, jobVars,
                workerVars
  <2>. QED BY <2>1, DrivenCall, DrivenJob DEF Next
<1>2. DrivenInv => ActiveIsDriven
  BY DEF DrivenInv
<1>. QED BY <1>1, <1>2, DrivenInit, BaseCorrect, PTL DEF Spec

-----------------------------------------------------------------------------
(* Refinement of WorkLock.                                                 *)

\* A step that keeps every row on its side of the index and starts or ends no
\* operation leaves the lock alone.
LEMMA LockStutters ==
  ASSUME \A d \in Calls : Active(d)' <=> Active(d), Operating' = Operating
  PROVE  UNCHANGED Lock!lvars
  BY DEF Lock!lvars

\* Whoever carries work out holds it, alone.
LEMMA BusyHolds ==
  ASSUME Base, LockInv, NEW c \in Calls, Active(c)
  PROVE  \A d \in Operating : WorkOf[c] = WorkOf[d] => c = d
  BY DEF LockInv, IndexInv, ExecutingInv, Active, Operating

LEMMA MapsToAcquire ==
  ASSUME NEW c \in Calls, Rivals(c) = {}, ~Active(c), Active(c)',
         \A d \in Calls \ {c} : Active(d)' <=> Active(d), Operating' = Operating
  PROVE  Lock!Acquire(c)
  BY CallsAssumption DEF Lock!Acquire, Rivals

LEMMA MapsToBegin ==
  ASSUME Base, LockInv, NEW c \in Calls, Rivals(c) = {}, wpc[c] # "operate", Active(c)',
         \A d \in Calls \ {c} : Active(d)' <=> Active(d), Operating' = Operating \cup {c}
  PROVE  Lock!Begin(c)
<1>1. \A d \in Operating : WorkOf[d] # WorkOf[c]
  BY DEF LockInv, ExecutingInv, Active, Operating, Rivals
<1>. QED BY <1>1, CallsAssumption DEF Lock!Begin, Rivals

LEMMA MapsToEnd ==
  ASSUME Base, LockInv, NEW c \in Operating, c \in Calls,
         \A d \in Calls : Active(d)' <=> Active(d), Operating' = Operating \ {c}
  PROVE  Lock!End(c)
<1>1. \A d \in Operating : WorkOf[d] = WorkOf[c] => c = d
  BY BusyHolds DEF LockInv, ExecutingInv, Active, Operating
<1>. QED BY <1>1, CallsAssumption DEF Lock!End

LEMMA MapsToRelease ==
  ASSUME Base, LockInv, NEW c \in Calls, wpc[c] # "operate", Active(c), ~Active(c)',
         \A d \in Calls \ {c} : Active(d)' <=> Active(d), Operating' = Operating
  PROVE  Lock!Release(c)
<1>1. \A d \in Operating : WorkOf[d] # WorkOf[c]
  BY BusyHolds DEF Operating
<1>2. \A d \in Calls : d # c /\ WorkOf[d] = WorkOf[c] => ~Active(d)
  BY DEF LockInv, IndexInv
<1>. QED BY <1>1, <1>2, CallsAssumption DEF Lock!Release

LEMMA LockSimulation ==
  ASSUME NoLostInsert, Base, LockInv, NEW c \in Calls,
         \/ Arrive(c) \/ Proceed(c) \/ Fetch(c) \/ Attempt(c) \/ Rescue(c)
         \/ Environment(c)
  PROVE  [Lock!LockNext]_(Lock!lvars)
<1>. USE DEF Base, TypeOK, JobInv, CallInv, Active, SetStatus
<1>1. CASE Create(c) \/ CreateReplyLost(c)
  <2>1. Lock!Acquire(c)
    BY <1>1, MapsToAcquire DEF Create, CreateReplyLost, Operating, workerVars
  <2>. QED BY <2>1 DEF Lock!LockNext
<1>2. CASE MarkReplyLost(c)
  <2>1. CASE Active(c)
    BY <1>2, <2>1, LockStutters DEF MarkReplyLost, Continue, Operating
  <2>2. CASE ~Active(c)
    <3>1. Lock!Acquire(c)
      BY <1>2, <2>2, MapsToAcquire DEF MarkReplyLost, Continue, Operating
    <3>. QED BY <3>1 DEF Lock!LockNext
  <2>. QED BY <2>1, <2>2
<1>3. CASE MarkRunning(c)
  <2>1. Lock!Begin(c)
    BY <1>3, MapsToBegin DEF MarkRunning, Continue, Operating
  <2>. QED BY <2>1 DEF Lock!LockNext
<1>4. CASE Operate(c) \/ (WorkerCrashes(c) /\ wpc[c] = "operate")
  <2>1. Lock!End(c)
    BY <1>4, MapsToEnd DEF Operate, WorkerCrashes, Continue, Operating
  <2>. QED BY <2>1 DEF Lock!LockNext
<1>5. CASE Finish(c)
  <2>1. Lock!Release(c)
    BY <1>5, MapsToRelease DEF LockInv, ExecutingInv, Finish, Continue, Operating
  <2>. QED BY <2>1 DEF Lock!LockNext
<1>6. CASE Settle(c)
  <2>1. CASE ~Active(c)
    BY <1>6, <2>1, LockStutters DEF Settle, Operating, workerVars
  <2>2. CASE Active(c)
    <3>1. wpc[c] # "operate"
      BY <1>6 DEF LockInv, UninsertedInv, Settle
    <3>2. Lock!Release(c)
      BY <1>6, <2>2, <3>1, MapsToRelease DEF Settle, Operating, workerVars
    <3>. QED BY <3>2 DEF Lock!LockNext
  <2>. QED BY <2>1, <2>2
<1>7. CASE \/ CreateRefused(c) \/ CreateFails(c) \/ FindActiveByDedupKey(c)
           \/ FindNothing(c) \/ FindFails(c) \/ Insert(c) \/ InsertFails(c)
           \/ SettleFails(c) \/ CancelRequest(c) \/ CallerCrashes(c)
  BY <1>7, LockStutters
     DEF CreateRefused, CreateFails, FindActiveByDedupKey, FindNothing, FindFails, Insert,
         InsertFails, SettleFails, CancelRequest, CallerCrashes, Operating, workerVars
<1>8. CASE \/ Fetch(c) \/ MarkFails(c) \/ FinishFails(c) \/ JobReturns(c) \/ Rescue(c)
           \/ CancelJob(c) \/ (WorkerCrashes(c) /\ wpc[c] # "operate")
  BY <1>8, LockStutters
     DEF Fetch, MarkFails, FinishFails, JobReturns, Rescue, CancelJob, WorkerCrashes,
         Continue, Operating
<1>. QED
  BY <1>1, <1>2, <1>3, <1>4, <1>5, <1>6, <1>7, <1>8
     DEF Arrive, Proceed, Attempt, Environment, NoLostInsert, InsertReplyLost

\* Every step of the queue is a step of the lock or leaves it alone.
THEOREM LockRefined == ASSUME NoLostInsert PROVE Spec => ImplementsLock
<1>1. Init => Lock!LockInit
  BY DEF Init, Lock!LockInit, Active, Operating
<1>2. Base /\ LockInv /\ [Next]_vars => [Lock!LockNext]_(Lock!lvars)
  <2>1. ASSUME UNCHANGED vars PROVE UNCHANGED Lock!lvars
    BY <2>1, LockStutters DEF vars, workerVars, Active, Operating
  <2>. QED BY <2>1, LockSimulation DEF Next
<1>. QED BY <1>1, <1>2, LockCorrect, PTL DEF Spec, ImplementsLock, Lock!LockSpec

=============================================================================
