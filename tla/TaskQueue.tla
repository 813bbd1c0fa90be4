----------------------------- MODULE TaskQueue -----------------------------
(***************************************************************************)
(* The life of a user's background task: the tasks table, the enqueue      *)
(* operation of internal/infra/jobs/queue.go that writes to it, the River  *)
(* job behind the task, and the run function of internal/infra/jobs/jobs.go*)
(* that a worker executes for each attempt of that job.                    *)
(*                                                                         *)
(* Every call of enqueue draws a fresh task id (uuid.New), and River gets  *)
(* at most one job per task, so one constant set, Calls, names the calls,  *)
(* the task rows and the jobs.  WorkOf gives the (clerk_user_id,           *)
(* dedup_key) pair a call is made for.  Each SQL statement is one action,  *)
(* because the code runs none of them in a common transaction.             *)
(***************************************************************************)
EXTENDS Naturals, FiniteSets

CONSTANTS
  Calls,        \* calls of EnqueueRefresh and EnqueueRevoke, one task id each
  Works,        \* pairs (clerk_user_id, dedup_key)
  WorkOf,       \* the pair each call is made for
  MaxAttempts,  \* how often River tries a job before it discards it
  MaxWorkers,   \* jobs a serve process runs at once
  Faults        \* the kinds of failure the environment may inject

(***************************************************************************)
(* What can go wrong around the code:                                      *)
(*   request_ctx   the HTTP request ends (five second timeout, client      *)
(*                 gone) and its context is cancelled                      *)
(*   job_ctx       River cancels a job's context (job timeout, shutdown)   *)
(*   db_error      a statement fails without taking effect                 *)
(*   insert_error  River refuses the job, the tasks table still answers    *)
(*   lost_reply    Create or MarkRunning takes effect and yet reports an   *)
(*                 error                                                   *)
(*   lost_insert   the same for River's Insert                             *)
(*   crash         the process dies                                        *)
(***************************************************************************)
FaultKinds == {"request_ctx", "job_ctx", "db_error", "insert_error",
               "lost_reply", "lost_insert", "crash"}

\* What a call can return besides a task: nothing yet, ErrTaskNotFound, or
\* any other error.
NoTask == {"none", "not_found", "error"}

ASSUME CallsAssumption ==
  /\ WorkOf \in [Calls -> Works]
  /\ Calls \cap NoTask = {}
ASSUME BoundsAssumption ==
  /\ MaxAttempts \in Nat \ {0}
  /\ MaxWorkers \in Nat \ {0}
ASSUME FaultsAssumption == Faults \subseteq FaultKinds

VARIABLES
  task,     \* status column of the task row; "absent" before it is created
  pc,       \* statement of enqueue each call is about to run
  answer,   \* what enqueue returned
  reqCtx,   \* the context enqueue runs under
  job,      \* River's state of the job
  attempt,  \* attempts River has started
  wpc,      \* statement of run the job's worker is about to execute
  opErr,    \* the error the attempt has to return
  jobCtx    \* the context the attempt runs under

callVars == <<pc, answer, reqCtx>>
jobVars == <<job, attempt>>
workerVars == <<wpc, opErr, jobCtx>>
vars == <<task, callVars, jobVars, workerVars>>

TypeOK ==
  /\ task \in [Calls -> {"absent", "pending", "running", "succeeded", "failed"}]
  /\ pc \in [Calls -> {"create", "find", "insert", "settle", "returned"}]
  /\ answer \in [Calls -> Calls \cup NoTask]
  /\ reqCtx \in [Calls -> {"live", "cancelled"}]
  /\ job \in [Calls -> {"none", "available", "working", "completed", "discarded"}]
  /\ attempt \in [Calls -> 0..MaxAttempts]
  /\ wpc \in [Calls -> {"idle", "mark", "operate", "finish", "return", "lost"}]
  /\ opErr \in [Calls -> {"nil", "error"}]
  /\ jobCtx \in [Calls -> {"live", "cancelled"}]

Init ==
  /\ task = [c \in Calls |-> "absent"]
  /\ pc = [c \in Calls |-> "create"]
  /\ answer = [c \in Calls |-> "none"]
  /\ reqCtx = [c \in Calls |-> "live"]
  /\ job = [c \in Calls |-> "none"]
  /\ attempt = [c \in Calls |-> 0]
  /\ wpc = [c \in Calls |-> "idle"]
  /\ opErr = [c \in Calls |-> "nil"]
  /\ jobCtx = [c \in Calls |-> "live"]

-----------------------------------------------------------------------------
(* The table.                                                              *)

Active(c) == task[c] \in {"pending", "running"}

\* Slip: an index WHERE status = 'pending', forgetting running tasks.
RivalsPendingOnly(c) ==
  {d \in Calls \ {c} : WorkOf[d] = WorkOf[c] /\ task[d] = "pending"}

\* The other rows of the partial unique index idx_tasks_active_dedup with the
\* user and dedup key of c.
Rivals(c) == {d \in Calls \ {c} : WorkOf[d] = WorkOf[c] /\ Active(d)}

SetStatus(c, s) == task' = [task EXCEPT ![c] = s]

\* A statement issued under a cancelled context fails; any statement may fail.
RequestStatementFails(c) == reqCtx[c] = "cancelled" \/ "db_error" \in Faults
JobStatementFails(c) == jobCtx[c] = "cancelled" \/ "db_error" \in Faults

-----------------------------------------------------------------------------
(* enqueue: Create, then FindActiveByDedupKey or Insert, then perhaps      *)
(* Finish, all under the caller's context.                                 *)

Goto(c, l) == pc' = [pc EXCEPT ![c] = l] /\ UNCHANGED <<answer, reqCtx>>

Return(c, a) ==
  /\ pc' = [pc EXCEPT ![c] = "returned"]
  /\ answer' = [answer EXCEPT ![c] = a]
  /\ UNCHANGED reqCtx

\* Slip: a lookup followed by an insert instead of a unique index, so two
\* calls may both find nothing.
CreateUnchecked(c) ==
  /\ pc[c] = "create" /\ reqCtx[c] = "live"
  /\ SetStatus(c, "pending")
  /\ Goto(c, "insert")
  /\ UNCHANGED <<jobVars, workerVars>>

Create(c) ==
  /\ pc[c] = "create" /\ reqCtx[c] = "live"
  /\ Rivals(c) = {}
  /\ SetStatus(c, "pending")
  /\ Goto(c, "insert")
  /\ UNCHANGED <<jobVars, workerVars>>

\* The unique index refuses the row: ErrTaskAlreadyRunning.
CreateRefused(c) ==
  /\ pc[c] = "create" /\ reqCtx[c] = "live"
  /\ Rivals(c) # {}
  /\ Goto(c, "find")
  /\ UNCHANGED <<task, jobVars, workerVars>>

CreateFails(c) ==
  /\ pc[c] = "create" /\ RequestStatementFails(c)
  /\ Return(c, "error")
  /\ UNCHANGED <<task, jobVars, workerVars>>

CreateReplyLost(c) ==
  /\ pc[c] = "create" /\ "lost_reply" \in Faults
  /\ Rivals(c) = {}
  /\ SetStatus(c, "pending")
  /\ Return(c, "error")
  /\ UNCHANGED <<jobVars, workerVars>>

\* Slip: the lookup forgets the user and the dedup_key.
FindAnyActive(c) ==
  /\ pc[c] = "find" /\ reqCtx[c] = "live"
  /\ \E d \in Calls \ {c} : Active(d) /\ Return(c, d)
  /\ UNCHANGED <<task, jobVars, workerVars>>

FindActiveByDedupKey(c) ==
  /\ pc[c] = "find" /\ reqCtx[c] = "live"
  /\ \E d \in Rivals(c) : Return(c, d)
  /\ UNCHANGED <<task, jobVars, workerVars>>

\* The rival settled between the two statements.
FindNothing(c) ==
  /\ pc[c] = "find" /\ reqCtx[c] = "live"
  /\ Rivals(c) = {}
  /\ Return(c, "not_found")
  /\ UNCHANGED <<task, jobVars, workerVars>>

FindFails(c) ==
  /\ pc[c] = "find" /\ RequestStatementFails(c)
  /\ Return(c, "error")
  /\ UNCHANGED <<task, jobVars, workerVars>>

Insert(c) ==
  /\ pc[c] = "insert" /\ reqCtx[c] = "live"
  /\ job' = [job EXCEPT ![c] = "available"]
  /\ Return(c, c)
  /\ UNCHANGED <<task, attempt, workerVars>>

\* Slip: a failed Insert is returned at once, without settling the task.
InsertFailsUnsettled(c) ==
  /\ pc[c] = "insert"
  /\ RequestStatementFails(c) \/ "insert_error" \in Faults
  /\ Return(c, "error")
  /\ UNCHANGED <<task, jobVars, workerVars>>

\* Slip: Insert is given up on after a timeout although the job is in.
InsertGivenUp(c) ==
  /\ pc[c] = "insert"
  /\ RequestStatementFails(c) \/ "insert_error" \in Faults
  /\ job' = [job EXCEPT ![c] = "available"]
  /\ Goto(c, "settle")
  /\ UNCHANGED <<task, attempt, workerVars>>

InsertFails(c) ==
  /\ pc[c] = "insert"
  /\ RequestStatementFails(c) \/ "insert_error" \in Faults
  /\ Goto(c, "settle")
  /\ UNCHANGED <<task, jobVars, workerVars>>

InsertReplyLost(c) ==
  /\ pc[c] = "insert" /\ "lost_insert" \in Faults
  /\ job' = [job EXCEPT ![c] = "available"]
  /\ Goto(c, "settle")
  /\ UNCHANGED <<task, attempt, workerVars>>

\* Finish after a failed Insert.
Settle(c) ==
  /\ pc[c] = "settle" /\ reqCtx[c] = "live"
  /\ SetStatus(c, "failed")
  /\ Return(c, "error")
  /\ UNCHANGED <<jobVars, workerVars>>

\* The error of that Finish is discarded.
SettleFails(c) ==
  /\ pc[c] = "settle" /\ RequestStatementFails(c)
  /\ Return(c, "error")
  /\ UNCHANGED <<task, jobVars, workerVars>>

-----------------------------------------------------------------------------
(* River and run: a job is fetched, its task marked running, the operation *)
(* carried out, the task finished, and the error returned to River.        *)

Occupied == {c \in Calls : wpc[c] \notin {"idle", "lost"}}

Fetch(c) ==
  /\ job[c] = "available"
  /\ Cardinality(Occupied) < MaxWorkers
  /\ job' = [job EXCEPT ![c] = "working"]
  /\ attempt' = [attempt EXCEPT ![c] = @ + 1]
  /\ wpc' = [wpc EXCEPT ![c] = "mark"]
  /\ jobCtx' = [jobCtx EXCEPT ![c] = "live"]
  /\ UNCHANGED <<task, callVars, opErr>>

Continue(c, l, e) ==
  /\ wpc' = [wpc EXCEPT ![c] = l]
  /\ opErr' = [opErr EXCEPT ![c] = e]
  /\ UNCHANGED <<jobCtx, callVars, jobVars>>

MarkRunning(c) ==
  /\ wpc[c] = "mark" /\ jobCtx[c] = "live"
  /\ Rivals(c) = {}
  /\ SetStatus(c, "running")
  /\ Continue(c, "operate", "nil")

\* The unique index refuses the update, or the statement fails: the attempt
\* ends without running the operation.
MarkFails(c) ==
  /\ wpc[c] = "mark"
  /\ (jobCtx[c] = "live" /\ Rivals(c) # {}) \/ JobStatementFails(c)
  /\ Continue(c, "return", "error")
  /\ UNCHANGED task

MarkReplyLost(c) ==
  /\ wpc[c] = "mark" /\ "lost_reply" \in Faults
  /\ Rivals(c) = {}
  /\ SetStatus(c, "running")
  /\ Continue(c, "return", "error")

\* Refresh or Revoke returns, with or without an error.  A refresh returns
\* none even under a cancelled context, once it knows the user's accounts.
Operate(c) ==
  /\ wpc[c] = "operate"
  /\ \E e \in {"nil", "error"} : Continue(c, "finish", e)
  /\ UNCHANGED task

\* Slip: a failed operation returns before Finish is reached.
FinishOnlySuccess(c) ==
  /\ wpc[c] = "finish" /\ jobCtx[c] = "live"
  /\ IF opErr[c] = "nil" THEN SetStatus(c, "succeeded") ELSE UNCHANGED task
  /\ Continue(c, "return", opErr[c])

Finish(c) ==
  /\ wpc[c] = "finish" /\ jobCtx[c] = "live"
  /\ SetStatus(c, IF opErr[c] = "nil" THEN "succeeded" ELSE "failed")
  /\ Continue(c, "return", opErr[c])

\* A Finish that fails is only logged.
FinishFails(c) ==
  /\ wpc[c] = "finish" /\ JobStatementFails(c)
  /\ Continue(c, "return", opErr[c])
  /\ UNCHANGED task

\* Slip: one attempt too many.
RetryOncePastLimit(c) == IF attempt[c] <= MaxAttempts THEN "available" ELSE "discarded"

\* River's verdict on an attempt that returned an error or was lost.
RetryOrDiscard(c) == IF attempt[c] < MaxAttempts THEN "available" ELSE "discarded"

\* Slip: run returns an error whatever the operation returned.
JobReturnsError(c) ==
  /\ wpc[c] = "return"
  /\ job' = [job EXCEPT ![c] = RetryOrDiscard(c)]
  /\ wpc' = [wpc EXCEPT ![c] = "idle"]
  /\ UNCHANGED <<task, callVars, attempt, opErr, jobCtx>>

JobReturns(c) ==
  /\ wpc[c] = "return"
  /\ job' = [job EXCEPT ![c] = IF opErr[c] = "nil" THEN "completed" ELSE RetryOrDiscard(c)]
  /\ wpc' = [wpc EXCEPT ![c] = "idle"]
  /\ UNCHANGED <<task, callVars, attempt, opErr, jobCtx>>

\* Slip: nobody looks for jobs whose process is gone.
NoRescue(c) == FALSE /\ UNCHANGED vars

\* River's rescuer finds a job whose process is gone.
Rescue(c) ==
  /\ wpc[c] = "lost"
  /\ job' = [job EXCEPT ![c] = RetryOrDiscard(c)]
  /\ wpc' = [wpc EXCEPT ![c] = "idle"]
  /\ UNCHANGED <<task, callVars, attempt, opErr, jobCtx>>

-----------------------------------------------------------------------------
(* The environment.                                                        *)

CancelRequest(c) ==
  /\ "request_ctx" \in Faults
  /\ pc[c] # "returned" /\ reqCtx[c] = "live"
  /\ reqCtx' = [reqCtx EXCEPT ![c] = "cancelled"]
  /\ UNCHANGED <<task, pc, answer, jobVars, workerVars>>

CallerCrashes(c) ==
  /\ "crash" \in Faults
  /\ pc[c] \in {"find", "insert", "settle"}
  /\ Return(c, "none")
  /\ UNCHANGED <<task, jobVars, workerVars>>

CancelJob(c) ==
  /\ "job_ctx" \in Faults
  /\ wpc[c] \in {"mark", "operate", "finish"} /\ jobCtx[c] = "live"
  /\ jobCtx' = [jobCtx EXCEPT ![c] = "cancelled"]
  /\ UNCHANGED <<task, callVars, jobVars, wpc, opErr>>

WorkerCrashes(c) ==
  /\ "crash" \in Faults
  /\ wpc[c] \in {"mark", "operate", "finish", "return"}
  /\ wpc' = [wpc EXCEPT ![c] = "lost"]
  /\ UNCHANGED <<task, callVars, jobVars, opErr, jobCtx>>

-----------------------------------------------------------------------------
Arrive(c) ==
  Create(c) \/ CreateRefused(c) \/ CreateFails(c) \/ CreateReplyLost(c)

Proceed(c) ==
  \/ FindActiveByDedupKey(c) \/ FindNothing(c) \/ FindFails(c)
  \/ Insert(c) \/ InsertFails(c) \/ InsertReplyLost(c)
  \/ Settle(c) \/ SettleFails(c)

Attempt(c) ==
  \/ MarkRunning(c) \/ MarkFails(c) \/ MarkReplyLost(c)
  \/ Operate(c) \/ Finish(c) \/ FinishFails(c) \/ JobReturns(c)

Environment(c) ==
  CancelRequest(c) \/ CallerCrashes(c) \/ CancelJob(c) \/ WorkerCrashes(c)

Next ==
  \E c \in Calls :
    Arrive(c) \/ Proceed(c) \/ Fetch(c) \/ Attempt(c) \/ Rescue(c) \/ Environment(c)

Spec == Init /\ [][Next]_vars

(***************************************************************************)
(* Nobody has to press the button, so Arrive is not fair.  A request that  *)
(* arrived is a goroutine that runs on; River keeps fetching available     *)
(* jobs, its workers keep executing, and its rescuer comes back to jobs    *)
(* that were lost.  Nothing obliges the environment to do anything.        *)
(***************************************************************************)
Fairness ==
  \A c \in Calls :
    /\ WF_vars(Proceed(c))
    /\ WF_vars(Fetch(c))
    /\ WF_vars(Attempt(c))
    /\ WF_vars(Rescue(c))

FairSpec == Spec /\ Fairness
-----------------------------------------------------------------------------
(* Properties.                                                             *)

Operating == {c \in Calls : wpc[c] = "operate"}

\* A piece of work is never carried out twice at the same time, whatever
\* retries, rescues, crashes and competing requests there are
\* ("a periodic pass never competes with a manual refresh").
WorkExclusive ==
  \A c, d \in Operating : WorkOf[c] = WorkOf[d] => c = d

\* A request that was answered with an error other than ErrTaskNotFound has
\* no job: River never runs the work of a caller who was told that it could
\* not be queued.
RefusedNeverRuns ==
  \A c \in Calls : answer[c] = "error" => job[c] = "none"

\* The task a caller is given, its own or the one it lost to, is a row of
\* the same user and dedup_key.
AnswerIsSameWork ==
  \A c \in Calls : answer[c] \in Calls =>
    WorkOf[answer[c]] = WorkOf[c] /\ task[answer[c]] # "absent"

\* Once a task has succeeded it stays so.  A failed one may be retried
\* by run, a successful one may not.
SuccessIsFinal ==
  [][\A c \in Calls : task[c] = "succeeded" => task'[c] = "succeeded"]_vars

\* A pending or running task blocks its dedup_key, so somebody is always
\* about to move it on: the enqueue call that created it, or a job River has
\* not given up.
ActiveIsDriven ==
  \A c \in Calls : Active(c) =>
    pc[c] \in {"insert", "settle"} \/ job[c] \in {"available", "working"}

\* Every task reaches an end it does not leave: retries stop.
EventuallySettled == <>[](\A c \in Calls : ~Active(c))

\* Every job River accepted is eventually completed or discarded, even when
\* workers crash and jobs compete for few worker slots.
JobsDrain ==
  \A c \in Calls : job[c] = "available" ~> job[c] \in {"completed", "discarded"}

\* The queue implements the lock it promises: see WorkLock.
Lock == INSTANCE WorkLock WITH
  holder <- [w \in Works |-> {c \in Calls : WorkOf[c] = w /\ Active(c)}],
  busy <- [w \in Works |-> {c \in Operating : WorkOf[c] = w}]

\* Accepting, retrying and settling tasks goes through the states of the
\* lock, one holder at a time, and never releases work that is being carried
\* out.
ImplementsLock == Lock!LockSpec

\* "settle it rather than leaving it pending forever" (queue.go): a call that
\* was answered with an error leaves no pending task behind.
QueueFailureIsSettled ==
  \A c \in Calls : answer[c] = "error" => task[c] # "pending"
=============================================================================
