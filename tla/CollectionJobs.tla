--------------------------- MODULE CollectionJobs ---------------------------
(***************************************************************************)
(* Source collection jobs: jobs/service.py with jobs/locks.py, queue.py,   *)
(* worker.py and scheduler.py.                                             *)
(*                                                                         *)
(* Three kinds of process share PostgreSQL (status, attempt, enabled) and  *)
(* Redis (queue, lock):                                                    *)
(*   - a producer (API request or scheduler tick) inserts a job, pushes    *)
(*     its id on the RQ queue and only then commits status QUEUED;         *)
(*   - the scheduler loop recovers stale RUNNING jobs and re-enqueues      *)
(*     RETRY_WAIT jobs, from rows it read without locking them;            *)
(*   - workers execute queue entries under a row lock first, and under a   *)
(*     Redis lock per source with a TTL afterwards.                        *)
(* A scheduler tick is one more producer here: which slot it picks, and    *)
(* the health counters of a source, are not modelled.                      *)
(*                                                                         *)
(* Timing assumption: RQ ends an execution after its job timeout (180 s,   *)
(* killed at 240 s), below redis_lock_ttl_seconds (300) and below          *)
(* job_stale_running_seconds (900).  So a lock expires, and a RUNNING job  *)
(* becomes stale, only when the execution behind it is over.               *)
(***************************************************************************)
EXTENDS Naturals, FiniteSets

CONSTANTS
  Jobs,         \* job ids, created at most once each
  Sources,
  SourceOf,     \* [Jobs -> Sources], source_id of the row
  Workers,      \* RQ worker processes
  MaxAttempts,  \* collection_job_max_attempts
  Faults,       \* the kinds of fault that happen, a subset of FaultKinds
  MaxFaults,    \* bound: how many of them
  NoJob, NoWorker,
  Orphan        \* lock token of an execution that died holding the lock

FaultKinds == {"worker", "abort", "producer", "scheduler", "redeliver", "late"}

ASSUME JobsAssumption ==
  /\ SourceOf \in [Jobs -> Sources]
  /\ MaxAttempts \in Nat \ {0}
  /\ MaxFaults \in Nat
  /\ Faults \subseteq FaultKinds
  /\ NoJob \notin Jobs
  /\ NoWorker \notin Workers
  /\ Orphan \notin Workers
  /\ Orphan # NoWorker

VARIABLES
  status,   \* [Jobs -> Status], column status, "NONE" before the insert
  attempt,  \* [Jobs -> Nat], column attempt
  enabled,  \* [Sources -> BOOLEAN], column collection_enabled
  queue,    \* [Jobs -> Nat], entries of each job on the RQ list
  lock,     \* [Sources -> Workers \cup {NoWorker, Orphan}], Redis key
  pc,       \* [Workers -> step of execute_job]
  wjob,     \* [Workers -> Jobs \cup {NoJob}], the job a worker executes
  watt,     \* [Workers -> Nat], the attempt it loaded
  enq,      \* [Jobs -> step of the producer's enqueue_job]
  sched,    \* SchedulerState, the scheduler loop and the rows it read
  faults,   \* faults so far
  starts,   \* history: collections begun per job
  ended     \* history: jobs that have had a terminal status

db    == <<status, attempt>>
exec  == <<pc, wjob, watt>>
hist  == <<starts, ended>>
vars  == <<status, attempt, enabled, queue, lock, exec, enq, sched, faults, hist>>

Terminal == {"SUCCEEDED", "FAILED", "CANCELLED", "SKIPPED"}
Status   == Terminal \cup {"NONE", "PENDING", "QUEUED", "RUNNING", "RETRY_WAIT"}

Steps == {"idle", "loaded", "checked", "locked", "collecting", "releasing"}

SchedulerState ==
  [step : {"recover", "recovering", "retry", "selected", "pushed"},
   batch : SUBSET Jobs,               \* rows read and not handled yet
   cur : Jobs \cup {NoJob},           \* row pushed and not committed
   att : [Jobs -> 1..MaxAttempts]]    \* column attempt as it was read

Src(w) == SourceOf[wjob[w]]

\* SELECT ... FOR UPDATE is held from the load to the next commit.
RowLocked(j) == \E w \in Workers : wjob[w] = j /\ pc[w] \in {"loaded", "checked", "locked"}

\* The id is on the queue and the commit of QUEUED has not happened yet.
PushUncommitted(j) == enq[j] = "pushed" \/ sched.cur = j

Fault(k) == k \in Faults /\ faults < MaxFaults /\ faults' = faults + 1

\* An UPDATE of the status column, committed.
SetStatus(j, s) ==
  /\ status' = [status EXCEPT ![j] = s]
  /\ ended' = IF s \in Terminal THEN ended \cup {j} ELSE ended

Init ==
  /\ status = [j \in Jobs |-> "NONE"]
  /\ attempt = [j \in Jobs |-> 1]
  /\ enabled \in [Sources -> BOOLEAN]
  /\ queue = [j \in Jobs |-> 0]
  /\ lock = [s \in Sources |-> NoWorker]
  /\ pc = [w \in Workers |-> "idle"]
  /\ wjob = [w \in Workers |-> NoJob]
  /\ watt = [w \in Workers |-> 0]
  /\ enq = [j \in Jobs |-> "none"]
  /\ sched = [step |-> "recover", batch |-> {}, cur |-> NoJob, att |-> attempt]
  /\ faults = 0
  /\ starts = [j \in Jobs |-> 0]
  /\ ended = {}

(***************************************************************************)
(* Producers: create_collection_job commits the row, enqueue_job pushes    *)
(* and then commits QUEUED over whatever the row holds by then.            *)
(***************************************************************************)
Insert(j) ==
  /\ status[j] = "NONE"
  /\ status' = [status EXCEPT ![j] = "PENDING"]
  /\ enq' = [enq EXCEPT ![j] = "created"]
  /\ UNCHANGED <<attempt, enabled, queue, lock, exec, sched, faults, hist>>

\* create_manual_job and scheduler_tick refuse a disabled source (no caller
\* passes force).
CreateJob(j) == enabled[SourceOf[j]] /\ Insert(j)

\* retry_failed_job does not look at collection_enabled.
RetryFailed(old, j) ==
  /\ status[old] = "FAILED"
  /\ SourceOf[old] = SourceOf[j]
  /\ Insert(j)

PushNew(j) ==
  /\ enq[j] = "created"
  /\ enq' = [enq EXCEPT ![j] = "pushed"]
  /\ queue' = [queue EXCEPT ![j] = @ + 1]
  /\ UNCHANGED <<db, enabled, lock, exec, sched, faults, hist>>

CommitQueued(j) ==
  /\ enq[j] = "pushed"
  /\ ~RowLocked(j)
  /\ enq' = [enq EXCEPT ![j] = "none"]
  /\ status' = [status EXCEPT ![j] = "QUEUED"]
  /\ UNCHANGED <<attempt, enabled, queue, lock, exec, sched, faults, hist>>

\* The producer dies, or Redis or the commit fails: nothing is rolled back.
ProducerFails(j) ==
  /\ Fault("producer")
  /\ enq[j] # "none"
  /\ enq' = [enq EXCEPT ![j] = "none"]
  /\ UNCHANGED <<db, enabled, queue, lock, exec, sched, hist>>

\* No endpoint edits collection_enabled of a source once it exists: it changes in
\* the database, which execute_job allows for by reading it again.
ToggleCollection(s) ==
  /\ enabled' = [enabled EXCEPT ![s] = ~@]
  /\ UNCHANGED <<db, queue, lock, exec, enq, sched, faults, hist>>

(***************************************************************************)
(* Scheduler loop: recover_stale_running_jobs, then enqueue_due_retries.   *)
(***************************************************************************)
StaleAtOnce(j) == status[j] = "RUNNING"   \* mutant: however old the row is

Stale(j) ==
  /\ status[j] = "RUNNING"
  /\ ~\E w \in Workers : wjob[w] = j /\ pc[w] \in {"collecting", "releasing"}

SelectStale(B) ==
  /\ sched.step = "recover"
  /\ B \subseteq {j \in Jobs : Stale(j)}
  /\ sched' = [sched EXCEPT !.step = "recovering", !.batch = B, !.att = attempt]
  /\ UNCHANGED <<db, enabled, queue, lock, exec, enq, faults, hist>>

CommitStaleAlwaysRetries ==   \* mutant: recovery forgets max_attempts
  /\ sched.step = "recovering"
  /\ \A j \in sched.batch : ~RowLocked(j)
  /\ status' = [j \in Jobs |-> IF j \in sched.batch THEN "RETRY_WAIT" ELSE status[j]]
  /\ sched' = [sched EXCEPT !.step = "retry", !.batch = {}]
  /\ UNCHANGED <<attempt, enabled, queue, lock, exec, enq, faults, hist>>

\* One commit; the statuses are overwritten without being read again.
CommitStale ==
  /\ sched.step = "recovering"
  /\ \A j \in sched.batch : ~RowLocked(j)
  /\ LET Spent == {j \in sched.batch : sched.att[j] >= MaxAttempts} IN
       /\ status' = [j \in Jobs |-> IF j \in Spent THEN "FAILED"
                                    ELSE IF j \in sched.batch THEN "RETRY_WAIT"
                                    ELSE status[j]]
       /\ ended' = ended \cup Spent
  /\ sched' = [sched EXCEPT !.step = "retry", !.batch = {}]
  /\ UNCHANGED <<attempt, enabled, queue, lock, exec, enq, faults, starts>>

RetryBatch(B, limit) ==
  /\ sched.step = "retry"
  /\ B \subseteq {j \in Jobs : status[j] = "RETRY_WAIT" /\ attempt[j] < limit}
  /\ sched' = [sched EXCEPT !.step = "selected", !.batch = B, !.att = attempt]
  /\ UNCHANGED <<db, enabled, queue, lock, exec, enq, faults, hist>>

SelectRetriesUnbounded(B) == RetryBatch(B, MaxAttempts + 1)  \* mutant: <= for <

SelectRetriesTooFew(B) == RetryBatch(B, MaxAttempts - 1)     \* mutant: off by one

SelectRetries(B) == RetryBatch(B, MaxAttempts)

\* attempt += 1 and enqueue_job, job by job; the push comes before the commit.
PushRetry(j) ==
  /\ sched.step = "selected"
  /\ j \in sched.batch
  /\ queue' = [queue EXCEPT ![j] = @ + 1]
  /\ sched' = [sched EXCEPT !.step = "pushed", !.cur = j]
  /\ UNCHANGED <<db, enabled, lock, exec, enq, faults, hist>>

CommitRetryUnpaid(j) ==   \* mutant: the attempt is not incremented
  /\ sched.step = "pushed"
  /\ sched.cur = j
  /\ ~RowLocked(j)
  /\ status' = [status EXCEPT ![j] = "QUEUED"]
  /\ sched' = [sched EXCEPT !.step = "selected", !.batch = @ \ {j}, !.cur = NoJob]
  /\ UNCHANGED <<attempt, enabled, queue, lock, exec, enq, faults, hist>>

CommitRetry(j) ==
  /\ sched.step = "pushed"
  /\ sched.cur = j
  /\ ~RowLocked(j)
  /\ status' = [status EXCEPT ![j] = "QUEUED"]
  /\ attempt' = [attempt EXCEPT ![j] = sched.att[j] + 1]
  /\ sched' = [sched EXCEPT !.step = "selected", !.batch = @ \ {j}, !.cur = NoJob]
  /\ UNCHANGED <<enabled, queue, lock, exec, enq, faults, hist>>

RetriesDone ==
  /\ sched.step = "selected"
  /\ sched.batch = {}
  /\ sched' = [sched EXCEPT !.step = "recover"]
  /\ UNCHANGED <<db, enabled, queue, lock, exec, enq, faults, hist>>

\* Any exception ends run_forever; the restarted loop begins again.
SchedulerFails ==
  /\ Fault("scheduler")
  /\ sched.step \in {"recovering", "selected", "pushed"}
  /\ sched' = [sched EXCEPT !.step = "recover", !.batch = {}, !.cur = NoJob]
  /\ UNCHANGED <<db, enabled, queue, lock, exec, enq, hist>>

(***************************************************************************)
(* Workers: execute_job.  Every way out returns the worker to RQ.          *)
(***************************************************************************)
Goto(w, step) == pc' = [pc EXCEPT ![w] = step] /\ UNCHANGED <<wjob, watt>>

Leave(w) ==
  /\ pc' = [pc EXCEPT ![w] = "idle"]
  /\ wjob' = [wjob EXCEPT ![w] = NoJob]
  /\ watt' = [watt EXCEPT ![w] = 0]

\* RQ takes an entry off the list; a redelivery leaves another one there.
Dequeue(j) ==
  /\ queue[j] > 0
  /\ \/ /\ queue' = [queue EXCEPT ![j] = @ - 1]
        /\ UNCHANGED faults
     \/ /\ Fault("redeliver")
        /\ UNCHANGED queue

\* SELECT ... FOR UPDATE of the job, then its source.  A terminal job is left
\* as it is; a disabled source makes the job SKIPPED.
Load(w, j) ==
  /\ pc[w] = "idle"
  /\ Dequeue(j)
  /\ ~RowLocked(j)
  /\ "late" \in Faults \/ ~PushUncommitted(j)
  /\ \/ /\ status[j] \in Terminal
        /\ UNCHANGED <<exec, status, ended>>
     \/ /\ status[j] \notin Terminal
        /\ ~enabled[SourceOf[j]]
        /\ SetStatus(j, "SKIPPED")
        /\ UNCHANGED exec
     \/ /\ status[j] \notin Terminal
        /\ enabled[SourceOf[j]]
        /\ pc' = [pc EXCEPT ![w] = "loaded"]
        /\ wjob' = [wjob EXCEPT ![w] = j]
        /\ watt' = [watt EXCEPT ![w] = attempt[j]]
        /\ UNCHANGED <<status, ended>>
  /\ UNCHANGED <<attempt, enabled, lock, enq, sched, starts>>

OtherRunning(w) ==
  \E j \in Jobs \ {wjob[w]} : SourceOf[j] = Src(w) /\ status[j] = "RUNNING"

CheckRunning(w) ==
  /\ pc[w] = "loaded"
  /\ \/ /\ OtherRunning(w)      \* SOURCE_ALREADY_RUNNING
        /\ SetStatus(wjob[w], "SKIPPED")
        /\ Leave(w)
     \/ /\ ~OtherRunning(w)
        /\ Goto(w, "checked")
        /\ UNCHANGED <<status, ended>>
  /\ UNCHANGED <<attempt, enabled, queue, lock, enq, sched, faults, starts>>

AcquireWithoutNX(w) ==   \* mutant: SET without NX takes a held key over
  /\ pc[w] = "checked"
  /\ lock' = [lock EXCEPT ![Src(w)] = w]
  /\ Goto(w, "locked")
  /\ UNCHANGED <<db, enabled, queue, enq, sched, faults, hist>>

\* SET key token NX EX ttl.
Acquire(w) ==
  /\ pc[w] = "checked"
  /\ \/ /\ lock[Src(w)] # NoWorker    \* SOURCE_LOCKED
        /\ SetStatus(wjob[w], "SKIPPED")
        /\ Leave(w)
        /\ UNCHANGED lock
     \/ /\ lock[Src(w)] = NoWorker
        /\ lock' = [lock EXCEPT ![Src(w)] = w]
        /\ Goto(w, "locked")
        /\ UNCHANGED <<status, ended>>
  /\ UNCHANGED <<attempt, enabled, queue, enq, sched, faults, starts>>

MarkRunning(w) ==
  /\ pc[w] = "locked"
  /\ status' = [status EXCEPT ![wjob[w]] = "RUNNING"]
  /\ starts' = [starts EXCEPT ![wjob[w]] = @ + 1]
  /\ Goto(w, "collecting")
  /\ UNCHANGED <<attempt, enabled, queue, lock, enq, sched, faults, ended>>

\* succeed_job, classify_failure and fail_job; the collector's result is "ok",
\* "transient" or "permanent", and the attempt is the one loaded.
Outcome(w, result) ==
  CASE result = "ok" -> "SUCCEEDED"
    [] result = "transient" /\ watt[w] < MaxAttempts -> "RETRY_WAIT"
    [] OTHER -> "FAILED"

Finish(w, result) ==
  /\ pc[w] = "collecting"
  /\ ~RowLocked(wjob[w])
  /\ SetStatus(wjob[w], Outcome(w, result))
  /\ Goto(w, "releasing")
  /\ UNCHANGED <<attempt, enabled, queue, lock, enq, sched, faults, starts>>

\* The result cannot be written (the database, the job timeout, an expired ORM
\* row after a rollback): only the finally clause runs.
AbortCollection(w) ==
  /\ Fault("abort")
  /\ pc[w] = "collecting"
  /\ Goto(w, "releasing")
  /\ UNCHANGED <<db, enabled, queue, lock, enq, sched, hist>>

\* DEL key if it still holds this execution's token.
Release(w) ==
  /\ pc[w] = "releasing"
  /\ lock' = [lock EXCEPT ![Src(w)] = IF @ = w THEN NoWorker ELSE @]
  /\ Leave(w)
  /\ UNCHANGED <<db, enabled, queue, enq, sched, faults, hist>>

\* The process is killed: its transaction is rolled back, the lock stays.
WorkerDies(w) ==
  /\ Fault("worker")
  /\ pc[w] # "idle"
  /\ lock' = [s \in Sources |-> IF lock[s] = w THEN Orphan ELSE lock[s]]
  /\ Leave(w)
  /\ UNCHANGED <<db, enabled, queue, enq, sched, hist>>

\* redis_lock_ttl_seconds have passed.
LockExpires(s) ==
  /\ lock[s] = Orphan
  /\ lock' = [lock EXCEPT ![s] = NoWorker]
  /\ UNCHANGED <<db, enabled, queue, exec, enq, sched, faults, hist>>

-----------------------------------------------------------------------------
Producer(j) == CreateJob(j) \/ PushNew(j) \/ CommitQueued(j) \/ ProducerFails(j)

Scheduler ==
  \/ \E B \in SUBSET Jobs : SelectStale(B) \/ SelectRetries(B)
  \/ CommitStale
  \/ \E j \in Jobs : PushRetry(j) \/ CommitRetry(j)
  \/ RetriesDone
  \/ SchedulerFails

Worker(w) ==
  \/ \E j \in Jobs : Load(w, j)
  \/ CheckRunning(w)
  \/ Acquire(w)
  \/ MarkRunning(w)
  \/ \E result \in {"ok", "transient", "permanent"} : Finish(w, result)
  \/ AbortCollection(w)
  \/ Release(w)
  \/ WorkerDies(w)

Next ==
  \/ \E j \in Jobs : Producer(j)
  \/ \E old, j \in Jobs : RetryFailed(old, j)
  \/ \E s \in Sources : ToggleCollection(s) \/ LockExpires(s)
  \/ Scheduler
  \/ \E w \in Workers : Worker(w)

Spec == Init /\ [][Next]_vars

(***************************************************************************)
(* Fairness: the containers restart (restart: unless-stopped), the loop    *)
(* ticks for ever and its SELECTs have no LIMIT, RQ serves its list in     *)
(* order, a collection ends by its job timeout.  Nothing makes a user act. *)
(***************************************************************************)
Fairness ==
  /\ \A j \in Jobs :
       /\ WF_vars(PushNew(j)) /\ WF_vars(CommitQueued(j))
       /\ SF_vars(\E B \in SUBSET Jobs : j \in B /\ SelectStale(B))
       /\ SF_vars(\E B \in SUBSET Jobs : j \in B /\ SelectRetries(B))
       /\ WF_vars(PushRetry(j)) /\ WF_vars(CommitRetry(j))
       /\ SF_vars(\E w \in Workers : Load(w, j))
  /\ WF_vars(\E B \in SUBSET Jobs : SelectStale(B) \/ SelectRetries(B))
  /\ WF_vars(CommitStale) /\ WF_vars(RetriesDone)
  /\ \A w \in Workers :
       /\ WF_vars(CheckRunning(w)) /\ WF_vars(Acquire(w)) /\ WF_vars(MarkRunning(w))
       /\ WF_vars(\E result \in {"ok", "transient", "permanent"} : Finish(w, result))
       /\ WF_vars(Release(w))
  /\ \A s \in Sources : WF_vars(LockExpires(s))

FairSpec == Spec /\ Fairness

-----------------------------------------------------------------------------
\* Types of every variable.
TypeOK ==
  /\ status \in [Jobs -> Status]
  /\ attempt \in [Jobs -> 1..MaxAttempts]
  /\ enabled \in [Sources -> BOOLEAN]
  /\ queue \in [Jobs -> Nat]
  /\ lock \in [Sources -> Workers \cup {NoWorker, Orphan}]
  /\ pc \in [Workers -> Steps]
  /\ wjob \in [Workers -> Jobs \cup {NoJob}]
  /\ watt \in [Workers -> 0..MaxAttempts]
  /\ enq \in [Jobs -> {"none", "created", "pushed"}]
  /\ sched \in SchedulerState
  /\ faults \in 0..MaxFaults
  /\ starts \in [Jobs -> Nat]
  /\ ended \subseteq Jobs

\* README "one source may not run concurrently": never two collections of one
\* source, whatever is redelivered, killed, expired or recovered.
MutualExclusion ==
  \A v, w \in Workers :
    v # w /\ pc[v] = "collecting" /\ pc[w] = "collecting" => Src(v) # Src(w)

\* The retry budget: redeliveries and crashes may repeat a collection, each
\* once; nothing else makes a job run more than max_attempts times.
RetryBudget == \A j \in Jobs : starts[j] <= MaxAttempts + faults

\* As long as QUEUED is committed before a worker reads the row, no entry is
\* delivered twice and no process dies outside a collection, the code keeps the
\* contract of JobLifecycle: terminal statuses are final, attempts only grow by a
\* retry, a job waits for a retry only while one is left.
Contract == INSTANCE JobLifecycle WITH
              Jobs <- Jobs, MaxAttempts <- MaxAttempts, status <- status, attempt <- attempt
LifecycleKept == Contract!Spec

\* Under the same conditions a job inserted is a job finished, even when
\* collections are aborted and only stale recovery can end them.
EveryJobFinishes == \A j \in Jobs : status[j] = "PENDING" ~> status[j] \in Terminal

\* README "Terminal jobs are not executed again": under the same conditions no
\* collection starts for a job that has had a terminal status, although recovery and
\* retries overwrite statuses they read before.  One redelivered entry is enough to
\* break it.
TerminalNotExecuted ==
  [][\A w \in Workers :
       pc[w] = "locked" /\ pc'[w] = "collecting" => wjob[w] \notin ended]_vars
=============================================================================
