------------------------ MODULE CollectionJobsProofs ------------------------
(***************************************************************************)
(* Proofs about CollectionJobs, for every set of jobs, sources and         *)
(* workers, every max_attempts and every number and kind of faults.        *)
(***************************************************************************)
EXTENDS CollectionJobs, TLAPS

RowSteps  == {"loaded", "checked", "locked"}
LockSteps == {"locked", "collecting", "releasing"}

\* A worker has a job exactly while it executes one.
Busy == \A w \in Workers : pc[w] = "idle" <=> wjob[w] = NoJob

\* From SET NX to the release the Redis key holds this worker's token.
LockHeld == \A w \in Workers : pc[w] \in LockSteps => lock[Src(w)] = w

\* A row is locked FOR UPDATE by one worker at a time.
RowOnce ==
  \A v, w \in Workers :
    v # w /\ pc[v] \in RowSteps /\ pc[w] \in RowSteps => wjob[v] # wjob[w]

\* Between SELECT and commit the scheduler's rows still hold the attempt it
\* read: no one else writes that column.
RowsFresh ==
  /\ sched.step \in {"selected", "pushed"} =>
       \A j \in sched.batch : sched.att[j] = attempt[j] /\ attempt[j] < MaxAttempts
  /\ sched.step = "pushed" => sched.cur \in sched.batch
  /\ sched.step # "pushed" => sched.cur = NoJob

\* Entries of j that may still start a collection, against the attempts paid.
Unpushed(j)  == IF status[j] = "NONE" \/ enq[j] = "created" THEN 1 ELSE 0
Executing(j) == IF RowLocked(j) THEN 1 ELSE 0
Unpaid(j)    == IF sched.cur = j THEN 1 ELSE 0

Budget ==
  \A j \in Jobs :
    starts[j] + queue[j] + Executing(j) + Unpushed(j) <= attempt[j] + faults + Unpaid(j)

\* A producer is between its steps only for a row it has inserted.
Inserted == \A j \in Jobs : status[j] = "NONE" => enq[j] = "none"

IInv == TypeOK /\ Busy /\ LockHeld /\ RowOnce /\ RowsFresh /\ Budget /\ Inserted

Results == {"ok", "transient", "permanent"}

\* Steps that touch neither the workers nor the Redis keys.
LEMMA ExecFrame ==
  ASSUME IInv, UNCHANGED <<lock, exec>>
  PROVE  Busy' /\ LockHeld' /\ RowOnce'
BY DEF IInv, exec, Busy, LockHeld, RowOnce, Src

\* Steps that touch neither the scheduler nor the attempts.
LEMMA SchedFrame ==
  ASSUME IInv, UNCHANGED <<sched, attempt>>
  PROVE  RowsFresh'
BY DEF IInv, RowsFresh

\* A producer inserts the row: one entry may be pushed for it, and is not yet.
LEMMA InsertStep ==
  ASSUME IInv, NEW j \in Jobs, Insert(j)
  PROVE  IInv'
<1> USE JobsAssumption DEF IInv, db, exec, hist, Insert
<1>1. TypeOK'
  BY DEF TypeOK, Status, Terminal, Steps, SchedulerState
<1>2. Busy' /\ LockHeld' /\ RowOnce'
  BY ExecFrame
<1>3. RowsFresh'
  BY SchedFrame
<1>4. Budget'
  BY DEF Budget, Inserted, TypeOK, Busy, RowOnce, RowsFresh, RowSteps,
         SchedulerState, RowLocked, Executing, Unpushed, Unpaid
<1>5. Inserted'
  BY DEF Inserted, TypeOK, Status, Terminal, Outcome
<1> QED
  BY <1>1, <1>2, <1>3, <1>4, <1>5

\* The push turns the entry owed to a new row into an entry on the queue.
LEMMA PushNewStep ==
  ASSUME IInv, NEW j \in Jobs, PushNew(j)
  PROVE  IInv'
<1> USE JobsAssumption DEF IInv, db, exec, hist, PushNew
<1>1. TypeOK'
  BY DEF TypeOK, Status, Terminal, Steps, SchedulerState
<1>2. Busy' /\ LockHeld' /\ RowOnce'
  BY ExecFrame
<1>3. RowsFresh'
  BY SchedFrame
<1>4. Budget'
  BY DEF Budget, Inserted, TypeOK, Busy, RowOnce, RowsFresh, RowSteps,
         SchedulerState, RowLocked, Executing, Unpushed, Unpaid
<1>5. Inserted'
  BY DEF Inserted, TypeOK, Status, Terminal, Outcome
<1> QED
  BY <1>1, <1>2, <1>3, <1>4, <1>5

\* The late commit of QUEUED disturbs no lock and no count.
LEMMA CommitQueuedStep ==
  ASSUME IInv, NEW j \in Jobs, CommitQueued(j)
  PROVE  IInv'
<1> USE JobsAssumption DEF IInv, db, exec, hist, CommitQueued
<1>1. TypeOK'
  BY DEF TypeOK, Status, Terminal, Steps, SchedulerState
<1>2. Busy' /\ LockHeld' /\ RowOnce'
  BY ExecFrame
<1>3. RowsFresh'
  BY SchedFrame
<1>4. Budget'
  BY DEF Budget, Inserted, TypeOK, Busy, RowOnce, RowsFresh, RowSteps,
         SchedulerState, RowLocked, Executing, Unpushed, Unpaid
<1>5. Inserted'
  BY DEF Inserted, TypeOK, Status, Terminal, Outcome
<1> QED
  BY <1>1, <1>2, <1>3, <1>4, <1>5

\* A producer that dies leaves at most one entry behind.
LEMMA ProducerFailsStep ==
  ASSUME IInv, NEW j \in Jobs, ProducerFails(j)
  PROVE  IInv'
<1> USE JobsAssumption DEF IInv, db, exec, hist, ProducerFails, Fault
<1>1. TypeOK'
  BY DEF TypeOK, Status, Terminal, Steps, SchedulerState
<1>2. Busy' /\ LockHeld' /\ RowOnce'
  BY ExecFrame
<1>3. RowsFresh'
  BY SchedFrame
<1>4. Budget'
  BY DEF Budget, Inserted, TypeOK, Busy, RowOnce, RowsFresh, RowSteps,
         SchedulerState, RowLocked, Executing, Unpushed, Unpaid
<1>5. Inserted'
  BY DEF Inserted, TypeOK, Status, Terminal, Outcome
<1> QED
  BY <1>1, <1>2, <1>3, <1>4, <1>5

\* Toggling collection_enabled touches nothing the invariant speaks of.
LEMMA ToggleStep ==
  ASSUME IInv, NEW s \in Sources, ToggleCollection(s)
  PROVE  IInv'
<1> USE JobsAssumption DEF IInv, db, exec, hist, ToggleCollection
<1>1. TypeOK'
  BY DEF TypeOK, Status, Terminal, Steps, SchedulerState
<1>2. Busy' /\ LockHeld' /\ RowOnce'
  BY ExecFrame
<1>3. RowsFresh'
  BY SchedFrame
<1>4. Budget'
  BY DEF Budget, Inserted, TypeOK, Busy, RowOnce, RowsFresh, RowSteps,
         SchedulerState, RowLocked, Executing, Unpushed, Unpaid
<1>5. Inserted'
  BY DEF Inserted, TypeOK, Status, Terminal, Outcome
<1> QED
  BY <1>1, <1>2, <1>3, <1>4, <1>5

\* Reading stale rows changes the scheduler's own state only.
LEMMA SelectStaleStep ==
  ASSUME IInv, NEW B \in SUBSET Jobs, SelectStale(B)
  PROVE  IInv'
<1> USE JobsAssumption DEF IInv, db, exec, hist, SelectStale
<1>1. TypeOK'
  BY DEF TypeOK, Status, Terminal, Steps, SchedulerState
<1>2. Busy' /\ LockHeld' /\ RowOnce'
  BY ExecFrame
<1>3. RowsFresh'
  BY DEF RowsFresh, TypeOK, SchedulerState
<1>4. Budget'
  BY DEF Budget, Inserted, TypeOK, Busy, RowOnce, RowsFresh, RowSteps,
         SchedulerState, RowLocked, Executing, Unpushed, Unpaid
<1>5. Inserted'
  BY DEF Inserted, TypeOK, Status, Terminal, Outcome
<1> QED
  BY <1>1, <1>2, <1>3, <1>4, <1>5

\* Recovery rewrites statuses, of rows that exist, and no attempt.
LEMMA CommitStaleStep ==
  ASSUME IInv, CommitStale
  PROVE  IInv'
<1> USE JobsAssumption DEF IInv, db, exec, hist, CommitStale
<1>1. TypeOK'
  BY DEF TypeOK, Status, Terminal, Steps, SchedulerState
<1>2. Busy' /\ LockHeld' /\ RowOnce'
  BY ExecFrame
<1>3. RowsFresh'
  BY DEF RowsFresh, TypeOK, SchedulerState
<1>4. Budget'
  BY DEF Budget, Inserted, TypeOK, Busy, RowOnce, RowsFresh, RowSteps,
         SchedulerState, RowLocked, Executing, Unpushed, Unpaid
<1>5. Inserted'
  BY DEF Inserted, TypeOK, Status, Terminal, Outcome
<1> QED
  BY <1>1, <1>2, <1>3, <1>4, <1>5

\* The rows read for a retry have attempts left, and no one else spends them.
LEMMA SelectRetriesStep ==
  ASSUME IInv, NEW B \in SUBSET Jobs, SelectRetries(B)
  PROVE  IInv'
<1> USE JobsAssumption DEF IInv, db, exec, hist, SelectRetries, RetryBatch
<1>1. TypeOK'
  BY DEF TypeOK, Status, Terminal, Steps, SchedulerState
<1>2. Busy' /\ LockHeld' /\ RowOnce'
  BY ExecFrame
<1>3. RowsFresh'
  BY DEF RowsFresh, TypeOK, SchedulerState
<1>4. Budget'
  BY DEF Budget, Inserted, TypeOK, Busy, RowOnce, RowsFresh, RowSteps,
         SchedulerState, RowLocked, Executing, Unpushed, Unpaid
<1>5. Inserted'
  BY DEF Inserted, TypeOK, Status, Terminal, Outcome
<1> QED
  BY <1>1, <1>2, <1>3, <1>4, <1>5

\* A retry is pushed before its attempt is paid: Unpaid carries the difference.
LEMMA PushRetryStep ==
  ASSUME IInv, NEW j \in Jobs, PushRetry(j)
  PROVE  IInv'
<1> USE JobsAssumption DEF IInv, db, exec, hist, PushRetry
<1>1. TypeOK'
  <2>1. sched' \in SchedulerState
    BY DEF TypeOK, SchedulerState, RowsFresh
  <2>2. attempt' \in [Jobs -> 1..MaxAttempts]
    BY DEF TypeOK, RowsFresh, SchedulerState
  <2> QED
    BY <2>1, <2>2 DEF TypeOK, Status, Terminal
<1>2. Busy' /\ LockHeld' /\ RowOnce'
  BY ExecFrame
<1>3. RowsFresh'
  BY DEF RowsFresh, TypeOK, SchedulerState
<1>4. Budget'
  BY DEF Budget, Inserted, TypeOK, Busy, RowOnce, RowsFresh, RowSteps,
         SchedulerState, RowLocked, Executing, Unpushed, Unpaid
<1>5. Inserted'
  BY DEF Inserted, TypeOK, Status, Terminal, Outcome
<1> QED
  BY <1>1, <1>2, <1>3, <1>4, <1>5

\* The commit of a retry pays its attempt, from the value read before.
LEMMA CommitRetryStep ==
  ASSUME IInv, NEW j \in Jobs, CommitRetry(j)
  PROVE  IInv'
<1> USE JobsAssumption DEF IInv, db, exec, hist, CommitRetry
<1>1. TypeOK'
  <2>1. sched' \in SchedulerState
    BY DEF TypeOK, SchedulerState, RowsFresh
  <2>2. attempt' \in [Jobs -> 1..MaxAttempts]
    BY DEF TypeOK, RowsFresh, SchedulerState
  <2> QED
    BY <2>1, <2>2 DEF TypeOK, Status, Terminal
<1>2. Busy' /\ LockHeld' /\ RowOnce'
  BY ExecFrame
<1>3. RowsFresh'
  BY DEF RowsFresh, TypeOK, SchedulerState
<1>4. Budget'
  BY DEF Budget, Inserted, TypeOK, Busy, RowOnce, RowsFresh, RowSteps,
         SchedulerState, RowLocked, Executing, Unpushed, Unpaid
<1>5. Inserted'
  BY DEF Inserted, TypeOK, Status, Terminal, Outcome
<1> QED
  BY <1>1, <1>2, <1>3, <1>4, <1>5

\* The end of the retry loop.
LEMMA RetriesDoneStep ==
  ASSUME IInv, RetriesDone
  PROVE  IInv'
<1> USE JobsAssumption DEF IInv, db, exec, hist, RetriesDone
<1>1. TypeOK'
  BY DEF TypeOK, Status, Terminal, Steps, SchedulerState
<1>2. Busy' /\ LockHeld' /\ RowOnce'
  BY ExecFrame
<1>3. RowsFresh'
  BY DEF RowsFresh, TypeOK, SchedulerState
<1>4. Budget'
  BY DEF Budget, Inserted, TypeOK, Busy, RowOnce, RowsFresh, RowSteps,
         SchedulerState, RowLocked, Executing, Unpushed, Unpaid
<1>5. Inserted'
  BY DEF Inserted, TypeOK, Status, Terminal, Outcome
<1> QED
  BY <1>1, <1>2, <1>3, <1>4, <1>5

\* A scheduler that dies between push and commit owes one attempt: the fault.
LEMMA SchedulerFailsStep ==
  ASSUME IInv, SchedulerFails
  PROVE  IInv'
<1> USE JobsAssumption DEF IInv, db, exec, hist, SchedulerFails, Fault
<1>1. TypeOK'
  <2>1. sched' \in SchedulerState
    BY DEF TypeOK, SchedulerState, RowsFresh
  <2>2. attempt' \in [Jobs -> 1..MaxAttempts]
    BY DEF TypeOK, RowsFresh, SchedulerState
  <2> QED
    BY <2>1, <2>2 DEF TypeOK, Status, Terminal
<1>2. Busy' /\ LockHeld' /\ RowOnce'
  BY ExecFrame
<1>3. RowsFresh'
  BY DEF RowsFresh, TypeOK, SchedulerState
<1>4. Budget'
  BY DEF Budget, Inserted, TypeOK, Busy, RowOnce, RowsFresh, RowSteps,
         SchedulerState, RowLocked, Executing, Unpushed, Unpaid
<1>5. Inserted'
  BY DEF Inserted, TypeOK, Status, Terminal, Outcome
<1> QED
  BY <1>1, <1>2, <1>3, <1>4, <1>5

\* An entry taken off the queue becomes an execution, one per locked row.
LEMMA LoadStep ==
  ASSUME IInv, NEW w \in Workers, NEW j \in Jobs, Load(w, j)
  PROVE  IInv'
<1> USE JobsAssumption DEF IInv, db, exec, hist, Load, Dequeue, Fault, SetStatus
<1>1. TypeOK'
  BY DEF TypeOK, Status, Terminal, Steps, SchedulerState
<1>2. Busy'
  BY DEF Busy, TypeOK
<1>3. LockHeld'
  BY DEF LockHeld, TypeOK, Busy, LockSteps, Src
<1>4. RowOnce'
  BY DEF RowOnce, TypeOK, Busy, RowSteps, RowLocked
<1>5. RowsFresh'
  BY SchedFrame
<1>6. Budget'
  BY DEF Budget, Inserted, TypeOK, Busy, RowOnce, RowsFresh, RowSteps,
         SchedulerState, RowLocked, Executing, Unpushed, Unpaid
<1>7. Inserted'
  BY DEF Inserted, TypeOK, Status, Terminal, Outcome
<1> QED
  BY <1>1, <1>2, <1>3, <1>4, <1>5, <1>6, <1>7

\* The check for another RUNNING job skips the job or lets it go on.
LEMMA CheckRunningStep ==
  ASSUME IInv, NEW w \in Workers, CheckRunning(w)
  PROVE  IInv'
<1> USE JobsAssumption DEF IInv, db, exec, hist, CheckRunning, SetStatus, Goto, Leave
<1>1. TypeOK'
  BY DEF Busy, Src, TypeOK, Status, Terminal, Steps, SchedulerState
<1>2. Busy'
  BY DEF Busy, TypeOK
<1>3. LockHeld'
  BY DEF LockHeld, TypeOK, Busy, LockSteps, Src
<1>4. RowOnce'
  BY DEF RowOnce, TypeOK, Busy, RowSteps, RowLocked
<1>5. RowsFresh'
  BY SchedFrame
<1>6. Budget'
  BY DEF Budget, Inserted, TypeOK, Busy, RowOnce, RowsFresh, RowSteps,
         SchedulerState, RowLocked, Executing, Unpushed, Unpaid
<1>7. Inserted'
  BY DEF Inserted, TypeOK, Status, Terminal, Outcome
<1> QED
  BY <1>1, <1>2, <1>3, <1>4, <1>5, <1>6, <1>7

\* SET NX succeeds only when no worker holds the key.
LEMMA AcquireStep ==
  ASSUME IInv, NEW w \in Workers, Acquire(w)
  PROVE  IInv'
<1> USE JobsAssumption DEF IInv, db, exec, hist, Acquire, SetStatus, Goto, Leave
<1>1. TypeOK'
  BY DEF Busy, Src, TypeOK, Status, Terminal, Steps, SchedulerState
<1>2. Busy'
  BY DEF Busy, TypeOK
<1>3. LockHeld'
  BY DEF LockHeld, TypeOK, Busy, LockSteps, Src
<1>4. RowOnce'
  BY DEF RowOnce, TypeOK, Busy, RowSteps, RowLocked
<1>5. RowsFresh'
  BY SchedFrame
<1>6. Budget'
  BY DEF Budget, Inserted, TypeOK, Busy, RowOnce, RowsFresh, RowSteps,
         SchedulerState, RowLocked, Executing, Unpushed, Unpaid
<1>7. Inserted'
  BY DEF Inserted, TypeOK, Status, Terminal, Outcome
<1> QED
  BY <1>1, <1>2, <1>3, <1>4, <1>5, <1>6, <1>7

\* The execution becomes a start.
LEMMA MarkRunningStep ==
  ASSUME IInv, NEW w \in Workers, MarkRunning(w)
  PROVE  IInv'
<1> USE JobsAssumption DEF IInv, db, exec, hist, MarkRunning, Goto
<1>1. TypeOK'
  BY DEF Busy, Src, TypeOK, Status, Terminal, Steps, SchedulerState
<1>2. Busy'
  BY DEF Busy, TypeOK
<1>3. LockHeld'
  BY DEF LockHeld, TypeOK, Busy, LockSteps, Src
<1>4. RowOnce'
  BY DEF RowOnce, TypeOK, Busy, RowSteps, RowLocked
<1>5. RowsFresh'
  BY SchedFrame
<1>6. Budget'
  BY DEF Budget, Inserted, TypeOK, Busy, RowOnce, RowsFresh, RowSteps,
         SchedulerState, RowLocked, Executing, Unpushed, Unpaid
<1>7. Inserted'
  BY DEF Inserted, TypeOK, Status, Terminal, Outcome
<1> QED
  BY <1>1, <1>2, <1>3, <1>4, <1>5, <1>6, <1>7

\* The result is written while the Redis lock is still held.
LEMMA FinishStep ==
  ASSUME IInv, NEW w \in Workers, NEW result \in Results, Finish(w, result)
  PROVE  IInv'
<1> USE JobsAssumption DEF IInv, db, exec, hist, Finish, SetStatus, Goto, Outcome
<1>1. TypeOK'
  BY DEF Busy, Src, TypeOK, Status, Terminal, Steps, SchedulerState
<1>2. Busy'
  BY DEF Busy, TypeOK
<1>3. LockHeld'
  BY DEF LockHeld, TypeOK, Busy, LockSteps, Src
<1>4. RowOnce'
  BY DEF RowOnce, TypeOK, Busy, RowSteps, RowLocked
<1>5. RowsFresh'
  BY SchedFrame
<1>6. Budget'
  BY DEF Budget, Inserted, TypeOK, Busy, RowOnce, RowsFresh, RowSteps,
         SchedulerState, RowLocked, Executing, Unpushed, Unpaid
<1>7. Inserted'
  BY DEF Inserted, TypeOK, Status, Terminal, Outcome
<1> QED
  BY <1>1, <1>2, <1>3, <1>4, <1>5, <1>6, <1>7

\* A result that cannot be written leaves the lock to the finally clause.
LEMMA AbortStep ==
  ASSUME IInv, NEW w \in Workers, AbortCollection(w)
  PROVE  IInv'
<1> USE JobsAssumption DEF IInv, db, exec, hist, AbortCollection, Fault, Goto
<1>1. TypeOK'
  BY DEF TypeOK, Status, Terminal, Steps, SchedulerState
<1>2. Busy'
  BY DEF Busy, TypeOK
<1>3. LockHeld'
  BY DEF LockHeld, TypeOK, Busy, LockSteps, Src
<1>4. RowOnce'
  BY DEF RowOnce, TypeOK, Busy, RowSteps, RowLocked
<1>5. RowsFresh'
  BY SchedFrame
<1>6. Budget'
  BY DEF Budget, Inserted, TypeOK, Busy, RowOnce, RowsFresh, RowSteps,
         SchedulerState, RowLocked, Executing, Unpushed, Unpaid
<1>7. Inserted'
  BY DEF Inserted, TypeOK, Status, Terminal, Outcome
<1> QED
  BY <1>1, <1>2, <1>3, <1>4, <1>5, <1>6, <1>7

\* The release deletes the worker's own token.
LEMMA ReleaseStep ==
  ASSUME IInv, NEW w \in Workers, Release(w)
  PROVE  IInv'
<1> USE JobsAssumption DEF IInv, db, exec, hist, Release, Leave
<1>1. TypeOK'
  BY DEF Busy, Src, TypeOK, Status, Terminal, Steps, SchedulerState
<1>2. Busy'
  BY DEF Busy, TypeOK
<1>3. LockHeld'
  BY DEF LockHeld, TypeOK, Busy, LockSteps, Src
<1>4. RowOnce'
  BY DEF RowOnce, TypeOK, Busy, RowSteps, RowLocked
<1>5. RowsFresh'
  BY SchedFrame
<1>6. Budget'
  BY DEF Budget, Inserted, TypeOK, Busy, RowOnce, RowsFresh, RowSteps,
         SchedulerState, RowLocked, Executing, Unpushed, Unpaid
<1>7. Inserted'
  BY DEF Inserted, TypeOK, Status, Terminal, Outcome
<1> QED
  BY <1>1, <1>2, <1>3, <1>4, <1>5, <1>6, <1>7

\* A killed worker leaves an orphaned token, never another worker's.
LEMMA WorkerDiesStep ==
  ASSUME IInv, NEW w \in Workers, WorkerDies(w)
  PROVE  IInv'
<1> USE JobsAssumption DEF IInv, db, exec, hist, WorkerDies, Fault, Leave
<1>1. TypeOK'
  BY DEF TypeOK, Status, Terminal, Steps, SchedulerState
<1>2. Busy'
  BY DEF Busy, TypeOK
<1>3. LockHeld'
  BY DEF LockHeld, TypeOK, Busy, LockSteps, Src
<1>4. RowOnce'
  BY DEF RowOnce, TypeOK, Busy, RowSteps, RowLocked
<1>5. RowsFresh'
  BY SchedFrame
<1>6. Budget'
  BY DEF Budget, Inserted, TypeOK, Busy, RowOnce, RowsFresh, RowSteps,
         SchedulerState, RowLocked, Executing, Unpushed, Unpaid
<1>7. Inserted'
  BY DEF Inserted, TypeOK, Status, Terminal, Outcome
<1> QED
  BY <1>1, <1>2, <1>3, <1>4, <1>5, <1>6, <1>7

\* Only an orphaned token expires.
LEMMA LockExpiresStep ==
  ASSUME IInv, NEW s \in Sources, LockExpires(s)
  PROVE  IInv'
<1> USE JobsAssumption DEF IInv, db, exec, hist, LockExpires
<1>1. TypeOK'
  BY DEF TypeOK, Status, Terminal, Steps, SchedulerState
<1>2. Busy'
  BY DEF Busy, TypeOK
<1>3. LockHeld'
  BY DEF LockHeld, TypeOK, Busy, LockSteps, Src
<1>4. RowOnce'
  BY DEF RowOnce, TypeOK, Busy, RowSteps, RowLocked
<1>5. RowsFresh'
  BY SchedFrame
<1>6. Budget'
  BY DEF Budget, Inserted, TypeOK, Busy, RowOnce, RowsFresh, RowSteps,
         SchedulerState, RowLocked, Executing, Unpushed, Unpaid
<1>7. Inserted'
  BY DEF Inserted, TypeOK, Status, Terminal, Outcome
<1> QED
  BY <1>1, <1>2, <1>3, <1>4, <1>5, <1>6, <1>7

\* The initial state satisfies the invariant.
LEMMA InitIInv == Init => IInv
<1> SUFFICES ASSUME Init PROVE IInv
  OBVIOUS
<1> USE JobsAssumption DEF Init
<1>1. TypeOK
  BY DEF TypeOK, Status, Terminal, Steps, SchedulerState
<1>2. Busy /\ LockHeld /\ RowOnce
  BY DEF Busy, LockHeld, RowOnce, LockSteps, RowSteps
<1>3. RowsFresh /\ Inserted
  BY DEF RowsFresh, Inserted
<1>4. Budget
  BY DEF Budget, RowLocked, Executing, Unpushed, Unpaid
<1> QED
  BY <1>1, <1>2, <1>3, <1>4 DEF IInv

\* Stuttering preserves the invariant.
LEMMA StutterStep == IInv /\ UNCHANGED vars => IInv'
BY DEF IInv, vars, db, exec, hist, TypeOK, SchedulerState, Busy, LockHeld, Src,
       RowOnce, RowsFresh, Budget, RowLocked, Executing, Unpushed, Unpaid, Inserted

\* Every step of every process preserves the invariant.
THEOREM Inductive == IInv /\ [Next]_vars => IInv'
<1> SUFFICES ASSUME IInv, [Next]_vars PROVE IInv'
  OBVIOUS
<1>1. ASSUME NEW j \in Jobs, Producer(j) PROVE IInv'
  BY <1>1, InsertStep, PushNewStep, CommitQueuedStep, ProducerFailsStep
     DEF Producer, CreateJob
<1>2. ASSUME NEW old \in Jobs, NEW j \in Jobs, RetryFailed(old, j) PROVE IInv'
  BY <1>2, InsertStep DEF RetryFailed
<1>3. ASSUME NEW s \in Sources, ToggleCollection(s) \/ LockExpires(s) PROVE IInv'
  BY <1>3, ToggleStep, LockExpiresStep
<1>4. CASE Scheduler
  BY <1>4, SelectStaleStep, SelectRetriesStep, CommitStaleStep, PushRetryStep,
     CommitRetryStep, RetriesDoneStep, SchedulerFailsStep DEF Scheduler
<1>5. ASSUME NEW w \in Workers, Worker(w) PROVE IInv'
  BY <1>5, LoadStep, CheckRunningStep, AcquireStep, MarkRunningStep, FinishStep,
     AbortStep, ReleaseStep, WorkerDiesStep DEF Worker, Results
<1>6. CASE UNCHANGED vars
  BY <1>6, StutterStep
<1> QED
  BY <1>1, <1>2, <1>3, <1>4, <1>5, <1>6 DEF Next

\* The invariant holds in every reachable state.
THEOREM Invariance == Spec => []IInv
BY InitIInv, Inductive, PTL DEF Spec

\* Every variable keeps its type; in particular no job exceeds max_attempts.
THEOREM TypeCorrect == Spec => []TypeOK
<1>1. IInv => TypeOK
  BY DEF IInv
<1> QED
  BY <1>1, Invariance, PTL

\* "One source may not run concurrently": two collections of one source would
\* both hold the one token of its Redis key.
THEOREM SourceExclusion == Spec => []MutualExclusion
<1>1. IInv => MutualExclusion
  BY DEF IInv, LockHeld, LockSteps, MutualExclusion
<1> QED
  BY <1>1, Invariance, PTL

\* However jobs are redelivered, recovered and retried, a job is collected at
\* most max_attempts times, and once more per crash or redelivery.
THEOREM BoundedRetries == Spec => []RetryBudget
<1>1. IInv => RetryBudget
  <2> SUFFICES ASSUME IInv, NEW j \in Jobs
               PROVE  starts[j] <= MaxAttempts + faults
    BY DEF RetryBudget
  <2>1. attempt[j] + Unpaid(j) <= MaxAttempts
    BY JobsAssumption DEF IInv, TypeOK, RowsFresh, Unpaid, SchedulerState
  <2>2. starts[j] <= attempt[j] + faults + Unpaid(j)
    BY JobsAssumption DEF IInv, TypeOK, Budget, Executing, Unpushed, Unpaid
  <2> QED
    BY <2>1, <2>2, JobsAssumption DEF IInv, TypeOK, Unpaid
<1> QED
  BY <1>1, Invariance, PTL
-----------------------------------------------------------------------------
(***************************************************************************)
(* The contract of JobLifecycle, when the only fault is a collection that  *)
(* ends without its result.  Every entry of the queue then belongs to one  *)
(* step of its job's life, and every row in a process's hands still has    *)
(* the status it was picked for.                                           *)
(***************************************************************************)
OnlyAborts == Faults \subseteq {"abort"}

\* A producer is at work exactly while its job is PENDING; nobody else is.
Produced ==
  \A j \in Jobs :
    /\ enq[j] # "none" <=> status[j] = "PENDING"
    /\ enq[j] = "created" \/ status[j] = "NONE" => queue[j] = 0
    /\ status[j] \in {"NONE", "PENDING"} => \A w \in Workers : wjob[w] # j

\* An entry is the only one of a QUEUED job, or its push is not committed.
Entries ==
  \A j \in Jobs :
    /\ queue[j] <= 1
    /\ queue[j] > 0 => status[j] = "QUEUED" \/ PushUncommitted(j)

\* An execution has taken the entry, and the attempt it loaded is the row's.
Executed ==
  \A w \in Workers :
    /\ pc[w] \in RowSteps => status[wjob[w]] = "QUEUED"
    /\ pc[w] = "collecting" => status[wjob[w]] = "RUNNING"
    /\ pc[w] \in RowSteps \cup {"collecting"} =>
         queue[wjob[w]] = 0 /\ watt[w] = attempt[wjob[w]]

\* The rows the scheduler has read have the status it read them for.
Picked ==
  /\ sched.step = "recovering" => \A j \in sched.batch :
       /\ status[j] = "RUNNING" /\ sched.att[j] = attempt[j]
       /\ \A w \in Workers : wjob[w] = j => pc[w] # "collecting"
  /\ sched.step \in {"selected", "pushed"} =>
       \A j \in sched.batch : status[j] = "RETRY_WAIT"

Life == Produced /\ Entries /\ Executed /\ Picked

\* Every job makes a step of its life, or none.
Lives == \A j \in Jobs : Contract!JobStep(j) \/ Contract!Same(j)

\* Where the status of one job changes, and no attempt, it is a move of that job.
LEMMA OneMoves ==
  ASSUME status \in [Jobs -> Status], NEW j \in Jobs, NEW s \in Status,
         status' = [status EXCEPT ![j] = s], UNCHANGED attempt,
         \/ status[j] = "NONE" /\ s = "PENDING"
         \/ status[j] = "PENDING" /\ s = "QUEUED"
         \/ status[j] = "QUEUED" /\ s \in {"RUNNING", "SKIPPED"}
         \/ status[j] = "RUNNING" /\ s \in {"SUCCEEDED", "FAILED"}
         \/ status[j] = "RUNNING" /\ s = "RETRY_WAIT" /\ attempt[j] < MaxAttempts
  PROVE  Lives
<1>1. status'[j] = s /\ \A k \in Jobs : k # j => status'[k] = status[k]
  OBVIOUS
<1>2. \A k \in Jobs : attempt'[k] = attempt[k]
  OBVIOUS
<1>3. Contract!JobStep(j)
  BY <1>1, <1>2 DEF Contract!JobStep, Contract!Submit, Contract!Queue, Contract!Run,
     Contract!Skip, Contract!Succeed, Contract!Fail, Contract!Wait, Contract!Move
<1> QED
  BY <1>1, <1>2, <1>3 DEF Lives, Contract!Same

LEMMA NoneMoves ==
  ASSUME UNCHANGED <<status, attempt>>
  PROVE  Lives
BY DEF Lives, Contract!Same

LEMMA LifeInsert ==
  ASSUME IInv, Life, NEW j \in Jobs, Insert(j)
  PROVE  Life' /\ Lives
<1> USE DEF IInv, Life, Insert, db, exec, hist
<1>1. status[j] = "NONE" /\ UNCHANGED attempt
  OBVIOUS
<1>2. Lives
  BY <1>1, OneMoves DEF TypeOK, Status
<1>3. /\ status'[j] = "PENDING" /\ enq'[j] = "created"
      /\ \A k \in Jobs : k # j => status'[k] = status[k] /\ enq'[k] = enq[k]
  BY DEF TypeOK
<1>4. enq[j] = "none" /\ queue[j] = 0
  BY DEF Produced, Inserted
<1>5. Produced'
  BY <1>1, <1>3, <1>4 DEF Produced
<1>6. Entries'
  BY <1>1, <1>3, <1>4 DEF Entries, PushUncommitted
<1>7. Executed'
  BY <1>1, <1>3 DEF Executed, Produced, Busy, TypeOK, RowSteps
<1>8. Picked'
  BY <1>1, <1>3 DEF Picked, TypeOK, SchedulerState
<1> QED
  BY <1>2, <1>5, <1>6, <1>7, <1>8

LEMMA LifePushNew ==
  ASSUME IInv, Life, NEW j \in Jobs, PushNew(j)
  PROVE  Life' /\ Lives
<1> USE DEF IInv, Life, PushNew, db, exec, hist
<1>1. Lives
  BY NoneMoves
<1>2. /\ enq'[j] = "pushed" /\ queue'[j] = 1 /\ status[j] = "PENDING"
      /\ \A k \in Jobs : k # j => queue'[k] = queue[k] /\ enq'[k] = enq[k]
  BY DEF TypeOK, Produced
<1>3. Produced'
  BY <1>2 DEF Produced
<1>4. Entries'
  BY <1>2 DEF Entries, PushUncommitted
<1>5. Executed'
  BY <1>2 DEF Executed, Produced, Busy, TypeOK, RowSteps
<1>6. Picked'
  BY <1>2 DEF Picked
<1> QED
  BY <1>1, <1>3, <1>4, <1>5, <1>6

LEMMA LifeCommitQueued ==
  ASSUME IInv, Life, NEW j \in Jobs, CommitQueued(j)
  PROVE  Life' /\ Lives
<1> USE DEF IInv, Life, CommitQueued, db, exec, hist
<1>1. status[j] = "PENDING" /\ UNCHANGED attempt
  BY DEF Produced
<1>2. Lives
  BY <1>1, OneMoves DEF TypeOK, Status
<1>3. /\ status'[j] = "QUEUED" /\ enq'[j] = "none"
      /\ \A k \in Jobs : k # j => status'[k] = status[k] /\ enq'[k] = enq[k]
  BY DEF TypeOK
<1>4. Produced'
  BY <1>1, <1>3 DEF Produced
<1>5. Entries'
  BY <1>1, <1>3 DEF Entries, PushUncommitted
<1>6. Executed'
  BY <1>1, <1>3 DEF Executed, Produced, Busy, TypeOK, RowSteps
<1>7. Picked'
  BY <1>1, <1>3 DEF Picked, TypeOK, SchedulerState
<1> QED
  BY <1>2, <1>4, <1>5, <1>6, <1>7

LEMMA LifeSelectStale ==
  ASSUME IInv, Life, NEW B \in SUBSET Jobs, SelectStale(B)
  PROVE  Life' /\ Lives
<1> USE DEF IInv, Life, SelectStale, db, exec, hist
<1>1. Lives
  BY NoneMoves
<1>2. /\ sched'.step = "recovering" /\ sched'.batch = B /\ sched'.att = attempt
      /\ sched'.cur = sched.cur
  BY DEF TypeOK, SchedulerState
<1>3. Produced' /\ Executed'
  BY DEF Produced, Executed
<1>4. Entries'
  BY <1>2 DEF Entries, PushUncommitted
<1>5. Picked'
  BY <1>2 DEF Picked, Stale
<1> QED
  BY <1>1, <1>3, <1>4, <1>5

LEMMA LifeSelectRetries ==
  ASSUME IInv, Life, NEW B \in SUBSET Jobs, SelectRetries(B)
  PROVE  Life' /\ Lives
<1> USE DEF IInv, Life, SelectRetries, RetryBatch, db, exec, hist
<1>1. Lives
  BY NoneMoves
<1>2. sched'.step = "selected" /\ sched'.batch = B /\ sched'.cur = sched.cur
  BY DEF TypeOK, SchedulerState
<1>3. Produced' /\ Executed'
  BY DEF Produced, Executed
<1>4. Entries'
  BY <1>2 DEF Entries, PushUncommitted
<1>5. Picked'
  BY <1>2 DEF Picked
<1> QED
  BY <1>1, <1>3, <1>4, <1>5

LEMMA LifeCommitStale ==
  ASSUME IInv, Life, CommitStale
  PROVE  Life' /\ Lives
<1> USE DEF IInv, Life, CommitStale, db, exec, hist
<1>1. /\ UNCHANGED attempt /\ sched.step = "recovering" /\ sched.batch \subseteq Jobs
      /\ sched'.step = "retry" /\ sched'.cur = sched.cur
  BY DEF TypeOK, SchedulerState
<1>2. \A j \in sched.batch : status[j] = "RUNNING" /\ sched.att[j] = attempt[j]
  BY <1>1 DEF Picked
<1>3. \A j \in Jobs :
        /\ j \notin sched.batch => status'[j] = status[j]
        /\ j \in sched.batch => \/ status'[j] = "FAILED"
                                \/ status'[j] = "RETRY_WAIT" /\ sched.att[j] < MaxAttempts
  BY JobsAssumption DEF TypeOK, SchedulerState
<1>4. Lives
  <2> SUFFICES ASSUME NEW j \in Jobs PROVE Contract!JobStep(j) \/ Contract!Same(j)
    BY DEF Lives
  <2> QED
    BY <1>1, <1>2, <1>3 DEF Contract!JobStep, Contract!Fail, Contract!Wait, Contract!Move,
       Contract!Same
<1>5. Produced'
  BY <1>1, <1>2, <1>3 DEF Produced
<1>6. Entries'
  BY <1>1, <1>2, <1>3 DEF Entries, PushUncommitted
<1>7. \A w \in Workers : pc[w] \in RowSteps \cup {"collecting"} => wjob[w] \in Jobs \ sched.batch
  BY <1>1, <1>2 DEF Executed, Picked, Busy, TypeOK, RowSteps
<1>8. Executed'
  BY <1>1, <1>3, <1>7 DEF Executed
<1>9. Picked'
  BY <1>1 DEF Picked
<1> QED
  BY <1>4, <1>5, <1>6, <1>8, <1>9

LEMMA LifePushRetry ==
  ASSUME IInv, Life, NEW j \in Jobs, PushRetry(j)
  PROVE  Life' /\ Lives
<1> USE DEF IInv, Life, PushRetry, db, exec, hist
<1>1. Lives
  BY NoneMoves
<1>2. /\ sched'.step = "pushed" /\ sched'.batch = sched.batch /\ sched'.cur = j
      /\ sched.cur = NoJob /\ j \in sched.batch /\ status[j] = "RETRY_WAIT"
  BY DEF TypeOK, SchedulerState, RowsFresh, Picked
<1>3. queue[j] = 0
  BY <1>2, JobsAssumption DEF Entries, PushUncommitted, Produced, TypeOK
<1>4. queue'[j] = 1 /\ \A k \in Jobs : k # j => queue'[k] = queue[k]
  BY <1>3 DEF TypeOK
<1>5. Produced'
  BY <1>2, <1>4 DEF Produced
<1>6. Entries'
  BY <1>2, <1>4, JobsAssumption DEF Entries, PushUncommitted
<1>7. Executed'
  BY <1>2, <1>4 DEF Executed, Busy, TypeOK, RowSteps
<1>8. Picked'
  BY <1>2 DEF Picked
<1> QED
  BY <1>1, <1>5, <1>6, <1>7, <1>8

LEMMA LifeCommitRetry ==
  ASSUME IInv, Life, NEW j \in Jobs, CommitRetry(j)
  PROVE  Life' /\ Lives
<1> USE DEF IInv, Life, CommitRetry, db, exec, hist
<1>1. /\ sched.step = "pushed" /\ sched.cur = j /\ j \in sched.batch
      /\ status[j] = "RETRY_WAIT" /\ sched.att[j] = attempt[j] /\ attempt[j] < MaxAttempts
  BY DEF RowsFresh, Picked
<1>2. /\ sched'.step = "selected" /\ sched'.batch = sched.batch \ {j} /\ sched'.cur = NoJob
      /\ sched.batch \subseteq Jobs
  BY DEF TypeOK, SchedulerState
<1>3. /\ status'[j] = "QUEUED" /\ attempt'[j] = attempt[j] + 1
      /\ \A k \in Jobs : k # j => status'[k] = status[k] /\ attempt'[k] = attempt[k]
  BY <1>1 DEF TypeOK
<1>4. Contract!Retry(j)
  BY <1>1, <1>3 DEF Contract!Retry
<1>5. Lives
  BY <1>3, <1>4 DEF Lives, Contract!JobStep, Contract!Same
<1>6. Produced'
  BY <1>1, <1>3 DEF Produced
<1>7. Entries'
  BY <1>1, <1>2, <1>3, JobsAssumption DEF Entries, PushUncommitted
<1>8. Executed'
  BY <1>1, <1>3 DEF Executed, Busy, TypeOK, RowSteps
<1>9. Picked'
  BY <1>1, <1>2, <1>3 DEF Picked
<1> QED
  BY <1>5, <1>6, <1>7, <1>8, <1>9

LEMMA LifeRetriesDone ==
  ASSUME IInv, Life, RetriesDone
  PROVE  Life' /\ Lives
<1> USE DEF IInv, Life, RetriesDone, db, exec, hist
<1>1. Lives
  BY NoneMoves
<1>2. sched'.step = "recover" /\ sched'.cur = sched.cur
  BY DEF TypeOK, SchedulerState
<1>3. Produced' /\ Executed' /\ Entries' /\ Picked'
  BY <1>2 DEF Produced, Executed, Entries, PushUncommitted, Picked
<1> QED
  BY <1>1, <1>3

LEMMA LifeToggle ==
  ASSUME IInv, Life, NEW s \in Sources, ToggleCollection(s) \/ LockExpires(s)
  PROVE  Life' /\ Lives
<1> USE DEF IInv, Life, ToggleCollection, LockExpires, db, exec, hist
<1>1. Lives
  BY NoneMoves
<1>2. Produced' /\ Executed' /\ Entries' /\ Picked'
  BY DEF Produced, Executed, Entries, PushUncommitted, Picked
<1> QED
  BY <1>1, <1>2

\* The entry taken was that of a QUEUED job, and the last of that job.
LEMMA LifeLoad ==
  ASSUME IInv, Life, OnlyAborts, NEW w \in Workers, NEW j \in Jobs, Load(w, j)
  PROVE  Life' /\ Lives
<1> USE DEF IInv, Life, Load, db, exec, hist
<1>1. /\ ~PushUncommitted(j) /\ queue[j] > 0
      /\ queue' = [queue EXCEPT ![j] = @ - 1]
  BY DEF OnlyAborts, Dequeue, Fault
<1>2. /\ status[j] = "QUEUED" /\ enq[j] = "none" /\ sched.cur # j
      /\ UNCHANGED <<attempt, enq, sched>>
  BY <1>1 DEF Entries, Produced, PushUncommitted
<1>3. queue'[j] = 0 /\ \A k \in Jobs : k # j => queue'[k] = queue[k]
  BY <1>1 DEF Entries, TypeOK
<1>4. \A v \in Workers : pc[v] \in RowSteps \cup {"collecting"} => wjob[v] # j
  BY <1>1 DEF Executed
<1>5. CASE ~enabled[SourceOf[j]]
  <2>1. status' = [status EXCEPT ![j] = "SKIPPED"] /\ UNCHANGED exec
    BY <1>2, <1>5 DEF SetStatus, Terminal
  <2>2. Lives
    BY <1>2, <2>1, OneMoves DEF TypeOK, Status, Terminal
  <2>3. status'[j] = "SKIPPED" /\ \A k \in Jobs : k # j => status'[k] = status[k]
    BY <2>1 DEF TypeOK
  <2>4. Produced'
    BY <1>2, <1>3, <2>1, <2>3 DEF Produced
  <2>5. Entries'
    BY <1>2, <1>3, <2>3 DEF Entries, PushUncommitted
  <2>6. Executed'
    BY <1>2, <1>3, <1>4, <2>1, <2>3 DEF Executed, Busy, TypeOK, RowSteps
  <2>7. Picked'
    BY <1>2, <2>1, <2>3 DEF Picked, TypeOK, SchedulerState
  <2> QED
    BY <2>2, <2>4, <2>5, <2>6, <2>7
<1>6. CASE enabled[SourceOf[j]]
  <2>1. /\ pc' = [pc EXCEPT ![w] = "loaded"]
        /\ wjob' = [wjob EXCEPT ![w] = j]
        /\ watt' = [watt EXCEPT ![w] = attempt[j]]
        /\ UNCHANGED status
    BY <1>2, <1>6 DEF Terminal
  <2>2. Lives
    BY <1>2, <2>1, NoneMoves
  <2>3. /\ pc'[w] = "loaded" /\ wjob'[w] = j /\ watt'[w] = attempt[j]
        /\ \A v \in Workers : v # w =>
             pc'[v] = pc[v] /\ wjob'[v] = wjob[v] /\ watt'[v] = watt[v]
    BY <2>1 DEF TypeOK
  <2>4. Produced'
    BY <1>2, <1>3, <2>1, <2>3 DEF Produced
  <2>5. Entries'
    BY <1>2, <1>3, <2>1 DEF Entries, PushUncommitted
  <2>6. Executed'
    BY <1>2, <1>3, <1>4, <2>1, <2>3 DEF Executed, Busy, TypeOK, RowSteps
  <2>7. Picked'
    BY <1>2, <2>1, <2>3 DEF Picked, TypeOK, SchedulerState
  <2> QED
    BY <2>2, <2>4, <2>5, <2>6, <2>7
<1> QED
  BY <1>5, <1>6

\* A worker goes from one step of its execution to the next and writes nothing.
LEMMA LifeGoto ==
  ASSUME IInv, Life, NEW w \in Workers, NEW step \in Steps,
         (pc[w] \in RowSteps /\ step \in RowSteps) \/ step = "releasing",
         Goto(w, step), UNCHANGED <<db, queue, enq, sched>>
  PROVE  Life' /\ Lives
<1> USE DEF IInv, Life, Goto, db
<1>1. Lives
  BY NoneMoves
<1>2. pc'[w] = step /\ \A v \in Workers : v # w => pc'[v] = pc[v]
  BY DEF TypeOK
<1>3. Produced' /\ Entries'
  BY DEF Produced, Entries, PushUncommitted
<1>4. Executed'
  BY <1>2 DEF Executed, RowSteps
<1>5. Picked'
  BY <1>2 DEF Picked, RowSteps
<1> QED
  BY <1>1, <1>3, <1>4, <1>5

\* A worker gives its execution up; its job becomes SKIPPED.
LEMMA LifeSkip ==
  ASSUME IInv, Life, NEW w \in Workers, pc[w] \in RowSteps,
         SetStatus(wjob[w], "SKIPPED"), Leave(w),
         UNCHANGED <<attempt, queue, enq, sched>>
  PROVE  Life' /\ Lives
<1> USE DEF IInv, Life, Leave
<1> DEFINE j == wjob[w]
<1>1. j \in Jobs /\ status[j] = "QUEUED"
  BY DEF TypeOK, Busy, RowSteps, Executed
<1>2. status' = [status EXCEPT ![j] = "SKIPPED"]
  BY DEF SetStatus
<1>3. Lives
  BY <1>1, <1>2, OneMoves DEF TypeOK, Status, Terminal
<1>4. status'[j] = "SKIPPED" /\ \A k \in Jobs : k # j => status'[k] = status[k]
  BY <1>1, <1>2 DEF TypeOK
<1>5. /\ pc'[w] = "idle" /\ wjob'[w] = NoJob
      /\ \A v \in Workers : v # w =>
           pc'[v] = pc[v] /\ wjob'[v] = wjob[v] /\ watt'[v] = watt[v]
  BY DEF TypeOK
<1>6. \A v \in Workers : v # w /\ pc[v] \in RowSteps \cup {"collecting"} => wjob[v] # j
  BY <1>1 DEF Executed, RowOnce, RowSteps
<1> HIDE DEF j
<1>7. Produced'
  BY <1>1, <1>4, <1>5, JobsAssumption DEF Produced
<1>8. Entries'
  BY <1>1, <1>4, <1>5 DEF Entries, PushUncommitted, Executed, RowSteps, j
<1>9. Executed'
  BY <1>1, <1>4, <1>5, <1>6 DEF Executed, Busy, TypeOK, RowSteps
<1>10. Picked'
  BY <1>1, <1>4, <1>5, JobsAssumption DEF Picked, TypeOK, SchedulerState
<1> QED
  BY <1>3, <1>7, <1>8, <1>9, <1>10

LEMMA LifeCheckRunning ==
  ASSUME IInv, Life, NEW w \in Workers, CheckRunning(w)
  PROVE  Life' /\ Lives
<1>1. pc[w] \in RowSteps /\ UNCHANGED <<attempt, queue, enq, sched>>
  BY DEF CheckRunning, RowSteps
<1>2. CASE OtherRunning(w)
  BY <1>1, <1>2, LifeSkip DEF CheckRunning
<1>3. CASE ~OtherRunning(w)
  BY <1>1, <1>3, LifeGoto DEF CheckRunning, db, RowSteps, Steps
<1> QED
  BY <1>2, <1>3

LEMMA LifeAcquire ==
  ASSUME IInv, Life, NEW w \in Workers, Acquire(w)
  PROVE  Life' /\ Lives
<1>1. pc[w] \in RowSteps /\ UNCHANGED <<attempt, queue, enq, sched>>
  BY DEF Acquire, RowSteps
<1>2. CASE lock[Src(w)] # NoWorker
  BY <1>1, <1>2, LifeSkip DEF Acquire
<1>3. CASE lock[Src(w)] = NoWorker
  BY <1>1, <1>3, LifeGoto DEF Acquire, db, RowSteps, Steps
<1> QED
  BY <1>2, <1>3

LEMMA LifeMarkRunning ==
  ASSUME IInv, Life, NEW w \in Workers, MarkRunning(w)
  PROVE  Life' /\ Lives
<1> USE DEF IInv, Life, MarkRunning, Goto
<1> DEFINE j == wjob[w]
<1>1. /\ j \in Jobs /\ status[j] = "QUEUED" /\ queue[j] = 0 /\ watt[w] = attempt[j]
      /\ UNCHANGED attempt
  BY DEF TypeOK, Busy, RowSteps, Executed
<1>2. Lives
  BY <1>1, OneMoves DEF TypeOK, Status
<1>3. status'[j] = "RUNNING" /\ \A k \in Jobs : k # j => status'[k] = status[k]
  BY <1>1 DEF TypeOK
<1>4. pc'[w] = "collecting" /\ \A v \in Workers : v # w => pc'[v] = pc[v]
  BY DEF TypeOK
<1>5. \A v \in Workers : v # w /\ pc[v] \in RowSteps \cup {"collecting"} => wjob[v] # j
  BY <1>1 DEF Executed, RowOnce, RowSteps
<1> HIDE DEF j
<1>6. Produced'
  BY <1>1, <1>3 DEF Produced
<1>7. Entries'
  BY <1>1, <1>3 DEF Entries, PushUncommitted
<1>8. Executed'
  <2> SUFFICES ASSUME NEW v \in Workers
      PROVE  /\ pc'[v] \in RowSteps => status'[wjob[v]] = "QUEUED"
             /\ pc'[v] = "collecting" => status'[wjob[v]] = "RUNNING"
             /\ pc'[v] \in RowSteps \cup {"collecting"} =>
                  queue[wjob[v]] = 0 /\ watt[v] = attempt[wjob[v]]
    BY DEF Executed
  <2>1. CASE v = w
    BY <1>1, <1>3, <1>4, <2>1 DEF RowSteps, j
  <2>2. CASE v # w
    BY <1>1, <1>3, <1>4, <1>5, <2>2 DEF Executed, Busy, TypeOK, RowSteps
  <2> QED
    BY <2>1, <2>2
<1>9. Picked'
  BY <1>1, <1>3, <1>4 DEF Picked, TypeOK, SchedulerState, j
<1> QED
  BY <1>2, <1>6, <1>7, <1>8, <1>9

\* The attempt the outcome is judged by is the row's: RETRY_WAIT only below the limit.
LEMMA LifeFinish ==
  ASSUME IInv, Life, NEW w \in Workers, NEW result, Finish(w, result)
  PROVE  Life' /\ Lives
<1> USE DEF IInv, Life, Finish, Goto
<1> DEFINE j == wjob[w]
<1>1. /\ j \in Jobs /\ status[j] = "RUNNING" /\ watt[w] = attempt[j]
      /\ UNCHANGED attempt
  BY DEF TypeOK, Busy, Executed
<1>2. PICK o \in {"SUCCEEDED", "FAILED", "RETRY_WAIT"} :
        /\ o = Outcome(w, result)
        /\ o = "RETRY_WAIT" => attempt[j] < MaxAttempts
  BY <1>1 DEF Outcome
<1>3. status' = [status EXCEPT ![j] = o]
  BY <1>2 DEF SetStatus
<1>4. Lives
  BY <1>1, <1>2, <1>3, OneMoves DEF TypeOK, Status, Terminal
<1>5. status'[j] = o /\ \A k \in Jobs : k # j => status'[k] = status[k]
  BY <1>1, <1>3 DEF TypeOK
<1>6. pc'[w] = "releasing" /\ \A v \in Workers : v # w => pc'[v] = pc[v]
  BY DEF TypeOK
<1>7. \A v \in Workers : v # w /\ pc[v] = "collecting" => wjob[v] # j
  BY JobsAssumption DEF LockHeld, LockSteps, Src
<1>8. \A v \in Workers : pc[v] \in RowSteps => wjob[v] # j
  BY <1>1 DEF Executed
<1>9. sched.step = "recovering" => j \notin sched.batch
  BY DEF Picked
<1>10. j # NoJob
  BY <1>1, JobsAssumption
<1> HIDE DEF j
<1>11. Produced'
  BY <1>1, <1>2, <1>5 DEF Produced
<1>12. Entries'
  BY <1>1, <1>5 DEF Entries, PushUncommitted
<1>13. Executed'
  BY <1>1, <1>5, <1>6, <1>7, <1>8 DEF Executed, Busy, TypeOK, RowSteps
<1>14. Picked'
  BY <1>1, <1>5, <1>6, <1>9 DEF Picked, TypeOK, SchedulerState
<1> QED
  BY <1>4, <1>11, <1>12, <1>13, <1>14

LEMMA LifeRelease ==
  ASSUME IInv, Life, NEW w \in Workers, Release(w)
  PROVE  Life' /\ Lives
<1> USE DEF IInv, Life, Release, Leave, db, hist
<1>1. Lives
  BY NoneMoves
<1>2. /\ pc'[w] = "idle" /\ wjob'[w] = NoJob
      /\ \A v \in Workers : v # w =>
           pc'[v] = pc[v] /\ wjob'[v] = wjob[v] /\ watt'[v] = watt[v]
  BY DEF TypeOK
<1>3. Produced'
  BY <1>2, JobsAssumption DEF Produced
<1>4. Entries'
  BY DEF Entries, PushUncommitted
<1>5. Executed'
  BY <1>2 DEF Executed, RowSteps
<1>6. Picked'
  BY <1>2, JobsAssumption DEF Picked
<1> QED
  BY <1>1, <1>3, <1>4, <1>5, <1>6

\* Life holds of every reachable state, and every step keeps the contract.
LEMMA LifeStep ==
  ASSUME OnlyAborts, IInv, Life, [Next]_vars
  PROVE  Life' /\ Lives
<1>1. ASSUME NEW j \in Jobs, Producer(j) PROVE Life' /\ Lives
  <2>1. ~ProducerFails(j)
    BY DEF OnlyAborts, ProducerFails, Fault
  <2> QED
    BY <1>1, <2>1, LifeInsert, LifePushNew, LifeCommitQueued DEF Producer, CreateJob
<1>2. ASSUME NEW old \in Jobs, NEW j \in Jobs, RetryFailed(old, j) PROVE Life' /\ Lives
  BY <1>2, LifeInsert DEF RetryFailed
<1>3. ASSUME NEW s \in Sources, ToggleCollection(s) \/ LockExpires(s) PROVE Life' /\ Lives
  BY <1>3, LifeToggle
<1>4. ASSUME Scheduler PROVE Life' /\ Lives
  <2>1. ~SchedulerFails
    BY DEF OnlyAborts, SchedulerFails, Fault
  <2> QED
    BY <1>4, <2>1, LifeSelectStale, LifeSelectRetries, LifeCommitStale, LifePushRetry,
       LifeCommitRetry, LifeRetriesDone DEF Scheduler
<1>5. ASSUME NEW w \in Workers, Worker(w) PROVE Life' /\ Lives
  <2>1. ~WorkerDies(w)
    BY DEF OnlyAborts, WorkerDies, Fault
  <2>2. ASSUME AbortCollection(w) PROVE Life' /\ Lives
    BY <2>2, LifeGoto DEF AbortCollection, Steps
  <2> QED
    BY <1>5, <2>1, <2>2, LifeLoad, LifeCheckRunning, LifeAcquire, LifeMarkRunning,
       LifeFinish, LifeRelease DEF Worker
<1>6. ASSUME UNCHANGED vars PROVE Life' /\ Lives
  BY <1>6, NoneMoves DEF vars, db, exec, hist, Life, Produced, Entries, Executed, Picked,
     PushUncommitted
<1> QED
  BY <1>1, <1>2, <1>3, <1>4, <1>5, <1>6 DEF Next

LEMMA LifeInit == Init => Life
<1> SUFFICES ASSUME Init PROVE Life
  OBVIOUS
<1> USE DEF Init
<1>1. Produced
  BY JobsAssumption DEF Produced
<1>2. Entries
  BY DEF Entries
<1>3. Executed
  BY DEF Executed, RowSteps
<1>4. Picked
  BY DEF Picked
<1> QED
  BY <1>1, <1>2, <1>3, <1>4 DEF Life

\* While collections may only end without a result - no entry delivered twice or
\* before the commit of QUEUED, no process killed elsewhere - the code implements
\* JobLifecycle: a job keeps its terminal status, waits for a retry only while one
\* is left, and pays each retry with one attempt.
THEOREM ContractKept == OnlyAborts => (Spec => LifecycleKept)
<1> SUFFICES ASSUME OnlyAborts PROVE Spec => LifecycleKept
  OBVIOUS
<1>1. Init => Life /\ Contract!Init
  BY LifeInit DEF Init, Contract!Init
<1>2. IInv /\ Life /\ [Next]_vars => Life' /\ Contract!Next
  BY LifeStep DEF Lives, Contract!Next
<1> QED
  BY <1>1, <1>2, Invariance, PTL DEF Spec, LifecycleKept, Contract!Spec

\* A job that has had a terminal status still has one.
Settled == \A j \in ended : status[j] \in Terminal

\* A terminal status is never left where the contract is kept, and becoming
\* terminal is what puts a job among the ended ones.
LEMMA SettledStep ==
  ASSUME IInv, Settled, Lives, [Next]_vars
  PROVE  Settled'
<1>0. /\ ended \subseteq Jobs
      /\ status \in [Jobs -> Status] /\ wjob \in [Workers -> Jobs \cup {NoJob}]
      /\ sched.batch \subseteq Jobs
  BY DEF IInv, TypeOK, SchedulerState
<1>1. \A j \in ended : status'[j] \in Terminal
  BY <1>0 DEF Settled, Lives, Terminal, Contract!JobStep, Contract!Submit, Contract!Queue,
     Contract!Run, Contract!Skip, Contract!Succeed, Contract!Fail, Contract!Wait,
     Contract!Retry, Contract!Move, Contract!Same
<1>2. ASSUME ended' = ended PROVE Settled'
  BY <1>1, <1>2 DEF Settled
<1>3. ASSUME NEW j \in Jobs, NEW s \in Status, SetStatus(j, s) PROVE Settled'
  <2>1. \A k \in ended' : k \in ended \/ (k = j /\ s \in Terminal)
    BY <1>3 DEF SetStatus
  <2>2. status'[j] = s
    BY <1>0, <1>3 DEF SetStatus
  <2> QED
    BY <1>1, <2>1, <2>2 DEF Settled
<1>4. CASE CommitStale
  <2> DEFINE Spent == {j \in sched.batch : sched.att[j] >= MaxAttempts}
  <2>1. ended' = ended \cup Spent /\ \A j \in Spent : status'[j] = "FAILED"
    BY <1>0, <1>4 DEF CommitStale
  <2> QED
    BY <1>1, <2>1 DEF Settled, Terminal
<1>5. ASSUME NEW w \in Workers, Worker(w) PROVE Settled'
  <2>1. \A j \in Jobs : Load(w, j) => ended' = ended \/ SetStatus(j, "SKIPPED")
    BY DEF Load
  <2>2. CheckRunning(w) => ended' = ended \/ (wjob[w] \in Jobs /\ SetStatus(wjob[w], "SKIPPED"))
    BY <1>0 DEF CheckRunning, IInv, Busy
  <2>3. Acquire(w) => ended' = ended \/ (wjob[w] \in Jobs /\ SetStatus(wjob[w], "SKIPPED"))
    BY <1>0 DEF Acquire, IInv, Busy
  <2>4. ASSUME NEW result \in Results, Finish(w, result) PROVE Settled'
    <3>1. wjob[w] \in Jobs
      BY <1>0, <2>4 DEF Finish, IInv, Busy
    <3>2. Outcome(w, result) \in Status
      BY DEF Outcome, Status, Terminal
    <3> QED
      BY <1>3, <2>4, <3>1, <3>2 DEF Finish
  <2>5. MarkRunning(w) \/ AbortCollection(w) \/ Release(w) \/ WorkerDies(w) => ended' = ended
    BY DEF MarkRunning, AbortCollection, Release, WorkerDies, hist
  <2>6. "SKIPPED" \in Status
    BY DEF Status, Terminal
  <2> QED
    BY <1>2, <1>3, <1>5, <2>1, <2>2, <2>3, <2>4, <2>5, <2>6 DEF Worker, Results
<1>6. ASSUME \/ \E j \in Jobs : Producer(j) \/ \E old \in Jobs : RetryFailed(old, j)
             \/ \E s \in Sources : ToggleCollection(s) \/ LockExpires(s)
             \/ Scheduler /\ ~CommitStale
             \/ UNCHANGED vars
      PROVE  ended' = ended
  BY <1>6 DEF Producer, CreateJob, RetryFailed, Insert, PushNew, CommitQueued, ProducerFails,
     ToggleCollection, LockExpires, Scheduler, SelectStale, SelectRetries, RetryBatch, PushRetry,
     CommitRetry, RetriesDone, SchedulerFails, vars, hist
<1> QED
  BY <1>2, <1>4, <1>5, <1>6 DEF Next

\* README "Terminal jobs are not executed again" holds where the contract does: as
\* long as nothing is delivered twice or before its commit, and no process is killed
\* outside a collection.
THEOREM TerminalFinal == OnlyAborts => (Spec => TerminalNotExecuted)
<1> SUFFICES ASSUME OnlyAborts PROVE Spec => TerminalNotExecuted
  OBVIOUS
<1>1. Init => Life /\ Settled
  BY LifeInit DEF Init, Settled
<1>2. IInv /\ Life /\ Settled /\ [Next]_vars => (Life /\ Settled)'
  BY LifeStep, SettledStep
<1>3. IInv /\ Life /\ Settled =>
        [\A w \in Workers : pc[w] = "locked" /\ pc'[w] = "collecting" => wjob[w] \notin ended]_vars
  BY DEF Life, Executed, RowSteps, Settled, Terminal
<1> QED
  BY <1>1, <1>2, <1>3, Invariance, PTL DEF Spec, TerminalNotExecuted
=============================================================================
