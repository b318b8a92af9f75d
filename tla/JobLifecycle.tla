---------------------------- MODULE JobLifecycle ----------------------------
(***************************************************************************)
(* What a source collection job promises to its readers (operations        *)
(* dashboard, source status): README "Scheduler & Worker v1".  Each job    *)
(* moves on its own; nothing is said of queues, locks or workers.          *)
(***************************************************************************)
EXTENDS Naturals

CONSTANTS Jobs, MaxAttempts

VARIABLES status, attempt

Same(j) == status'[j] = status[j] /\ attempt'[j] = attempt[j]

Move(j, from, to) ==
  status[j] = from /\ status'[j] = to /\ attempt'[j] = attempt[j]

Submit(j) == Move(j, "NONE", "PENDING")

Queue(j) == Move(j, "PENDING", "QUEUED")

Run(j) == Move(j, "QUEUED", "RUNNING")

Skip(j) == Move(j, "QUEUED", "SKIPPED")

Succeed(j) == Move(j, "RUNNING", "SUCCEEDED")

Fail(j) == Move(j, "RUNNING", "FAILED")

\* A retry is promised only while there are attempts left.
Wait(j) == attempt[j] < MaxAttempts /\ Move(j, "RUNNING", "RETRY_WAIT")

\* The only step that consumes an attempt.
Retry(j) ==
  /\ status[j] = "RETRY_WAIT" /\ status'[j] = "QUEUED"
  /\ attempt[j] < MaxAttempts /\ attempt'[j] = attempt[j] + 1

JobStep(j) ==
  \/ Submit(j) \/ Queue(j) \/ Run(j) \/ Skip(j)
  \/ Succeed(j) \/ Fail(j) \/ Wait(j) \/ Retry(j)

Init ==
  /\ status = [j \in Jobs |-> "NONE"]
  /\ attempt = [j \in Jobs |-> 1]

\* Recovery may move several jobs in one commit.
Next == \A j \in Jobs : JobStep(j) \/ Same(j)

Spec == Init /\ [][Next]_<<status, attempt>>
=============================================================================
