-------------------------- MODULE TelegramCollector --------------------------
(***************************************************************************)
(* integrations/telegram/collector.py: the collection runs of one source,  *)
(* one at a time (CollectionJobs!MutualExclusion), against a channel where *)
(* messages are posted and edited at any moment.                           *)
(*                                                                         *)
(* A run fetches a batch, then saves each message (record, revision,       *)
(* snapshot, each with a commit) and has the snapshot processed.  The      *)
(* cursor moves in memory and is written by whichever commit comes next;   *)
(* a rollback reads it again.  Processing a snapshot is one step here, see *)
(* SupplierSnapshots.  Counters are left out but for failed_count > 0.     *)
(***************************************************************************)
EXTENDS Integers, Sequences

CONSTANTS
  MaxMessages,  \* bound: messages posted, with the ids 1..MaxMessages
  Texts,        \* what a message may say
  Blank,        \* a service message, or one without text
  Limit,        \* messages fetched at most
  Modes,        \* the modes used, a subset of {"BACKFILL", "INCREMENTAL"}
  Faults,       \* the kinds of fault that happen, a subset of FaultKinds
  MaxFaults,    \* bound: how many of them
  MaxEdits      \* bound: edits in the channel

FaultKinds == {"crash", "network", "persist", "downstream"}

ASSUME CollectorAssumption ==
  /\ MaxMessages \in Nat
  /\ Blank \notin Texts
  /\ Limit \in Nat \ {0}
  /\ Modes \subseteq {"BACKFILL", "INCREMENTAL"}
  /\ Faults \subseteq FaultKinds
  /\ MaxFaults \in Nat
  /\ MaxEdits \in Nat

Messages == 1..MaxMessages
Contents == Texts \cup {Blank}

VARIABLES
  posted,   \* id of the newest message of the channel
  text,     \* [Messages -> Contents], what the channel shows
  edits,
  cursor,   \* column last_collected_message_id, 0 for NULL
  record,   \* messages with a raw_source_records row
  rev,      \* [Messages -> Seq(Texts)], raw_content by revision_no
  shots,    \* [Messages -> SUBSET Nat], revision_no with a supplier snapshot
  status,   \* status of the last run
  pc,       \* step of collect_source
  seen,     \* source.last_collected_message_id in the session
  todo,     \* fetched messages not handled yet
  got,      \* [Messages -> Contents], the batch as it was fetched
  failed,   \* run.failed_count > 0
  faults,
  ignored,  \* history: messages classified as ignored
  orphans,  \* history: <<message, revision_no>> whose handling ended, killed or with an
            \* exception, between the commits of the revision and of its snapshot
  lost,     \* history: messages whose persisting has raised
  cut,      \* history: messages older than the Limit newest ones of a fetch
  trouble   \* history: an exception was handled in the current run

channel == <<posted, text, edits>>
saved   == <<record, rev, shots>>
session == <<seen, todo, got, failed>>
history == <<ignored, orphans, lost, cut, trouble>>
vars == <<channel, cursor, saved, status, pc, session, faults, history>>

RunStatus == {"NONE", "RUNNING", "COMPLETED", "PARTIAL", "FAILED"}
Steps == {"idle", "fetching", "messages", "recording", "revising", "refreshing", "saved",
          "created"}

Init ==
  /\ posted = 0
  /\ text = [m \in Messages |-> Blank]
  /\ edits = 0
  /\ cursor = 0
  /\ record = {}
  /\ rev = [m \in Messages |-> <<>>]
  /\ shots = [m \in Messages |-> {}]
  /\ status = "NONE"
  /\ pc = "idle"
  /\ seen = 0
  /\ todo = {}
  /\ got = [m \in Messages |-> Blank]
  /\ failed = FALSE
  /\ faults = 0
  /\ ignored = {}
  /\ orphans = {}
  /\ lost = {}
  /\ cut = {}
  /\ trouble = FALSE

Fault(k) == k \in Faults /\ faults < MaxFaults /\ faults' = faults + 1

(***************************************************************************)
(* The channel                                                             *)
(***************************************************************************)
Post(t) ==
  /\ posted < MaxMessages
  /\ posted' = posted + 1
  /\ text' = [text EXCEPT ![posted + 1] = t]
  /\ UNCHANGED <<edits, cursor, saved, status, pc, session, faults, history>>

Edit(m, t) ==
  /\ edits < MaxEdits
  /\ m <= posted
  /\ text[m] # t
  /\ text' = [text EXCEPT ![m] = t]
  /\ edits' = edits + 1
  /\ UNCHANGED <<posted, cursor, saved, status, pc, session, faults, history>>

(***************************************************************************)
(* A run                                                                   *)
(***************************************************************************)
Start ==
  /\ pc = "idle"
  /\ pc' = "fetching"
  /\ status' = "RUNNING"
  /\ seen' = cursor
  /\ UNCHANGED <<channel, cursor, saved, todo, got, failed, faults, history>>

\* The session ends with the run.
EndRun ==
  /\ pc' = "idle"
  /\ seen' = 0
  /\ todo' = {}
  /\ got' = [m \in Messages |-> Blank]
  /\ failed' = FALSE
  /\ trouble' = FALSE

Newest == {m \in Messages : m <= posted /\ m > posted - Limit}

FetchStrictly(mode) ==   \* mutant: off by one at the cursor
  /\ pc = "fetching"
  /\ todo' = {m \in Newest : mode = "INCREMENTAL" /\ seen # 0 => m > seen + 1}
  /\ got' = [m \in Messages |-> IF m \in todo' THEN text[m] ELSE Blank]
  /\ cut' = cut \cup {m \in 1..posted : m \notin Newest}
  /\ pc' = "messages"
  /\ UNCHANGED <<channel, cursor, saved, status, seen, failed, faults, ignored, orphans, lost, trouble>>

\* Telegram is asked for the newest messages; the cursor filters the answer.
Fetch(mode) ==
  /\ pc = "fetching"
  /\ todo' = {m \in Newest : mode = "INCREMENTAL" /\ seen # 0 => m > seen}
  /\ got' = [m \in Messages |-> IF m \in todo' THEN text[m] ELSE Blank]
  /\ cut' = cut \cup {m \in 1..posted : m \notin Newest}
  /\ pc' = "messages"
  /\ UNCHANGED <<channel, cursor, saved, status, seen, failed, faults, ignored, orphans, lost, trouble>>

\* Session, access, network or rate limit: the run fails before any message.
FetchFails ==
  /\ Fault("network")
  /\ pc = "fetching"
  /\ status' = "FAILED"
  /\ EndRun
  /\ UNCHANGED <<channel, cursor, saved, ignored, orphans, lost, cut>>

\* Messages are handled oldest first.
Current(m) == m \in todo /\ \A n \in todo : m <= n

UpTo(m) == IF seen < m THEN m ELSE seen

IgnoreAndNext(m) ==   \* mutant: off by one in the cursor
  /\ pc = "messages"
  /\ Current(m)
  /\ got[m] = Blank
  /\ ignored' = ignored \cup {m}
  /\ seen' = UpTo(m + 1)
  /\ todo' = todo \ {m}
  /\ UNCHANGED <<channel, cursor, saved, status, pc, got, failed, faults, orphans, lost, cut, trouble>>

Ignore(m) ==
  /\ pc = "messages"
  /\ Current(m)
  /\ got[m] = Blank
  /\ ignored' = ignored \cup {m}
  /\ seen' = UpTo(m)
  /\ todo' = todo \ {m}
  /\ UNCHANGED <<channel, cursor, saved, status, pc, got, failed, faults, orphans, lost, cut, trouble>>

LastIs(m, t) == rev[m] # <<>> /\ rev[m][Len(rev[m])] = t

Duplicate(m) ==
  /\ pc = "messages"
  /\ Current(m)
  /\ got[m] # Blank
  /\ LastIs(m, got[m])
  /\ seen' = UpTo(m)
  /\ todo' = todo \ {m}
  /\ UNCHANGED <<channel, cursor, saved, status, pc, got, failed, faults, history>>

\* New or edited: the record is missing, or its last revision says otherwise.
Lookup(m) ==
  /\ pc = "messages"
  /\ Current(m)
  /\ got[m] # Blank
  /\ ~LastIs(m, got[m])
  /\ pc' = IF m \in record THEN "revising" ELSE "recording"
  /\ UNCHANGED <<channel, cursor, saved, status, session, faults, history>>

Commit == cursor' = seen

CreateRecordEarly(m) ==   \* mutant: the cursor moves before the text is saved
  /\ pc = "recording"
  /\ Current(m)
  /\ record' = record \cup {m}
  /\ seen' = UpTo(m)
  /\ cursor' = UpTo(m)
  /\ pc' = "revising"
  /\ UNCHANGED <<channel, rev, shots, status, todo, got, failed, faults, history>>

CreateRecord(m) ==
  /\ pc = "recording"
  /\ Current(m)
  /\ record' = record \cup {m}
  /\ Commit
  /\ pc' = "revising"
  /\ UNCHANGED <<channel, rev, shots, status, session, faults, history>>

\* Unique (raw_source_record_id, content_hash).
Repeated(m) == \E i \in 1..Len(rev[m]) : rev[m][i] = got[m]

SaveRevision(m) ==
  /\ pc = "revising"
  /\ Current(m)
  /\ ~Repeated(m)
  /\ rev' = [rev EXCEPT ![m] = Append(@, got[m])]
  /\ Commit
  /\ pc' = "refreshing"
  /\ UNCHANGED <<channel, record, shots, status, session, faults, history>>

\* The revision is read back, still inside the try; then the cursor moves.
Refresh(m) ==
  /\ pc = "refreshing"
  /\ Current(m)
  /\ seen' = UpTo(m)
  /\ pc' = "saved"
  /\ UNCHANGED <<channel, cursor, saved, status, todo, got, failed, faults, history>>

\* The except clauses: rollback, the cursor is read again, the message is given
\* up for this run.
FailureUncounted ==   \* mutant: failed_count raised before the rollback
  /\ seen' = cursor
  /\ trouble' = TRUE
  /\ failed' = failed
  /\ pc' = "messages"

Failure ==
  /\ seen' = cursor
  /\ trouble' = TRUE
  /\ failed' = TRUE
  /\ pc' = "messages"

GiveUp(m) ==
  /\ Current(m)
  /\ Failure
  /\ todo' = todo \ {m}
  /\ UNCHANGED <<channel, cursor, record, rev, status, got, ignored, cut>>

\* An edit back to an earlier text violates the unique key; the handler then
\* reads an expired row (existing.id) and raises.
RevisionRepeated(m) ==
  /\ pc = "revising"
  /\ Repeated(m)
  /\ GiveUp(m)
  /\ UNCHANGED <<shots, faults, lost, orphans>>

PersistFails(m) ==
  /\ Fault("persist")
  /\ pc \in {"recording", "revising"}
  /\ GiveUp(m)
  /\ lost' = lost \cup {m}
  /\ UNCHANGED <<shots, orphans>>

Orphaned(m) == orphans' = orphans \cup {<<m, Len(rev[m])>>}

\* The revision stays: the next run meets it as a duplicate, and makes no snapshot.
RefreshFails(m) ==
  /\ Fault("persist")
  /\ pc = "refreshing"
  /\ GiveUp(m)
  /\ Orphaned(m)
  /\ UNCHANGED <<shots, lost>>

CreateSnapshot(m) ==
  /\ pc = "saved"
  /\ Current(m)
  /\ shots' = [shots EXCEPT ![m] = @ \cup {Len(rev[m])}]
  /\ Commit
  /\ pc' = "created"
  /\ UNCHANGED <<channel, record, rev, status, session, faults, history>>

ProcessSnapshot(m) ==
  /\ pc = "created"
  /\ Current(m)
  /\ todo' = todo \ {m}
  /\ pc' = "messages"
  /\ UNCHANGED <<channel, cursor, saved, status, seen, got, failed, faults, history>>

ProcessingFails(m) ==
  /\ Fault("downstream")
  /\ pc = "created"
  /\ GiveUp(m)
  /\ UNCHANGED <<shots, lost, orphans>>

Finish ==
  /\ pc = "messages"
  /\ todo = {}
  /\ status' = IF failed THEN "PARTIAL" ELSE "COMPLETED"
  /\ Commit
  /\ EndRun
  /\ UNCHANGED <<channel, saved, faults, ignored, orphans, lost, cut>>

\* The worker is killed, or an error no clause handles ends the run.
Crash ==
  /\ Fault("crash")
  /\ pc # "idle"
  /\ IF pc \in {"refreshing", "saved"}
       THEN \E m \in todo : Current(m) /\ Orphaned(m)
       ELSE UNCHANGED orphans
  /\ EndRun
  /\ UNCHANGED <<channel, cursor, saved, status, ignored, lost, cut>>

Handle(m) ==
  \/ Ignore(m) \/ Duplicate(m) \/ Lookup(m)
  \/ CreateRecord(m) \/ SaveRevision(m) \/ Refresh(m) \/ RevisionRepeated(m)
  \/ CreateSnapshot(m) \/ ProcessSnapshot(m)

Run ==
  \/ Start
  \/ \E mode \in Modes : Fetch(mode)
  \/ \E m \in Messages : Handle(m)
  \/ Finish

Next ==
  \/ \E t \in Contents : Post(t)
  \/ \E m \in Messages, t \in Contents : Edit(m, t)
  \/ Run
  \/ FetchFails
  \/ \E m \in Messages : PersistFails(m) \/ RefreshFails(m) \/ ProcessingFails(m)
  \/ Crash

Spec == Init /\ [][Next]_vars

\* The scheduler starts run after run, and a run that is not disturbed goes on.
FairSpec == Spec /\ WF_vars(Run)

-----------------------------------------------------------------------------
\* Types of every variable; no cursor beyond the newest message.
TypeOK ==
  /\ posted \in 0..MaxMessages
  /\ text \in [Messages -> Contents]
  /\ edits \in 0..MaxEdits
  /\ cursor \in 0..posted
  /\ record \subseteq Messages
  /\ rev \in [Messages -> Seq(Texts)]
  /\ shots \in [Messages -> SUBSET Nat]
  /\ status \in RunStatus
  /\ pc \in Steps
  /\ seen \in 0..posted
  /\ todo \subseteq 1..posted
  /\ got \in [Messages -> Contents]
  /\ failed \in BOOLEAN
  /\ faults \in 0..MaxFaults
  /\ ignored \subseteq Messages
  /\ lost \subseteq Messages
  /\ cut \subseteq Messages
  /\ orphans \subseteq Messages \X Nat
  /\ trouble \in BOOLEAN

Dealt(m) == m \in ignored \/ rev[m] # <<>>

\* No message at or below the cursor, which no incremental run asks for again, is
\* missing, whatever run dies where, but for those whose persisting raised and
\* those that more than Limit new messages hid from a fetch.
NoneSkipped == \A m \in 1..cursor : Dealt(m) \/ m \in lost \/ m \in cut

\* README "Incremental fetches messages after Source.last_collected_message_id.
\* [...] The cursor advances only after the message has been safely persisted or
\* safely classified as ignored": once there is a cursor, no advance passes a
\* message that is neither.
AdvancesAfterPersisting ==
  [][cursor # 0 => \A m \in (cursor + 1)..cursor' : Dealt(m)']_vars

\* What COMPLETED tells an operator: no exception was handled, and each message
\* of the run has its text as the last revision, with a snapshot of exactly that
\* revision, but for revisions whose handling ended, killed or with an exception,
\* between their own commit and that of the snapshot: a later run takes them for
\* duplicates and is COMPLETED.
CompletedCovers ==
  [][pc = "messages" /\ pc' = "idle" /\ status' = "COMPLETED" =>
       /\ ~trouble
       /\ \A m \in Messages : got[m] # Blank =>
            /\ LastIs(m, got[m])
            /\ Len(rev[m]) \in shots[m] \/ <<m, Len(rev[m])>> \in orphans]_vars

\* Whatever crashes and fails downstream, each message is saved in the end, with
\* the same two exceptions.
EveryMessageSaved ==
  \A m \in Messages : m <= posted ~> (Dealt(m) \/ m \in lost \/ m \in cut)
=============================================================================
