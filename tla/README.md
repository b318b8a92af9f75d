# Verification of avito-automation

TLA+ models of the back end under `src/apps/api/app` and of the operator console
under `src/apps/web`, the TLC runs that check them and the TLAPS proofs about
them. Paths of Python files are relative to `src/apps/api/app`, those of `.ts` and
`.tsx` files to `src/apps/web`; `README:n` is line n of `src/README.md`.

## 1. The system

Suppliers post price lists in Telegram channels. The back end collects the
messages, stores every revision of their text, parses and matches the lines to
product variants, keeps one offer per supplier and variant with its
availability, imports the firm's own stock from 1C, computes a price, prepares a
listing and a publication job. PostgreSQL holds the state, Redis the job queue
and the source locks. Four kinds of process run: the API server, one scheduler
loop, RQ workers, and command-line tools.

| Component | State it keeps | Operations | What makes it correct |
|---|---|---|---|
| Source collection jobs (`jobs/`) | job rows (status, attempt, idempotency key), schedule slots, RQ list, Redis key per source | create and enqueue (API, scheduler tick), execute, retry, recover stale | one source is collected by one worker at a time; bounded attempts; terminal jobs stay terminal; every job ends |
| Supplier snapshots (`services/supplier_snapshots.py`, `services/offers.py`) | snapshot rows and items, offers (availability, missing count, time of the last decision) | create, process (parse, match, gate, apply), upsert an offer | decisions in capture order, and once per snapshot unless a failing summary retracts them; the row of an offer is what its decisions add up to; rejected lists decide nothing |
| Telegram collector (`integrations/telegram/collector.py`, `services/raw_records.py`) | cursor of the source, raw records and revisions, runs | collect (backfill, incremental), test access | the cursor passes no message that is not saved, ignored, lost to an exception or hidden by the limit; a COMPLETED run leaves each of its texts with a snapshot, but for revisions orphaned earlier |
| Price bot (`services/telegram_prices.py`) | update offset, updates, price sources, batches | poll, map a source, reprocess a batch | each update once; a batch is processed as a whole |
| SKU matcher (`services/matcher.py`) | products, variants, reviews | match, resolve a review | auto-create is safe against concurrent matches |
| Line parser (`services/parser/`) | parsed lines of a raw record | parse and replace the lines | price conflicts block a line |
| 1C import (`integrations/one_c/`) | 1C items, warehouse stocks, import batches | import a FULL or PARTIAL file, map, unmap | a FULL file zeroes what it leaves out, a PARTIAL one does not; a file is imported once |
| Pricing (`services/pricing/`) | policies, decisions, manual prices | recalculate one variant or all, set a price by hand, clear it | what is for sale pays for everything a sale has to; the decision shows the price by hand |
| Content and listings (`services/content.py`) | facts, drafts, image sets, listings, approvals | build, validate, approve, reject, supersede | what is approved is what was validated; a new approval supersedes the old |
| Publication (`services/publication.py`) | publication jobs, attempts, bindings, alerts | prepare, enqueue, process, cancel, retry, reconcile | one intent per listing version and type; the context is valid when it is used; terminal jobs stay terminal |
| Onboarding (`services/onboarding.py`) | manual import previews | preview, confirm | a preview is confirmed once and unchanged |
| Operator authentication (`services/operator_auth.py`) | operators, sessions, failed logins | login, logout, rotate | no session of a disabled operator |
| Avito contract harvester (`integrations/avito_contract/`) | files under `data/` | fetch, normalise, report | offline text processing |
| Operator console (`components/*.tsx`, `app/**/page.tsx`) | React state of each form, the browser's cookies | sign in, import, map, reprocess, create, onboard, cancel | a form shows what happened, acts on what it showed, and never stays busy |
| API routes, schemas, read models, migrations | none of their own | wrappers | - |

How they interact: a collection job calls the collector, which creates a raw
record revision and a snapshot and calls `process_snapshot`; so do the price
bot, a confirmed manual import and an API request. Processing calls the parser,
the matcher and the offer upsert, each with commits of its own, in one session.
Pricing reads offers, listings read prices and content, publication reads
listings. Nearly everything is coordinated through rows of PostgreSQL read and
written in separate transactions, so the hard behaviours are: a row read in one
transaction and overwritten in a later one; the session's identity map, which
keeps what it loaded (`expire_on_commit=False`); locks that are weaker than they
look (a lock per snapshot id, an advisory lock that belongs to a pooled
connection, a Redis key with a TTL); a process that dies between two commits;
queue entries that come early, late or twice; and, in the console,
answers that arrive late, out of order or never while the page has moved on. `PROJECT.json` lists these hazards
line by line, with the properties that catch each one.

## 2. The modules

| Module | What it is |
|---|---|
| `JobLifecycle` | what a collection job promises its readers: the abstract specification |
| `CollectionJobs` | producers, scheduler loop and workers of `jobs/` |
| `MCCollectionJobs` | two jobs of one source for TLC |
| `CollectionJobsProofs` | theorems about `CollectionJobs`, the refinement of `JobLifecycle` among them |
| `SupplierSnapshots` | `process_snapshot`, the offers, the sessions and their connections |
| `MCSupplierSnapshots` | price lists, pools and processes for TLC |
| `SupplierSnapshotsProofs` | theorems about `SupplierSnapshots` |
| `TelegramCollector` | the collection runs of one source against a channel that changes |
| `MCTelegramCollector` | a channel of three messages for TLC |
| `TelegramCollectorProofs` | theorems about `TelegramCollector` |
| `ImportLedger` | what preview-and-confirm promises: the abstract specification of imports |
| `ManualImports` | the import form of the console and the preview and confirm handlers |
| `MCManualImports` | a page, a price list and an export for TLC |
| `ManualImportsProofs` | theorems about `ManualImports`, the refinement of `ImportLedger` among them |
| `PriceIntake` | what the price bot promises about updates: its abstract specification |
| `PriceBot` | the price bot with the console page of its channels and batches |
| `MCPriceBot` | one channel, two updates for TLC |
| `PriceBotProofs` | theorems about `PriceBot`, the refinement of `PriceIntake` among them |
| `Console` | signing in, suppliers and product onboarding from several tabs |
| `MCConsole` | two tabs, two names, two variants for TLC |
| `ConsoleProofs` | theorems about `Console` |
| `Publication` | intents, jobs, bindings and alerts over a listing that is edited meanwhile |
| `MCPublication` | two prices, two intent types, three requests for TLC |
| `PublicationProofs` | theorems about `Publication` |
| `PriceFormulas` | the integer formulas of prices |
| `Pricing` | recalculations and prices by hand of one variant |
| `MCPricing` | two policies, two costs, two prices by hand for TLC |
| `PricingProofs` | theorems about `PriceFormulas` and `Pricing` |

The collector runs inside a job, so `TelegramCollector` takes one run at a time
from `MutualExclusion` of `CollectionJobs`; and it calls `process_snapshot`, which
is one step there and all of `SupplierSnapshots` here. The same step ends a
confirmed list in `ManualImports` and a batch in `PriceBot`.

### CollectionJobs

`status`, `attempt` and `enabled` are columns, `queue` counts the entries of each
job on the RQ list, `lock` is the Redis key of each source. `pc`, `wjob`, `watt`
are the position of each worker in `execute_job` and what it loaded; `enq` is the
position of a producer in `create_collection_job` / `enqueue_job`; `sched` is the
scheduler loop with the rows it selected and the attempt it read in them.
`starts` and `ended` are history.

- The steps are the commits and the Redis calls. `enqueue_job` pushes the id and
  commits QUEUED afterwards (`PushNew`, `CommitQueued`; `PushRetry`,
  `CommitRetry`), without looking at the row again.
- `RowLocked` is the row lock of `SELECT ... FOR UPDATE`, held by `execute_job`
  from its first statement to its first commit; other commits on that row wait.
- The scheduler's rows are read without a lock and written back later
  (`SelectStale`/`CommitStale`, `SelectRetries`/`CommitRetry`).
- `Outcome` is `succeed_job`, `classify_failure` and `fail_job`; the collector
  itself is a result, `ok`, `transient` or `permanent`.
- Faults, each of a named kind and `MaxFaults` in all: `worker` (killed: its lock
  becomes an orphan until the TTL), `abort` (the result cannot be written and
  only the finally clause runs), `producer`, `scheduler`, `redeliver` (an entry
  is delivered and stays on the list). `late` is not counted: it lets a worker
  load a row whose QUEUED is pushed and not committed.

Timing. RQ ends an execution after 180 s (killed at 240 s); the lock lives 300 s
and a RUNNING row is stale after 900 s (`core/config.py`). The model takes from
this that an orphaned lock expires and a row becomes stale only when the
execution behind it is over. Without that order of the three numbers
`MutualExclusion` would not hold, and no code enforces it.

A scheduler tick is a producer. Which slot it picks, the idempotency key, the
health counters of a source, and the backoff times (any RETRY_WAIT job may be due)
are left out. No endpoint edits `collection_enabled` of an existing source;
`execute_job` reads it again, so the model lets it change at any time.

### SupplierSnapshots

One supplier, any number of snapshots of its price lists. `snap`, `items` and
`offer` are the rows; `content` is what parser and matcher make of the text (each
line names at most one offer: matched, review, unparsable or in conflict).
`pool`, `conn` and `held` are the connection pool of each OS process, the
connection of each open transaction and the advisory lock of each snapshot id
with its count. `pc`, `cur`, `loaded`, `todo` and `view` are the session: its
position in `process_snapshot`, its snapshot, the status it already holds in its
identity map, the lines left to match, and the offers as it read them. `applied`,
`retracted`, `ledger` and `manual` are history.

- `Request` takes the caller into account: an import has just created or loaded
  the snapshot, an API request has not. `StatusRead` is the `SELECT ... FOR
  UPDATE` of line 82, which does not refresh an instance the session has.
- Each commit returns the connection to a FIFO pool and the next transaction
  takes the one at the head, so `Unlock` may run on a connection that does not
  hold the lock. It then does nothing and the lock stays with its connection,
  re-entrant there.
- `Match` commits the offer of one line. `ReadOffers` and `Apply` are the SELECT
  and the commit of the decisions; `Flush` writes the columns that differ from
  what was read.
- `Fail` is an exception between the commit of PROCESSING and the end of the
  summary: the open transaction is rolled back. `MarkFailed` is the except clause,
  which commits FAILED in a transaction of its own, and `Unlock` is the finally
  clause, on the connection the summary was read on or on the next one. `Crash`
  kills an OS process with all its sessions. A commit of FAILED that fails too
  leaves the snapshot as a crash does and has no action of its own. A connection
  that is closed because it broke, and replaced, is not told from one returned.
  `UpsertOffer` is the API's upsert with an availability.
- The summary (line 196) is read inside the try, after the decisions are committed.
  If it raises, FAILED is written over COMPLETED or REJECTED although the decisions
  stand, and the next request commits the decisions of that list again: an offer
  it does not list has missed twice for one list, because a decision of the same
  time is not an older one. `retracted` counts this; `AppliedOnce` is false there,
  with one process and one failure, and `DecidedOnce` says that nothing else makes
  a snapshot be decided again. `AvailabilityRecounted` counts decisions, not lists,
  so it holds through it.
- `AvailabilityRecounted` speaks of the missing count of every offer, and of the
  availability of the offers no user has set by hand: the upsert leaves the missing
  count alone, so the first miss after an edit may be the last one before
  OUT_OF_STOCK.

Prices, audit rows, counters and what the summary says are left out. A session may hold an
offer it loaded while matching a little before `ReadOffers`; the model reads all
offers at `ReadOffers`, which leaves out only races that `snapshots_older`
already exhibits.

### TelegramCollector

`posted` and `text` are the channel; `cursor`, `record`, `rev` and `shots` are the
column `last_collected_message_id`, the raw records, their revisions in order and
the revisions that have a snapshot. `pc`, `seen`, `todo`, `got` and `failed` are
the session of a run: its position, the cursor in memory, the messages of the
batch not handled yet, the batch as it was fetched, and `failed_count > 0`.
`ignored`, `orphans`, `lost`, `cut` and `trouble` are history.

- The cursor of the session moves when a message has been ignored, found saved or
  saved (`Ignore`, `Duplicate`, `Refresh`) and is written by whichever commit comes next:
  `CreateRecord`, `SaveRevision`, `CreateSnapshot`, `Finish` (operator `Commit`).
- `Fetch` asks for the newest `Limit` messages and filters them by the cursor, as
  `client.py` does. The messages older than these are recorded in `cut`.
- `Failure` is the except clause: the rollback, the run and the source read
  again, `failed_count` raised, the message given up. `PersistFails`,
  `RefreshFails` and `ProcessingFails` are its causes from outside; `RevisionRepeated` is the one
  that needs no fault, an edit back to an earlier text, which meets the unique
  key of (record, content hash) and then an expired row.
- The revision is read back (`Refresh`) after its commit, inside the try. If that
  raises, or the run is killed before the commit of the snapshot, the revision
  stays without a snapshot: the next run takes it for a duplicate (lines 140-143)
  and may be COMPLETED. `orphans` names these revisions, and `CompletedCovers`
  excepts them and no others.
- `FetchFails` is any Telegram error; `Crash` a killed worker or an error that no
  clause of `collect_source` handles. Both may come at any step.
- A snapshot that processing marked FAILED counts as a snapshot of its revision.

Left out: the counters of a run other than `failed_count`, the metadata of a
message, deletions in the channel, and runs started by the command-line tool,
which takes no source lock.

### ManualImports

`form` is the React state of an import page (`import-workflow.tsx`): the fields,
the batch on display and the message. `call` holds the requests with the step
their handler has reached; `batch`, `raws`, `snapshots`, `processed` and `runs`
are the rows. A batch is identified by its content and mode, as its unique key
says. `approved` is history: what was confirmed while it was on display.

- The form has no busy flag. `ClickPreview` takes the fields as they are,
  `ClickConfirm` the batch on display, and `Show` puts the answer of any request
  on display when it arrives.
- A handler holds no lock: `SelectRaw`/`InsertRaw`, `SelectSnapshot`/
  `InsertSnapshot` and `SelectRun`/`ApplyImport` are the reads and commits of
  `create_raw_record`, `create_snapshot` and `import_one_c_file`, in between
  which other handlers run. `Fail` ends one anywhere, or loses its answer.
- `ImportLedger` is the promise of docs/data-onboarding.md; the mapping takes as
  run what `process_snapshot` finished and what a real 1C run gave a verdict on.

Kept in the model, promised otherwise by the documentation and without a run of
its own: overlapping confirms of a list make two snapshots, because the unique key
of a snapshot holds a NULL (docs/data-onboarding.md:16 "repeating confirm does not
create another raw record or snapshot"); the raw record of a list is found by its
content alone, so that a FULL and a PARTIAL batch of one text share a snapshot of
the mode confirmed first (same line: "per source and snapshot type"); a 1C import
that failed or was rejected is CONFIRMED all the same; a second confirm of a 1C
batch that overlaps the first turns CONFIRMED into DUPLICATE.

### PriceBot

`cursor` is the stored update offset, `filed` the message rows, `batch`,
`sources`, `mapped`, `raws` and `revisions` the tables behind them; `bot` is the
poll in progress and `job` the reprocessings, one for the bot and one for each
request. `shown`, `form` and `button` are the page as the server rendered it and
the state of its components.

- `GetUpdates` .. `Acknowledge` is `poll_telegram_prices_bot`; a commit per
  update (`FileRefused`, `UpsertSource`, `FindBatch`, `SaveMessage`), the batches
  touched (`ProcessTouched`), the offset last.
- `Begin` is the first commit of `reprocess_telegram_price_batch`, which ends its
  row lock: everything after it overlaps with whoever comes next. `InsertRaw` and
  `InsertRevision` end with an exception where a unique key is violated.
- `Map` reads and `CommitMapping` writes, without a lock.
- `ClickMap`, `ClickReprocess` and `ClickRow` are enabled when the page shows the
  control and its busy flag is off; `Settle` is what follows the answer with the
  `finally` clause, `Lose` a connection that breaks while the handler goes on.
- `Crash` kills the bot between two commits.

A message is in a batch or not; its text is the update. Which of a user's batches
is within the time window is free. After a mapping and its refresh the page has no
control to reprocess the batches still PENDING_MAPPING: the form is gone with
`router.refresh()` and the table leaves them out.

### Console

One browser with several tabs and one cookie jar. `tab` is what each shows, `call`
the requests with the cookie, rows and total they were sent with; `suppliers`,
`variants` and `aliases` are tables, `live` the sessions. `told`, `met` and
`posted` are history: the suppliers a tab was told it created, the requests handled
at the same time, and the suppliers that came by `POST /api/v1/suppliers`.

- `Rendered` is a page load: the dashboard turns 401 and 403 into a redirect, the
  other pages into the error boundary, `/login` and `/onboarding` ask nothing.
- `SignedIn`, `Listed`, `Offered` and `Enabled` are what the four forms do with an
  answer. The onboarding form has neither busy flag nor catch.
- `SelectName`, `SelectCode`, `InsertSupplier` are `create_operator_supplier`;
  `SelectProduct`, `CommitProduct` are `onboard_product`, with the unique keys of
  the models in `Conflicts`.
- `PostSupplier` is `POST /api/v1/suppliers`: it asks for no session, takes the code
  from its caller and looks no name up. So it doubles names without any overlap,
  and takes codes away under `create_operator_supplier`, whose insert then fails.
  `NamesUnlessOverlap` says that this and overlapping creations are the only ways.

Left out: the 1C item that `onboard_product` may map in the middle of its
transaction (`onboarding.py:303-304`; no form sends one), and `accept_match_review`
(338-344), a second writer of aliases without a source. It selects before it
inserts, as the onboarding does, so there too a double alias takes an overlap.

All names of the instance share one code seed and all variants one product; others
never meet.

### Publication

One generic listing row, its draft, image set, price and facts, and the jobs made
of it. `listing_snapshot` of one row differs only in its readiness and its status,
and the key of an intent adds the intent's type (there is one marketplace), so
`Intents` are these three together and name an intent and its one job. `call` holds
what each request has read: the session never refreshes it (`expire_on_commit=False`, and SELECT FOR
UPDATE does not refresh a loaded row), and `Written` is the ORM's habit of writing
only what differs from what was read.

- `AskIntent`, `Find`, `Create`, `Refresh`, `Process` are `create_publication_intent`
  and `process_publication_job` in one request; `Ready` and `Outcome` are
  `validate_intent_context` and the branches after it.
- `AskCancel`/`Cancel`, `AskReconcile`/`Read`/`Reconcile`, `AskValidate`/`Rebuild`/
  `Stale`/`Approve`, `AskFacts`/`Supersede`, `AskContent`/`ApproveContent` and
  `Edit` are the other requests (`Reject`, one branch of `Edit`, is
  `control_reject_listing`); `Die` ends any of them before its commit. `Rewritten`
  writes the two columns of the row each on its own, so a row of readiness APPROVED
  and status STALE can come of two requests that overlap.
- `changed`, `met` and `ended` are history: requests whose inputs were written
  while they were handled, requests handled at the same time, and the requests
  that gave a job an outcome.

What the model shows beside the properties: STALE_INPUT cannot occur, because the
snapshot that `process_publication_job` compares is of the very row the intent was
found by, and the hashes of price, content and images captured in the intent are
never compared (README:247 promises it); an order whose job was BLOCKED once can
never be repeated while the listing keeps that readiness and status, because an
intent of the same type is found again and its job is terminal; a listing rejected by
`control_reject_listing` keeps `generic_readiness`, so the next dry run of an
approved one makes a new intent (the status is part of the snapshot) and ends in
DRY_RUN_SUCCESS, although README:234-243 puts APPROVED listings at the start of that
way; and the key that `resolve_alert` looks for is one no alert is opened with.
`PreparedApproved` therefore speaks of the readiness: what it excludes is that a job
ordered for one version of the listing, before an approval, a rejection or a rebuild
of the facts, is carried out for another. Not modelled: `retry_publication_job` and `enqueue_publication_job`
(no job is ever FAILED, RETRY_WAIT or enqueued by the code), operators who
acknowledge or resolve an alert, and the listing rows built beside this one.

### Pricing

One variant. `policies` is the enabled default policy or nothing (a partial unique
index, `uq_pricing_policies_one_default`, keeps it alone), `override` the price by
hand, `own` and `offer` the stock and the offers a cost comes from, `row` the stored
decision. `call` is the session of each request: its position and what it has read.
`basis` and `disturbed` are history: the policy of the last decision, and whether
the two properties excuse that decision. `PriceFormulas` is `formulas.py`, in
natural numbers of any size.

- `Begin` is a request; `ReadPolicy`/`CreatePolicy`, `ReadOverride`,
  `ReadInventory`, `ReadOffers`, `ReadRow` and `Commit` are
  `recalculate_variant_pricing`, in the order of its statements. Other requests
  run between any two of them, for nothing is locked. A bulk recalculation does
  this for each variant in turn.
- `Find`, `Store`/`Refresh` and `Find`/`Delete` come first when a price is set or
  cleared; the session that set one does not read it again.
- `Written` is the ORM's UPDATE of the columns that differ from what was read. Two
  recalculations that read the same row may store the final price of one with the
  verdict of the other: `final` below `floor` and ACTIVE. `disturbed` excuses a
  decision that overlapped another request; the next one alone repairs it.
- `Fail` ends a request anywhere: a unique key (a second default policy, a second
  first decision), a price by hand deleted before `Refresh`, an amount that does
  not fit its INTEGER column, a connection that breaks. A price by hand is
  committed before its recalculation and stays when that fails.
- `ChangePolicy`, `ChangeStock` and `ChangeOffer` are everybody else.

Time is not modelled: which offers are stale is free, and so covers that a price
set by hand is recalculated as of the time of the last decision
(`engine.py:252`), when offers now stale were fresh. `CreatePolicy` is the second
look, the commit and the refresh in one step. Two branches cannot be taken and are
left out or without effect: INVALID_PRICING_POLICY (`schemas/pricing.py` keeps the
percentage below 100 %) and OWN_COST_MISSING (the importer refuses a line without
a cost). The columns of costs, markup and sources, reason codes, history and audit
rows are left out.

## 3. The runs

| Run | Instance | Checks |
|---|---|---|
| `jobs_faults` | 2 jobs, 1 source, 2 workers, 2 attempts, one fault of any kind, 722 000 states | `TypeOK`, `MutualExclusion`, `RetryBudget` |
| `jobs_contract` | same, faults: one aborted collection; fairness | `LifecycleKept` (refinement of `JobLifecycle`), `EveryJobFinishes`, `TerminalNotExecuted` |
| `snapshots` | 3 snapshots (two FULL, one PARTIAL, two captured at the same time), 2 offers, threshold 2, one process, one fault, user edits, 1 007 000 states | `TypeOK`, `LedgerOrdered`, `AvailabilityRecounted`, `DecidedOnce` |
| `snapshots_older` | 2 FULL snapshots, two processes; expected violation | `LedgerOrdered` |
| `snapshots_serialized` | 1 snapshot, an API request and an import; expected violation | `AppliedOnce` |
| `collector` | 3 messages, limit 2, 2 texts and blank ones, both modes, one fault of any kind, 2 edits; fairness, 836 000 states | `TypeOK`, `NoneSkipped`, `CompletedCovers`, `EveryMessageSaved` |
| `collector_skipped` | 3 messages, limit 1, incremental, no fault and no edit; expected violation | `AdvancesAfterPersisting` |
| `imports` | 1 page, 1 list, 1 export, both modes, 3 requests, 1 fault; fairness, 189 000 states | `TypeOK`, `ShownClosedIsClosed`, `LedgerKept` (refinement of `ImportLedger`), `FormSettles` |
| `pricebot` | 1 channel, 1 supplier, 1 page, 2 updates, 2 requests or faults; fairness, 281 000 states | `TypeOK`, `CountedOnce`, `IntakeKept` (refinement of `PriceIntake`), `RevisionsGrow`, `QueueMoves`, `BusyEnds` |
| `console` | 2 tabs, 2 names, 2 variants, 1 alias, 1 code for posted suppliers, 3 events; fairness, 1 451 000 states | `TypeOK`, `TableTrue`, `NamesUnlessOverlap`, `AliasUnlessOverlap`, `FormsSettle` |
| `publication` | 2 prices, 2 intent types, 3 requests, 551 000 states | `TypeOK`, `OneOutcome`, `AlertsMatch`, `ApprovalsCurrent`, `BindingTrue`, `PreparedApproved` |
| `pricing` | 2 policies, 2 suppliers, 2 costs, 2 prices by hand, 2 requests, 1 change, 1 811 000 states | `TypeOK`, `PaysItsWay`, `ManualShown` |

Why these bounds are enough. Mutual exclusion, the check of another RUNNING job
and the lock are about two jobs of one source and two workers; two attempts are
the least at which a retry and its exhaustion both happen. One fault already
reaches each way an entry, a lock or a row is orphaned; the combinations of
several faults are covered by the proofs, which bound nothing. In `snapshots`
three snapshots and a threshold of two reach every transition of an offer,
including a miss, a sighting and a miss again, and out of stock after two misses;
two offers make partial lists differ; `MinValidPercent = 60` makes a list of two
lines with one bad line fail the gate (the default, 0.5, would need three). In `collector` three messages
with a limit of two let one be hidden from a fetch; a second one stays behind
while the first is handled; two edits reach a text and back; a fault reaches each
except clause and each step. In `imports` three requests are a preview and two confirms of
it, or a preview overlapping another batch's confirm; one page suffices because
pages meet only in the tables, where its own requests meet too. In `pricebot` two
updates make a batch that grows between two reprocessings, two events are a mapping
and a reprocessing, two reprocessings, or one of these with a crash. In `console`
three events are two creations that overlap and a third that comes later, one
before or after a posted supplier, or one with a session that ends and a connection
that breaks. In `publication` three
requests are a job's creation, its processing and a cancellation or an edit, or a
rejection between two dry runs; two intent types give one version of the listing two
jobs. In
`pricing` the default policy rounds up in steps of 100 rubles and the other leaves
every division a remainder and rounds down past the floor; of the two prices by
hand one lies just above the floor of the lower cost and below that of the higher,
one just above both; two requests are a price set and cleared, two that overlap, or
one and its repetition after a change. The
bounds, and the combinations of faults they keep from happening, are lifted for
every safety property by the proofs of section 4.

Deadlock checking is off in the `jobs` runs: when all the jobs of the instance are
finished, no faults are left and no source is toggled there may be nothing to do
but wait. It is off in `imports`, `pricebot`, `console`, `publication` and `pricing` because
nobody sends another request after the last one the bounds allow. It is on in the
other runs.

Fairness. In `collector`, weak fairness of `Run`: the scheduler starts run after
run, and a run that nothing disturbs goes on to its end. Which mode is used is
free, and so are the channel and the faults. In `jobs_contract`: containers are restarted (`restart:
unless-stopped`), so a producer that pushed commits, the scheduler loop ticks for
ever, RQ serves its list, and a collection ends by its job timeout. Strong
fairness is used for what waits behind something that comes and goes: loading an
entry (the row may be locked each time) and a SELECT of the loop that must see the
row (it has no LIMIT, so an eligible row is in the batch). Users are not fair.
In `imports`, `pricebot` and `console`: weak fairness of each handler, which the
server's event loop runs, of the browser's callback for an answer that is there,
and of the bot's loop, which docker starts again. Clicks, page loads, refreshes,
sessions that end and faults are not fair.
`EveryJobFinishes` is claimed without process deaths: a job whose entry is lost
with its worker, or whose producer dies before the push, is found by nobody.

### Disagreements between the code and its documentation

1. `snapshots_older`: README:201 "Older snapshots do not overwrite newer
   availability decisions". The age test reads the offers without a lock, and
   the advisory lock is per snapshot, not per supplier. `NewestDecides` proves it
   while two lists are not decided on at once.
2. `snapshots_serialized`: README:209 "Processing a completed or rejected
   snapshot is read-only". A session that loaded the snapshot before it waited
   for the lock keeps the old status and processes it again, for instance when a
   manual import is confirmed twice. Where nobody loads a snapshot before the lock
   (`ProcessedOnce`), or sessions take turns (`SerialOnce`), what is left of it is
   `DecidedOnce`: a summary that fails after the commit makes a decided snapshot
   FAILED, and FAILED is processed again.
3. `collector_skipped`: README:326 "Incremental fetches messages after
   `Source.last_collected_message_id`. [...] The cursor advances only after the
   message has been safely persisted or safely classified as ignored". Telegram
   is asked for the newest `limit` messages and the cursor only filters them, so
   with more new messages than that the older ones are skipped for good. A message
   whose persisting raised is passed too, by the next one that is saved. These two
   are all: `CursorSafe` proves `NoneSkipped`, which names them.

Others are described with their modules in section 2, without a run (that a rejected
listing is prepared is one of them). Two more.
README:399 "Terminal jobs are not executed again" is checked by `jobs_contract` and
proved by `TerminalFinal` where entries are delivered once. With one entry delivered
twice (`Faults = {"redeliver"}`) TLC finds it violated: the second execution of a
RUNNING job marks it SKIPPED because the lock is held, the first one overwrites that
with RETRY_WAIT, and the job runs again. README:205 "Rejected snapshots keep
per-line evidence", but processing a later revision of the raw record deletes its
parsed lines and, by ON DELETE CASCADE, the items of the rejected snapshot
(`services/parser/pipeline.py:190`).

## 4. The proofs

`CollectionJobsProofs` proves, for every set of jobs, sources and workers, every
`MaxAttempts`, and every number and mix of faults, from `JobsAssumption` only:
`TypeOK`, `MutualExclusion` and `RetryBudget`. The inductive invariant is `IInv`:

- `LockHeld`: from SET NX to its release the key holds the worker's token. Two
  collections of one source would need two tokens in one key; `WorkerDies`
  leaves `Orphan` there, and the timing assumption above is what makes this
  conjunct survive expiry. `MutualExclusion` follows from it alone.
- `RowOnce`: one worker has a row FOR UPDATE. Needed to count executions.
- `RowsFresh`: the attempt the scheduler read is still in the row when it is
  written, because nobody else writes that column. Without it `attempt` could
  pass `MaxAttempts` and `TypeOK` is not inductive.
- `Budget`: collections begun, entries on the queue, executions that may begin
  one and pushes still to come never exceed attempts paid, faults, and the one
  push the scheduler has not paid for yet. `RetryBudget` is its consequence.
- `Inserted` and `Busy` tie the positions of producers and workers to the rows.

It also proves `ContractKept`: under `OnlyAborts`, `CollectionJobs` implements
`JobLifecycle`. The premise says that the faults that happen are collections that
end without a result; redeliveries, and `late` in `CollectionJobs`, are among what it
excludes. The invariant `Life`, on top of `IInv`, says that every row somebody is
about to write still has the status it was picked for: a producer is at work
exactly while its job is PENDING (`Produced`); an entry on the queue is the only
one of a QUEUED job, or its push is not committed (`Entries`); an execution has
its entry's job to itself and the attempt of the row (`Executed`); the rows the
scheduler has read are RUNNING and uncollected, or in RETRY_WAIT, until it writes
them (`Picked`). Each commit, blind as it is, is then a step of the job's life.
`TerminalFinal` follows: in that life a terminal status is never left, so a job
among the `ended` ones is terminal still (`Settled`) and no execution begins.

`SupplierSnapshotsProofs` proves `TypeOK` for every instance (the pool contents
and the lock counts are what makes it more than bookkeeping: `Unlock` must not
count below zero, `Fail` must not return a connection it does not have), and
`ProcessedOnce`: under `PrivateSessions`, `DecidedOnce` always holds. The premise
says that each process has the connections of its host for itself and that nobody
loads a snapshot before the lock, which is what `snapshots_serialized` breaks.
The argument: a process between `Enter` and `Unlock` has its snapshot's lock on a
connection of its own host (`LockHeld`), even if earlier unlocks missed it; so
nobody else is admitted, the status read under the lock is current (`Unloaded`),
and the decisions committed and not retracted are one or none, as the snapshot is
COMPLETED or REJECTED or not (`Standing`, in `Committed`).
`SerialOnce` reaches `DecidedOnce` from the other side: while sessions take turns
(`Alone`) the status a session has loaded is still the stored one, whoever the
caller is and whatever the locks and the pool do.

`NewestDecides` and `RowsRecounted` prove `LedgerOrdered` and
`AvailabilityRecounted` while no two processes are between reading the offers and
committing their decisions (`OneAtATime`). The premise is about schedules, not about
the code: nothing locks the offers, and `snapshots_older` is the run without it.
One process gives it, and so do lists of one source collected by any number of
workers, for `MutualExclusion` keeps those apart. Everything else is as free
as in the model: failures and crashes at any step, retries, leaked locks, user
edits and matched lines in the middle of a decision. The invariant is `AInv`: the
time in an offer is that of its last decision (`Latest`); the row a process decides
on is still the stored one, but for an availability a user has set or a line that
created it (`Fresh`), so that writing only the columns that differ writes the
decision; and the row is what the ledger says (`Rows`), for which the misses of a
longer list are computed from those of the shorter one (`MissesSeen`,
`MissesMissed`). `OneWorker` puts the three promises together for one process: the
run `snapshots` for all values of its constants.

`TelegramCollectorProofs` proves `TypeOK` and `NoneSkipped` for every number of
messages, limit, number of edits and mix of faults, from `CollectorAssumption`.
`NoneSkipped` speaks of the stored cursor, but a commit stores the session's, so
`Covered` says the same of that one; it moves to the current message, so `Handled`
says that whatever precedes a message of the batch is dealt with already, which is
what handling oldest first is for; and `Handling` ties the step reached to what is
known of the current message. A rollback is covered by going back from `Covered`
to `NoneSkipped`.

`CompletedMeans` proves `CompletedCovers`. A run that becomes COMPLETED has handled
its whole batch without an exception, so what is needed is that handling a message
leaves its evidence: until an exception, the messages handled have the fetched text
as their last revision (`Stored`, and `Written` for the one in hand); only the
message in hand may wait for its snapshot, or the handling of a revision ended
between the two commits and it is one of the `orphans` (`Evidence`);
and an exception is counted before anything else happens (`Reported`).

`ManualImportsProofs` proves, from `ImportsAssumption`, for every number of pages,
lists, exports, requests and faults: `TypeOK`, `ShownClosedIsClosed` and
`LedgerKept`. The last is a refinement: the initial states map to initial states
and every step to a step of `ImportLedger` or a stutter. The inductive invariant
says what a request on its way proves about the rows: a batch on display exists
(`ShownKnown`) and is closed if it is shown closed (`ShownClosed`); a confirm is for
an approved batch (`ConfirmsApproved`, `ApprovedKnown`); only confirms make
snapshots, and the one a handler works on has its content (`SnapshotsOfConfirms`).
`Backed` is the conjunct that a simpler invariant lacks: a confirm about to be
closed has its *content*, not its batch, among what ran, because batches of one
content share a snapshot whatever their modes.

`PublicationProofs` proves, from `PublicationAssumption`, for every number of
requests, prices and intent types, all six properties of the run. `IInv` joins `TypeOK` with

- `Sessions`: requests not sent are blank (`Fresh`), one that has given a job an
  outcome is answered (`Over`), and those handled now have met each other (`Met`);
- `Outcomes`: a job has an outcome iff its status is terminal (`Decided`), a
  request about to give it one has met whoever gave one already (`Raced`), a job
  with an alert has an outcome (`Alarmed`); and `OneOutcome`, `AlertsMatch` and
  `BindingTrue` themselves, which are inductive beside these;
- `Prepared`: what a preparing request has read is stored still, unless it is in
  `changed` (`Reads`), and the job it goes on with exists and is for real or not
  as the request read (`Mine`);
- `Approved`: an approval about to be committed over newer facts, and a rebuild
  that has not seen an approval, have crossed each other (`Approving`,
  `Rebuilding`), so nothing approved is out of date unless two did (`Current`).

`PreparedApproved` is an action property; it follows from `Prepared` at the step
`Process`, the only one that writes DRY_RUN_SUCCESS: the job's listing version is the
one the request read first, which `Reads` says is still stored.

`PriceBotProofs` proves, from `PriceBotAssumption`, for every number of updates,
channels, suppliers, pages, requests and faults: `TypeOK`, `CountedOnce`,
`RevisionsGrow` and the refinement `IntakeKept`. `IInv` has two halves. `Intaken`
is about the bot: what the offset has passed is filed, in a batch of its channel
(`Filing`); a poll files in order and moves the offset only forward (`Polling`);
the update in hand is not filed yet, whatever a crash repeats (`Saving`); the loop
processes batches of mapped channels only (`Touched`). `Pipeline` is about whoever
processes a batch: its text is part of the batch's and its batch is in use
(`Working`, `Asked`); two workers at one batch are in `overlapped` (`Alone`); and a
worker alone at a batch holds at least what its revisions hold (`Kept`), from
which `RevisionsGrow` follows.

`ConsoleProofs` proves, from `ConsoleAssumption`, for every number of tabs, names,
variants, aliases and requests: `TypeOK`, `TableTrue`, `NamesUnlessOverlap` and
`AliasUnlessOverlap`. `Rows` is about the handlers: a row bears the number of its
request (`Numbered`), handlers that run together have met (`Met`), and a row that
a handler's select missed was inserted by a handler it has met, or posted since
(`Searched`). `Pages`
is about the tabs: a form other than the onboarding form waits for one request, and
the rows and the total that request remembers are still those of the tab
(`Waiting`); that is why writing back values of the click loses nothing. The types
need an argument too: `SelectCode` finds a code because suppliers are fewer than
codes (`CodeFree`, a pigeonhole).

`PricingProofs` proves two facts about the formulas for all natural numbers.
`FloorExact`: a price is at or above the hard floor iff the price less Avito's
percentage, rounded up, is at least the outlay. So the two roundings up neither
lose a unit nor ask for one too many. `RoundsToStep`: `round_price` returns a
multiple of the step, and how far it may go. Integer division by a variable is
beyond the solver; the proofs use only that `CeilDiv` is the least integer that
covers the quotient (`CeilDivCovers`). From `PricingAssumption`, for any policies,
suppliers and prices and any number of requests and changes, it then proves `TypeOK`,
`PaysItsWay` and `ManualShown`. `IInv` adds to the types that requests not sent are
blank (`Unsent`) and those handled together have met (`Met`); that a decision in hand
is sound for the policy it was made with and shows the price by hand it read
(`Deciding`); that what a request has read is current unless it has met somebody
(`Current`); and that the stored decision is sound (`Priced`) and shows the price by
hand unless somebody owes it a recalculation (`Shown`).

Only model-checked: `EveryJobFinishes`, `EveryMessageSaved`, `FormSettles`,
`QueueMoves`, `BusyEnds` and `FormsSettle`. They are liveness properties under weak
and strong fairness, which rest on ENABLED, and neither is in the prover's reach.

## 5. Plan, and what is not modelled

In this order, most important first; each module with its MC module and runs.

1. `OneCImport`: what a FULL and a PARTIAL file do to items and stock, mapping.
2. Prices in the offers of `SupplierSnapshots`, and freshness in `Pricing`.
3. `Schedule`: slots, idempotency keys and jitter of the scheduler tick.
4. Building of new listing rows beside the one in `Publication`, and match
   reviews.

Not planned: text extraction of the parser and the 1C file reader, the Avito
contract harvester, read-only pages and read models, formatting, deployment and
migrations: text processing and presentation without concurrent state. The
Telegram clients are I/O; they appear as channels, limits and errors.
