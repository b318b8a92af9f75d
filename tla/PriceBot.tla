------------------------------ MODULE PriceBot ------------------------------
(***************************************************************************)
(* The Telegram price bot (services/telegram_prices.py, its loop in        *)
(* integrations/telegram/prices_cli.py) and the console page that maps its *)
(* channels and reprocesses its batches (app/telegram-prices/page.tsx,     *)
(* telegram-source-map-form.tsx, action-button.tsx).                       *)
(*                                                                         *)
(* One bot runs; operators' requests run beside it.  Every commit is a     *)
(* step.  A message text is the update that carried it; what the pipeline  *)
(* does to offers is not modelled, only the text it was given and its      *)
(* verdict.                                                                *)
(***************************************************************************)
EXTENDS Naturals, Sequences, FiniteSets

CONSTANTS
  Channels,    \* Telegram channels prices are forwarded from
  Suppliers,
  Pages,       \* open tabs of /telegram-prices
  MaxUpdates,  \* bound: updates sent to the bot
  MaxEvents,   \* bound: requests sent by the pages and faults, together; after
               \* the last one no page is rendered any more
  Unseen,      \* an update without a row
  Refused,     \* an update that is not an allowed sender's forwarded text
  NoSource

Updates == 1..MaxUpdates
Batches == 1..MaxUpdates + MaxEvents
CallIds == 1..MaxEvents
Bot     == 0
Workers == {Bot} \cup CallIds

\* A row of sources with external_chat_id; made is 0 for a source that the
\* MTProto collector had before, or the request that inserted it.
Sources == [channel : Channels, supplier : Suppliers, made : {0} \cup CallIds]

ASSUME PriceBotAssumption ==
  /\ MaxUpdates \in Nat
  /\ MaxEvents \in Nat
  /\ Channels # {}
  /\ Suppliers # {}
  /\ Pages # {}
  /\ Unseen \notin Batches
  /\ Refused \notin Batches \cup Channels
  /\ Unseen # Refused
  /\ NoSource \notin Sources

VARIABLES
  origin,     \* [Updates -> channel of a forwarded price, or Refused], fixed
  cursor,     \* telegram_price_bot_states.last_update_id, 0 for NULL
  filed,      \* [Updates -> its batch, Unseen or Refused], telegram_price_messages
  batch,      \* [Batches -> BatchState], telegram_price_batches
  sources,    \* rows of table sources
  mapped,     \* [Channels -> row or NoSource], telegram_price_sources.source_id
  raws,       \* batches with a raw record
  revisions,  \* [Batches -> Seq(Revision)], with the verdict of its snapshot
  bot,        \* the poll in progress
  job,        \* [Workers -> JobState], reprocess_telegram_price_batch in progress
  call,       \* [CallIds -> CallState], requests
  sent,       \* requests sent so far
  shown,      \* [Pages -> page data], as the server last rendered it
  form,       \* [Pages -> [Channels -> FormState]]
  button,     \* [Pages -> [Batches -> ButtonState]], Reprocess in a table row
  faults,     \* faults so far
  overlapped  \* history: batches reprocessed by two workers at a time

tables  == <<cursor, filed, batch, sources, mapped, raws, revisions>>
console == <<call, sent, shown, form, button>>
vars    == <<origin, tables, bot, job, console, faults, overlapped>>

\* PROCESSED is COMPLETED or REJECTED, the verdict of the quality gate.
Receiving  == {"RECEIVED", "PENDING_MAPPING"}
Status     == {"NONE", "REPROCESSING", "PROCESSED"} \cup Receiving
BatchState == [channel : Channels, status : Status, count : 0..MaxUpdates]
Revision   == [text : SUBSET Updates, processed : BOOLEAN]

Idle == [at |-> "idle", now |-> 0, last |-> 0, source |-> NoSource,
         batch |-> 0, status |-> "NONE", touched |-> {}]

BotState ==
  [at : {"idle", "persist", "find", "save", "process"},
   now : 0..(MaxUpdates + 1), last : 0..MaxUpdates,  \* update in hand, last one fetched
   source : Sources \cup {NoSource},            \* price_source.source_id as refreshed
   batch : {0} \cup Batches, status : Status,   \* the batch found, its status as read
   touched : SUBSET Batches]

NoJob == [at |-> "none", batch |-> 0, text |-> {}, seen |-> 0]

JobState ==
  [at : {"none", "raw", "rawInsert", "revision", "insert", "process"},
   batch : {0} \cup Batches,
   text : SUBSET Updates,      \* combined_text
   seen : Nat]                 \* revision in use, or the latest one read

CallState ==
  [op : {"map", "reprocess", "row"}, page : Pages, channel : Channels,
   supplier : Suppliers, batch : {0} \cup Batches,
   at : {"none", "sent", "insert", "run", "answered"},
   source : Sources \cup {NoSource},  \* the row a mapping settled on
   ok : BOOLEAN,
   open : BOOLEAN]                    \* the page still waits for the answer

NoCall ==
  [op |-> "map", page |-> CHOOSE p \in Pages : TRUE,
   channel |-> CHOOSE c \in Channels : TRUE,
   supplier |-> CHOOSE s \in Suppliers : TRUE, batch |-> 0, at |-> "none",
   source |-> NoSource, ok |-> FALSE, open |-> FALSE]

PageData  == [mapped : SUBSET Channels, pending : SUBSET Batches, others : SUBSET Batches,
              stale : BOOLEAN]
FormState == [mapped : BOOLEAN, busy : BOOLEAN]

\* The server's rendering of the page; stale: router.refresh() was called since.
Rendered ==
  [mapped |-> {c \in Channels : mapped[c] # NoSource},
   pending |-> {b \in Batches : batch[b].status = "PENDING_MAPPING"},
   others |-> {b \in Batches : batch[b].status \notin {"NONE", "PENDING_MAPPING"}},
   stale |-> FALSE]

Init ==
  /\ origin \in [Updates -> Channels \cup {Refused}]
  /\ cursor = 0
  /\ filed = [u \in Updates |-> Unseen]
  /\ batch = [b \in Batches |->
       [channel |-> CHOOSE c \in Channels : TRUE, status |-> "NONE", count |-> 0]]
  /\ sources \in {{}} \cup {{s} : s \in {r \in Sources : r.made = 0}}
  /\ mapped = [c \in Channels |-> NoSource]
  /\ raws = {}
  /\ revisions = [b \in Batches |-> <<>>]
  /\ bot = Idle
  /\ job = [w \in Workers |-> NoJob]
  /\ call = [i \in CallIds |-> NoCall]
  /\ sent = 0
  /\ shown = [p \in Pages |-> Rendered]
  /\ form = [p \in Pages |-> [c \in Channels |-> [mapped |-> FALSE, busy |-> FALSE]]]
  /\ button = [p \in Pages |-> [b \in Batches |-> FALSE]]
  /\ faults = 0
  /\ overlapped = {}

(***************************************************************************)
(* poll_telegram_prices_bot.                                               *)
(***************************************************************************)
GetUpdatesAcked(last) ==   \* mutant: the offset is moved when the updates are fetched
  /\ bot.at = "idle"
  /\ last > cursor
  /\ cursor' = last
  /\ bot' = [Idle EXCEPT !.at = "persist", !.now = cursor + 1, !.last = last]
  /\ UNCHANGED <<origin, filed, batch, sources, mapped, raws, revisions, job, console,
                 faults, overlapped>>

\* get_updates with offset last_update_id + 1: what has arrived by now, up to a
\* limit.  A failed call changes nothing.
GetUpdates(last) ==
  /\ bot.at = "idle"
  /\ last > cursor
  /\ bot' = [Idle EXCEPT !.at = "persist", !.now = cursor + 1, !.last = last]
  /\ UNCHANGED <<origin, tables, job, console, faults, overlapped>>

\* The loop over the updates goes on, then the loop over the batches.
Continue(state) ==
  [state EXCEPT !.now = @ + 1, !.source = NoSource, !.batch = 0, !.status = "NONE",
                !.at = IF state.now < state.last THEN "persist" ELSE "process"]

\* persist_update: an update that has a row is not looked at again.
SkipDuplicate ==
  /\ bot.at = "persist"
  /\ filed[bot.now] # Unseen
  /\ bot' = Continue(bot)
  /\ UNCHANGED <<origin, tables, job, console, faults, overlapped>>

\* No message, a sender who is not allowed, not forwarded, no text.
FileRefused ==
  /\ bot.at = "persist"
  /\ filed[bot.now] = Unseen
  /\ origin[bot.now] = Refused
  /\ filed' = [filed EXCEPT ![bot.now] = Refused]
  /\ bot' = Continue(bot)
  /\ UNCHANGED <<origin, cursor, batch, sources, mapped, raws, revisions,
                 job, console, faults, overlapped>>

Adoptable(c) ==
  IF mapped[c] = NoSource /\ \E s \in sources : s.channel = c
  THEN {s \in sources : s.channel = c}
  ELSE {mapped[c]}

UpsertAgain ==   \* mutant: an update that has a row is persisted again
  /\ bot.at = "persist"
  /\ origin[bot.now] # Refused
  /\ \E s \in Adoptable(origin[bot.now]) :
       /\ mapped' = [mapped EXCEPT ![origin[bot.now]] = s]
       /\ bot' = [bot EXCEPT !.at = "find", !.source = s]
  /\ UNCHANGED <<origin, cursor, filed, batch, sources, raws, revisions,
                 job, console, faults, overlapped>>

\* upsert_telegram_price_source: an unmapped channel adopts a source of its id.
UpsertSource ==
  /\ bot.at = "persist"
  /\ filed[bot.now] = Unseen
  /\ origin[bot.now] # Refused
  /\ \E s \in Adoptable(origin[bot.now]) :
       /\ mapped' = [mapped EXCEPT ![origin[bot.now]] = s]
       /\ bot' = [bot EXCEPT !.at = "find", !.source = s]
  /\ UNCHANGED <<origin, cursor, filed, batch, sources, raws, revisions,
                 job, console, faults, overlapped>>

ReceivedStatus == IF bot.source = NoSource THEN "PENDING_MAPPING" ELSE "RECEIVED"

\* find_or_create_batch: the latest receiving batch of the channel, unless its
\* last message is out of the window; else a new one, committed empty.
FindBatch ==
  LET c == origin[bot.now]
      Open == {b \in Batches : /\ batch[b].status \in Receiving
                               /\ batch[b].channel = c}
      Unused == {b \in Batches : batch[b].status = "NONE"}
  IN
  /\ bot.at = "find"
  /\ \/ \E b \in Open :
          /\ \A d \in Open : d <= b
          /\ bot' = [bot EXCEPT !.at = "save", !.batch = b, !.status = batch[b].status]
          /\ UNCHANGED batch
     \/ \E b \in Unused :
          /\ \A d \in Unused : b <= d
          /\ batch' = [batch EXCEPT
               ![b] = [channel |-> c, status |-> ReceivedStatus, count |-> 0]]
          /\ bot' = [bot EXCEPT !.at = "save", !.batch = b, !.status = ReceivedStatus]
  /\ UNCHANGED <<origin, cursor, filed, sources, mapped, raws, revisions,
                 job, console, faults, overlapped>>

\* One commit: the message, the count, and the status if it is not what was
\* read (an attribute set to its loaded value is not written).
SaveMessage ==
  /\ bot.at = "save"
  /\ filed' = [filed EXCEPT ![bot.now] = bot.batch]
  /\ batch' = [batch EXCEPT
       ![bot.batch].count = @ + 1,
       ![bot.batch].status = IF bot.status = ReceivedStatus THEN @ ELSE ReceivedStatus]
  /\ bot' = Continue([bot EXCEPT !.touched =
       IF bot.source = NoSource THEN @ ELSE @ \cup {bot.batch}])
  /\ UNCHANGED <<origin, cursor, sources, mapped, raws, revisions,
                 job, console, faults, overlapped>>

(***************************************************************************)
(* reprocess_telegram_price_batch, run by the bot for a batch it touched   *)
(* or for an operator.                                                     *)
(***************************************************************************)
\* Worker w is done: its request, if it is one, is answered.
Done(w) ==
  /\ job' = [job EXCEPT ![w] = NoJob]
  /\ call' = IF w = Bot THEN call ELSE [call EXCEPT ![w].at = "answered", ![w].ok = TRUE]
  /\ UNCHANGED bot

\* An exception: a request fails, the bot's process ends and is started again.
Abort(w) ==
  /\ job' = [job EXCEPT ![w] = NoJob]
  /\ IF w = Bot
     THEN bot' = Idle /\ UNCHANGED call
     ELSE call' = [call EXCEPT ![w].at = "answered", ![w].ok = FALSE] /\ UNCHANGED bot

TextUnread(b) ==   \* mutant: only the messages no revision has yet
  {u \in Updates : /\ filed[u] = b
                   /\ \A n \in DOMAIN revisions[b] : u \notin revisions[b][n].text}

\* The messages of a batch; they make its combined text.
Text(b) == {u \in Updates : filed[u] = b}

\* Lock the row, read source and messages, REPROCESSING, commit: the lock is gone.
Begin(w, b) ==
  /\ batch' = [batch EXCEPT ![b].status = "REPROCESSING"]
  /\ job' = [job EXCEPT ![w] = [at |-> "raw", batch |-> b, text |-> Text(b), seen |-> 0]]
  /\ overlapped' = IF \E v \in Workers \ {w} : job[v].batch = b
                   THEN overlapped \cup {b} ELSE overlapped

\* The bot's loop over the batches of this poll; replies are not modelled.
ProcessTouched(b) ==
  /\ bot.at = "process"
  /\ job[Bot] = NoJob
  /\ b \in bot.touched
  /\ bot' = [bot EXCEPT !.touched = @ \ {b}]
  /\ IF batch[b].status = "PENDING_MAPPING"
     THEN UNCHANGED <<batch, job, overlapped>>
     ELSE Begin(Bot, b)
  /\ UNCHANGED <<origin, cursor, filed, sources, mapped, raws, revisions,
                 console, faults>>

\* The reprocess endpoint; an unmapped batch goes back to PENDING_MAPPING.
Reprocess(i) ==
  LET b == call[i].batch IN
  /\ call[i].at = "sent"
  /\ call[i].op # "map"
  /\ IF mapped[batch[b].channel] = NoSource
     THEN /\ batch' = [batch EXCEPT ![b].status = "PENDING_MAPPING"]
          /\ Done(i)
          /\ UNCHANGED overlapped
     ELSE /\ Begin(i, b)
          /\ call' = [call EXCEPT ![i].at = "run"]
          /\ UNCHANGED bot
  /\ UNCHANGED <<origin, cursor, filed, sources, mapped, raws, revisions,
                 sent, shown, form, button, faults>>

JobStep(w, at) ==
  /\ job[w].at = at
  /\ UNCHANGED <<origin, cursor, filed, sources, mapped, sent, shown, form,
                 button, faults, overlapped>>

\* persist_batch_raw_revision.  create_raw_record selects, then inserts under a
\* unique index.
SelectRaw(w) ==
  /\ JobStep(w, "raw")
  /\ job' = [job EXCEPT ![w].at =
       IF job[w].batch \in raws THEN "revision" ELSE "rawInsert"]
  /\ UNCHANGED <<batch, raws, revisions, bot, call>>

InsertRaw(w) ==
  LET b == job[w].batch IN
  /\ JobStep(w, "rawInsert")
  /\ raws' = raws \cup {b}
  /\ IF b \in raws
     THEN Abort(w)
     ELSE job' = [job EXCEPT ![w].at = "revision"] /\ UNCHANGED <<bot, call>>
  /\ UNCHANGED <<batch, revisions>>

Latest(b) == Len(revisions[b])

\* The latest revision is used again if it has this text.
SelectRevision(w) ==
  LET b == job[w].batch
      same == Latest(b) > 0 /\ revisions[b][Latest(b)].text = job[w].text
  IN
  /\ JobStep(w, "revision")
  /\ job' = [job EXCEPT ![w].seen = Latest(b), ![w].at = IF same THEN "process" ELSE "insert"]
  /\ UNCHANGED <<batch, raws, revisions, bot, call>>

\* Unique: (record, revision number) and (record, text).
InsertRevision(w) ==
  LET b == job[w].batch
      taken == \/ Latest(b) # job[w].seen
               \/ \E n \in 1..Latest(b) : revisions[b][n].text = job[w].text
  IN
  /\ JobStep(w, "insert")
  /\ IF taken
     THEN Abort(w) /\ UNCHANGED revisions
     ELSE /\ revisions' = [revisions EXCEPT ![b] =
                             Append(@, [text |-> job[w].text, processed |-> FALSE])]
          /\ job' = [job EXCEPT ![w].seen = Latest(b) + 1, ![w].at = "process"]
          /\ UNCHANGED <<bot, call>>
  /\ UNCHANGED <<batch, raws>>

\* create_snapshot, process_snapshot, and the batch takes the verdict, whatever
\* its status has become.
Finish(w) ==
  LET b == job[w].batch IN
  /\ JobStep(w, "process")
  /\ revisions' = [revisions EXCEPT ![b][job[w].seen].processed = TRUE]
  /\ batch' = [batch EXCEPT ![b].status = "PROCESSED"]
  /\ Done(w)
  /\ UNCHANGED raws

\* Parsing or matching raises: the snapshot is FAILED and can be tried again.  One
\* that has a verdict is only summarised.
Break(w) ==
  /\ JobStep(w, "process")
  /\ ~revisions[job[w].batch][job[w].seen].processed
  /\ Abort(w)
  /\ UNCHANGED <<batch, raws, revisions>>

AcknowledgeProcessed ==   \* mutant: the offset moves only if a batch was processed
  /\ bot.at = "process"
  /\ job[Bot] = NoJob
  /\ bot.touched = {}
  /\ cursor' = IF \E b \in Batches : batch[b].status = "PROCESSED" THEN bot.last ELSE cursor
  /\ bot' = Idle
  /\ UNCHANGED <<origin, filed, batch, sources, mapped, raws, revisions, job,
                 console, faults, overlapped>>

\* The end of the poll: only now is the offset moved.
Acknowledge ==
  /\ bot.at = "process"
  /\ job[Bot] = NoJob
  /\ bot.touched = {}
  /\ cursor' = bot.last
  /\ bot' = Idle
  /\ UNCHANGED <<origin, filed, batch, sources, mapped, raws, revisions, job,
                 console, faults, overlapped>>

(***************************************************************************)
(* map_telegram_price_source, no lock.                                     *)
(***************************************************************************)
\* The rows are read: another supplier's source refuses the mapping.
Map(i) ==
  LET c == call[i].channel
      Candidates == IF mapped[c] # NoSource THEN {mapped[c]}
                    ELSE {s \in sources : s.channel = c}
  IN
  /\ call[i].at = "sent"
  /\ call[i].op = "map"
  /\ \E s \in IF Candidates = {} THEN {NoSource} ELSE Candidates :
       call' = [call EXCEPT ![i] =
         IF s # NoSource /\ s.supplier # call[i].supplier
         THEN [@ EXCEPT !.at = "answered", !.ok = FALSE]
         ELSE [@ EXCEPT !.at = "insert", !.source = s]]
  /\ UNCHANGED <<origin, tables, bot, job, sent, shown, form, button, faults,
                 overlapped>>

CommitUnsaved(i) ==   \* mutant: the new source is not added to the session
  /\ call[i].at = "insert"
  /\ mapped' = [mapped EXCEPT ![call[i].channel] =
       IF call[i].source # NoSource THEN call[i].source
       ELSE [channel |-> call[i].channel, supplier |-> call[i].supplier, made |-> i]]
  /\ call' = [call EXCEPT ![i].at = "answered", ![i].ok = TRUE]
  /\ UNCHANGED <<origin, cursor, filed, batch, sources, raws, revisions, bot, job, sent,
                 shown, form, button, faults, overlapped>>

\* One commit: a new source if none was found, and the price source points to it.
CommitMapping(i) ==
  LET row == IF call[i].source # NoSource THEN call[i].source
             ELSE [channel |-> call[i].channel, supplier |-> call[i].supplier, made |-> i]
  IN
  /\ call[i].at = "insert"
  /\ sources' = sources \cup {row}
  /\ mapped' = [mapped EXCEPT ![call[i].channel] = row]
  /\ call' = [call EXCEPT ![i].at = "answered", ![i].ok = TRUE]
  /\ UNCHANGED <<origin, cursor, filed, batch, raws, revisions, bot, job, sent,
                 shown, form, button, faults, overlapped>>

(***************************************************************************)
(* The page.  Selecting a supplier is part of the click on Map.            *)
(***************************************************************************)
Post(op, p, c, s, b) ==
  /\ sent + faults < MaxEvents
  /\ sent' = sent + 1
  /\ call' = [call EXCEPT ![sent + 1] =
       [op |-> op, page |-> p, channel |-> c, supplier |-> s, batch |-> b,
        at |-> "sent", source |-> NoSource, ok |-> FALSE, open |-> TRUE]]
  /\ UNCHANGED <<origin, tables, bot, job, shown, faults, overlapped>>

\* The form of a channel is rendered while the page has it unmapped.
ClickMap(p, c, s) ==
  /\ c \notin shown[p].mapped
  /\ ~form[p][c].busy
  /\ form' = [form EXCEPT ![p][c].busy = TRUE]
  /\ Post("map", p, c, s, 0)
  /\ UNCHANGED button

\* The form offers the pending batches of its channel once it has mapped it.
InForm(p, b) ==
  LET c == batch[b].channel IN
  /\ c \notin shown[p].mapped
  /\ form[p][c].mapped
  /\ b \in shown[p].pending

ClickReprocess(p, b) ==
  LET c == batch[b].channel IN
  /\ InForm(p, b)
  /\ ~form[p][c].busy
  /\ form' = [form EXCEPT ![p][c].busy = TRUE]
  /\ \E s \in Suppliers : Post("reprocess", p, c, s, b)
  /\ UNCHANGED button

\* The table offers the others.
InTable(p, b) == b \in shown[p].others

ClickRow(p, b) ==
  /\ InTable(p, b)
  /\ ~button[p][b]
  /\ button' = [button EXCEPT ![p][b] = TRUE]
  /\ \E s \in Suppliers : Post("row", p, batch[b].channel, s, b)
  /\ UNCHANGED form

SettleOnOk(i, ok) ==   \* mutant: busy is reset after the answer, not in finally
  LET p == call[i].page
      c == call[i].channel
  IN
  /\ form' = IF ok /\ call[i].op # "row"
             THEN [form EXCEPT ![p][c] = [mapped |-> @.mapped \/ call[i].op = "map",
                                          busy |-> FALSE]]
             ELSE form
  /\ button' = IF ok /\ call[i].op = "row"
               THEN [button EXCEPT ![p][call[i].batch] = FALSE] ELSE button
  /\ shown' = [shown EXCEPT ![p].stale = @ \/ ok]

\* The fetch settles: an answer, or an error when the connection is lost.  The
\* finally clause runs either way.
Settle(i, ok) ==
  LET p == call[i].page
      c == call[i].channel
  IN
  /\ IF call[i].op = "row"
     THEN button' = [button EXCEPT ![p][call[i].batch] = FALSE] /\ UNCHANGED form
     ELSE /\ form' = [form EXCEPT ![p][c] =
               [mapped |-> @.mapped \/ (ok /\ call[i].op = "map"), busy |-> FALSE]]
          /\ UNCHANGED button
  /\ shown' = [shown EXCEPT ![p].stale = @ \/ ok]

Receive(i) ==
  /\ call[i].at = "answered"
  /\ call' = [call EXCEPT ![i] = NoCall]
  /\ IF call[i].open THEN Settle(i, call[i].ok) ELSE UNCHANGED <<form, button, shown>>
  /\ UNCHANGED <<origin, tables, bot, job, sent, faults, overlapped>>

\* router.refresh(): the page is rendered anew, its components keep their state.
Refresh(p) ==
  /\ sent + faults < MaxEvents
  /\ shown[p].stale
  /\ shown' = [shown EXCEPT ![p] = Rendered]
  /\ UNCHANGED <<origin, tables, bot, job, call, sent, form, button, faults,
                 overlapped>>

\* The operator opens the page again; doing so while a request is under way is a
\* lost connection first.
Load(p) ==
  /\ sent + faults < MaxEvents
  /\ \A i \in CallIds : call[i].page = p => ~call[i].open
  /\ shown' = [shown EXCEPT ![p] = Rendered]
  /\ form' = [form EXCEPT ![p] = [c \in Channels |-> [mapped |-> FALSE, busy |-> FALSE]]]
  /\ button' = [button EXCEPT ![p] = [b \in Batches |-> FALSE]]
  /\ UNCHANGED <<origin, tables, bot, job, call, sent, faults, overlapped>>

(***************************************************************************)
(* Faults.                                                                 *)
(***************************************************************************)
Fault ==
  /\ sent + faults < MaxEvents
  /\ faults' = faults + 1

\* The bot is killed between two commits; docker starts it again.
Crash ==
  /\ Fault
  /\ bot.at # "idle"
  /\ bot' = Idle
  /\ job' = [job EXCEPT ![Bot] = NoJob]
  /\ UNCHANGED <<origin, tables, console, overlapped>>

\* A request is refused, or its handler ends with an exception.
Fail(i) ==
  /\ Fault
  /\ call[i].at \in {"sent", "insert", "run"}
  /\ Abort(i)
  /\ UNCHANGED <<origin, tables, sent, shown, form, button, overlapped>>

\* The connection is lost: the page sees an error, the handler goes on.
Lose(i) ==
  /\ Fault
  /\ call[i].open
  /\ Settle(i, FALSE)
  /\ call' = [call EXCEPT ![i].open = FALSE]
  /\ UNCHANGED <<origin, tables, bot, job, sent, overlapped>>

-----------------------------------------------------------------------------
JobSteps(w) ==
  \/ SelectRaw(w) \/ InsertRaw(w) \/ SelectRevision(w) \/ InsertRevision(w)
  \/ Finish(w) \/ Break(w)

Poll ==
  \/ \E last \in Updates : GetUpdates(last)
  \/ SkipDuplicate \/ FileRefused \/ UpsertSource \/ FindBatch \/ SaveMessage
  \/ \E b \in Batches : ProcessTouched(b)
  \/ JobSteps(Bot) \/ Acknowledge

Handler(i) == Reprocess(i) \/ JobSteps(i) \/ Map(i) \/ CommitMapping(i)

Operator(p) ==
  \/ \E c \in Channels, s \in Suppliers : ClickMap(p, c, s)
  \/ \E b \in Batches : ClickReprocess(p, b) \/ ClickRow(p, b)
  \/ Load(p)

Next ==
  \/ Poll
  \/ \E i \in CallIds : Handler(i) \/ Receive(i) \/ Fail(i) \/ Lose(i)
  \/ \E p \in Pages : Operator(p) \/ Refresh(p)
  \/ Crash

Spec == Init /\ [][Next]_vars

\* The bot loops for ever, handlers run to their end, the browser settles its
\* fetches; nothing makes an operator click.
FairSpec ==
  /\ Spec
  /\ WF_vars(Poll)
  /\ \A i \in CallIds : WF_vars(Handler(i)) /\ WF_vars(Receive(i))

-----------------------------------------------------------------------------
\* Types of every variable.
TypeOK ==
  /\ origin \in [Updates -> Channels \cup {Refused}]
  /\ cursor \in 0..MaxUpdates
  /\ filed \in [Updates -> Batches \cup {Unseen, Refused}]
  /\ batch \in [Batches -> BatchState]
  /\ sources \subseteq Sources
  /\ mapped \in [Channels -> sources \cup {NoSource}]
  /\ raws \subseteq Batches
  /\ \A b \in Batches : \A n \in DOMAIN revisions[b] : revisions[b][n] \in Revision
  /\ bot \in BotState
  /\ job \in [Workers -> JobState]
  /\ call \in [CallIds -> CallState]
  /\ sent \in 0..MaxEvents
  /\ shown \in [Pages -> PageData]
  /\ form \in [Pages -> [Channels -> FormState]]
  /\ button \in [Pages -> [Batches -> BOOLEAN]]
  /\ faults \in 0..MaxEvents
  /\ overlapped \subseteq Batches

\* Each update is counted in its batch exactly once, whatever is polled again
\* after a crash.
CountedOnce == \A b \in Batches : batch[b].count = Cardinality(Text(b))

\* Updates whose text some revision holds.
ReadUpdates ==
  {u \in Updates : \E b \in Batches : \E n \in DOMAIN revisions[b] :
     u \in revisions[b][n].text}

Intake == INSTANCE PriceIntake WITH
            Updates  <- Updates,
            Channels <- Channels,
            home     <- origin,
            acked    <- cursor,
            filed    <- {u \in Updates : filed[u] # Unseen},
            bound    <- {c \in Channels : mapped[c] # NoSource},
            read     <- ReadUpdates

\* Whatever dies and whatever operators click meanwhile: an update is acknowledged
\* to Telegram only once it is filed, filed once, never given up, and the pipeline
\* reads only filed text of a mapped channel
\* (test_pending_mapping_batch_has_no_snapshot_or_offer_before_mapping).
IntakeKept == Intake!Spec

\* Between two revisions of a batch no message is dropped, unless two workers have
\* reprocessed the batch at a time: the lock taken for it is gone by then.
RevisionsGrow ==
  [][\A b \in Batches \ overlapped' :
       Latest(b) > 0 =>
         revisions[b][Latest(b)].text \subseteq revisions'[b][Len(revisions'[b])].text]_vars

\* One bad batch or one crash does not stop the queue: every update is acknowledged.
QueueMoves == cursor < MaxUpdates ~> cursor = MaxUpdates

\* No form stays busy: it can be used again after any answer or lost connection.
BusyEnds == \A p \in Pages, c \in Channels : form[p][c].busy ~> ~form[p][c].busy
=============================================================================
