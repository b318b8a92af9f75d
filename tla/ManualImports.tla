--------------------------- MODULE ManualImports ----------------------------
(***************************************************************************)
(* Manual imports: the console's import form                               *)
(* (components/import-workflow.tsx, on /imports/telegram and               *)
(* /imports/onec) and the preview and confirm handlers behind it           *)
(* (services/onboarding.py, services/raw_records.py, create_snapshot,      *)
(* import_one_c_file).                                                     *)
(*                                                                         *)
(* The form has no busy flag: while a request is in flight its buttons and *)
(* fields stay live, and every answer is shown in the order it arrives.    *)
(* A handler holds no lock: each SELECT and each commit is a step here.    *)
(* What a price list or an export does to offers and stock is not          *)
(* modelled (SupplierSnapshots has the former), only whether it was        *)
(* processed, and what became of it.                                       *)
(***************************************************************************)
EXTENDS Naturals

CONSTANTS
  Forms,      \* open import pages
  Lists,      \* Telegram price texts, each with the source it is pasted for
  Exports,    \* 1C export files
  MaxCalls,   \* bound: requests sent by all the forms
  MaxFaults,  \* bound: handlers that die, answers that are lost
  NoBatch

Contents == Lists \cup Exports
Modes    == {"FULL", "PARTIAL"}

\* uq_manual_import_batch_identity: a batch is its scope, content and mode.
Keys == [content : Contents, mode : Modes]

ASSUME ImportsAssumption ==
  /\ MaxCalls \in Nat
  /\ MaxFaults \in Nat
  /\ Lists \cap Exports = {}
  /\ Contents # {}
  /\ Forms # {}
  /\ NoBatch \notin Keys

CallIds == 1..MaxCalls

VARIABLES
  form,       \* [Forms -> FormState], the React state of a page
  call,       \* [CallIds -> CallState], requests and their handlers
  sent,       \* requests sent so far
  batch,      \* [Keys -> Status], table manual_import_batches
  raws,       \* lists that have a raw record
  snapshots,  \* calls that have inserted a supplier snapshot
  processed,  \* the snapshots that process_snapshot has finished
  runs,       \* [CallIds -> RunStatus], the 1C import run a call inserted
  faults,     \* faults so far
  approved    \* history: batches confirmed while they were on display

tables == <<batch, raws, snapshots, processed, runs>>
vars   == <<form, call, sent, tables, faults, approved>>

Closed     == {"CONFIRMED", "DUPLICATE"}
Status     == {"NONE", "PREVIEWED"} \cup Closed
Verdicts   == {"COMPLETED", "REJECTED", "FAILED"}
RunStatus  == {"NONE", "DUPLICATE"} \cup Verdicts

FormState ==
  [content : Contents, mode : Modes,          \* the fields
   batch : Keys \cup {NoBatch}, status : Status,  \* the batch on display
   message : {"", "Previewing...", "Preview ready", "Preview failed",
              "Confirming...", "Confirmed", "Confirm failed"}]

Steps == {"unused", "sent", "import", "apply", "insert", "raw", "rawInsert",
          "snapshot", "snapshotInsert", "process", "finish", "answered", "over"}

CallState ==
  [op : {"preview", "confirm"}, form : Forms, key : Keys, at : Steps,
   snap : CallIds \cup {0},              \* the snapshot a confirm works on
   answer : Status \cup {"error"}]       \* status of the batch returned

IsList(k) == k.content \in Lists

\* Pages as the operator left them after filling them in, nothing sent yet.
Init ==
  /\ form \in [Forms -> [content : Contents, mode : {"FULL"}, batch : {NoBatch},
                         status : {"NONE"}, message : {""}]]
  /\ call = [c \in CallIds |->
               [op |-> "preview", form |-> CHOOSE f \in Forms : TRUE,
                key |-> CHOOSE k \in Keys : TRUE, at |-> "unused", snap |-> 0,
                answer |-> "NONE"]]
  /\ sent = 0
  /\ batch = [k \in Keys |-> "NONE"]
  /\ raws = {}
  /\ snapshots = {}
  /\ processed = {}
  /\ runs = [c \in CallIds |-> "NONE"]
  /\ faults = 0
  /\ approved = {}

Goto(c, step) == call' = [call EXCEPT ![c].at = step]

Answer(c, what) == call' = [call EXCEPT ![c].at = "answered", ![c].answer = what]

(***************************************************************************)
(* The page.  Edits of the fields are seen by nobody before the next click *)
(* on Preview, so that click takes them with it.  kind is fixed by the     *)
(* route: a page never swaps a price list for an export.                   *)
(***************************************************************************)
Post(f, op, key) ==
  /\ sent < MaxCalls
  /\ sent' = sent + 1
  /\ call' = [call EXCEPT ![sent + 1] =
                [op |-> op, form |-> f, key |-> key, at |-> "sent", snap |-> 0,
                 answer |-> "NONE"]]
  /\ UNCHANGED <<tables, faults>>

\* preview(): the fields as they are at the click.
ClickPreview(f, content, mode) ==
  /\ content \in Lists <=> form[f].content \in Lists
  /\ form' = [form EXCEPT ![f].content = content, ![f].mode = mode,
                          ![f].message = "Previewing..."]
  /\ Post(f, "preview", [content |-> content, mode |-> mode])
  /\ UNCHANGED approved

ConfirmShown(f, key) ==
  /\ form[f].batch # NoBatch
  /\ form' = [form EXCEPT ![f].message = "Confirming..."]
  /\ approved' = approved \cup {form[f].batch}
  /\ Post(f, "confirm", key)

ClickConfirmOptimistic(f) ==   \* mutant: shows the result before the answer
  /\ form[f].batch # NoBatch
  /\ form' = [form EXCEPT ![f].status = "CONFIRMED", ![f].message = "Confirming..."]
  /\ approved' = approved \cup {form[f].batch}
  /\ Post(f, "confirm", form[f].batch)

ClickConfirmFields(f) ==   \* mutant: confirms what the fields say
  ConfirmShown(f, [content |-> form[f].content, mode |-> form[f].mode])

\* confirm(): the batch on display at the click, whatever the fields say now.
ClickConfirm(f) == ConfirmShown(f, form[f].batch)

ShowUnchecked(c) ==   \* mutant: response.ok is not looked at
  form' = [form EXCEPT ![call[c].form].batch = call[c].key,
                       ![call[c].form].status = call[c].answer,
                       ![call[c].form].message = "Confirmed"]

Show(c) ==
  LET f == call[c].form
      preview == call[c].op = "preview"
  IN  form' = [form EXCEPT ![f] =
        IF call[c].answer = "error"
        THEN [@ EXCEPT !.message = IF preview THEN "Preview failed" ELSE "Confirm failed"]
        ELSE [@ EXCEPT !.batch = call[c].key, !.status = call[c].answer,
                       !.message = IF preview THEN "Preview ready" ELSE "Confirmed"]]

ReceiveUncaught(c) ==   \* mutant: no catch around the fetch
  /\ call[c].at = "answered"
  /\ IF call[c].answer = "error" THEN UNCHANGED form ELSE Show(c)
  /\ Goto(c, "over")
  /\ UNCHANGED <<sent, tables, faults, approved>>

\* The answer, or the error, of one request: the batch on display is replaced
\* whichever request it belongs to.
Receive(c) ==
  /\ call[c].at = "answered"
  /\ Show(c)
  /\ Goto(c, "over")
  /\ UNCHANGED <<sent, tables, faults, approved>>

(***************************************************************************)
(* Faults, and the requests the API refuses (session, role, CSRF, unknown  *)
(* source, empty text): an error, with nothing done.                       *)
(***************************************************************************)
Refuse(c) ==
  /\ call[c].at = "sent"
  /\ Answer(c, "error")
  /\ UNCHANGED <<form, sent, tables, faults, approved>>

\* A handler ends with an exception between two commits, or an answer is lost
\* on its way back; what was committed stays.
Fail(c) ==
  /\ faults < MaxFaults
  /\ faults' = faults + 1
  /\ call[c].at \notin {"unused", "over"}
  /\ Answer(c, "error")
  /\ UNCHANGED <<form, sent, tables, approved>>

(***************************************************************************)
(* preview_telegram_manual_import, preview_one_c_manual_import.            *)
(***************************************************************************)
Preview(c) ==
  /\ call[c].at = "sent"
  /\ call[c].op = "preview"
  /\ LET k == call[c].key IN
       \/ batch[k] # "NONE" /\ Answer(c, batch[k])
       \/ batch[k] = "NONE" /\ Goto(c, IF IsList(k) THEN "insert" ELSE "import")
  /\ UNCHANGED <<form, sent, tables, faults, approved>>

\* A batch inserted meanwhile violates the unique key: the Telegram handler
\* reads it and returns it, the 1C handler has no such branch.
InsertBatch(c) ==
  /\ call[c].at = "insert"
  /\ LET k == call[c].key IN
       \/ /\ batch[k] = "NONE"
          /\ batch' = [batch EXCEPT ![k] = "PREVIEWED"]
          /\ Answer(c, "PREVIEWED")
       \/ /\ batch[k] # "NONE"
          /\ Answer(c, IF IsList(k) THEN batch[k] ELSE "error")
          /\ UNCHANGED batch
  /\ UNCHANGED <<form, sent, raws, snapshots, processed, runs, faults, approved>>

(***************************************************************************)
(* confirm_telegram_manual_import and confirm_one_c_manual_import.  The    *)
(* status is read once, without a lock.                                    *)
(***************************************************************************)
Confirm(c) ==
  /\ call[c].at = "sent"
  /\ call[c].op = "confirm"
  /\ LET k == call[c].key IN
       \/ batch[k] \in Closed /\ Answer(c, batch[k])
       \/ batch[k] \notin Closed /\ Goto(c, IF IsList(k) THEN "raw" ELSE "import")
  /\ UNCHANGED <<form, sent, tables, faults, approved>>

\* create_raw_record: external_record_id is the content hash, without the mode.
SelectRaw(c) ==
  /\ call[c].at = "raw"
  /\ Goto(c, IF call[c].key.content \in raws THEN "snapshot" ELSE "rawInsert")
  /\ UNCHANGED <<form, sent, tables, faults, approved>>

\* The unique index makes the loser of a race fail.
InsertRaw(c) ==
  /\ call[c].at = "rawInsert"
  /\ raws' = raws \cup {call[c].key.content}
  /\ IF call[c].key.content \in raws THEN Answer(c, "error") ELSE Goto(c, "snapshot")
  /\ UNCHANGED <<form, sent, batch, snapshots, processed, runs, faults, approved>>

\* create_snapshot finds a snapshot of this raw record, of any mode.
SelectSnapshot(c) ==
  /\ call[c].at = "snapshot"
  /\ LET Found == {s \in snapshots : call[s].key.content = call[c].key.content} IN
       \/ /\ Found = {}
          /\ Goto(c, "snapshotInsert")
       \/ \E s \in Found :
            call' = [call EXCEPT ![c].at = "process", ![c].snap = s]
  /\ UNCHANGED <<form, sent, tables, faults, approved>>

\* The unique key holds a NULL revision, which never equals another: a
\* snapshot inserted meanwhile does not stop this one.
InsertSnapshot(c) ==
  /\ call[c].at = "snapshotInsert"
  /\ snapshots' = snapshots \cup {c}
  /\ call' = [call EXCEPT ![c].at = "process", ![c].snap = c]
  /\ UNCHANGED <<form, sent, batch, raws, processed, runs, faults, approved>>

\* process_snapshot, one at a time per snapshot; a finished one is left alone.
ProcessSnapshot(c) ==
  /\ call[c].at = "process"
  /\ processed' = processed \cup {call[c].snap}
  /\ Goto(c, "finish")
  /\ UNCHANGED <<form, sent, batch, raws, snapshots, runs, faults, approved>>

(***************************************************************************)
(* import_one_c_file, a dry run for a preview.                             *)
(***************************************************************************)
Dry(c) == call[c].op = "preview"

AfterImport(c) == IF Dry(c) THEN "insert" ELSE "finish"

ImportedBefore(c) ==
  \E d \in CallIds :
    /\ call[d].key.content = call[c].key.content
    /\ Dry(d) <=> Dry(c)
    /\ runs[d] \notin {"NONE", "FAILED"}

\* Same bytes imported before, in any mode and with any verdict but FAILED.
SelectRun(c) ==
  /\ call[c].at = "import"
  /\ \/ /\ ImportedBefore(c)
        /\ runs' = [runs EXCEPT ![c] = "DUPLICATE"]
        /\ Goto(c, AfterImport(c))
     \/ /\ ~ImportedBefore(c)
        /\ Goto(c, "apply")
        /\ UNCHANGED runs
  /\ UNCHANGED <<form, sent, batch, raws, snapshots, processed, faults, approved>>

\* apply_import in one transaction; only FULL has gates that reject.
ApplyImport(c, verdict) ==
  /\ call[c].at = "apply"
  /\ verdict = "REJECTED" => call[c].key.mode = "FULL"
  /\ runs' = [runs EXCEPT ![c] = verdict]
  /\ Goto(c, AfterImport(c))
  /\ UNCHANGED <<form, sent, batch, raws, snapshots, processed, faults, approved>>

\* Only a DUPLICATE run is told apart; a rejected or failed one is CONFIRMED.
FinishConfirm(c) ==
  /\ call[c].at = "finish"
  /\ LET outcome == IF runs[c] = "DUPLICATE" THEN "DUPLICATE" ELSE "CONFIRMED" IN
       /\ batch' = [batch EXCEPT ![call[c].key] = outcome]
       /\ Answer(c, outcome)
  /\ UNCHANGED <<form, sent, raws, snapshots, processed, runs, faults, approved>>

-----------------------------------------------------------------------------
Handler(c) ==
  \/ Refuse(c) \/ Preview(c) \/ InsertBatch(c) \/ Confirm(c)
  \/ SelectRaw(c) \/ InsertRaw(c) \/ SelectSnapshot(c) \/ InsertSnapshot(c)
  \/ ProcessSnapshot(c)
  \/ SelectRun(c) \/ (\E verdict \in Verdicts : ApplyImport(c, verdict))
  \/ FinishConfirm(c)

Page(f) ==
  \/ \E content \in Contents, mode \in Modes : ClickPreview(f, content, mode)
  \/ ClickConfirm(f)

Next ==
  \/ \E f \in Forms : Page(f)
  \/ \E c \in CallIds : Handler(c) \/ Receive(c) \/ Fail(c)

\* A handler runs to its end and the browser settles every fetch; nothing
\* makes an operator click.
Spec == Init /\ [][Next]_vars

FairSpec == Spec /\ \A c \in CallIds : WF_vars(Handler(c)) /\ WF_vars(Receive(c))

-----------------------------------------------------------------------------
\* Types of every variable.
TypeOK ==
  /\ form \in [Forms -> FormState]
  /\ call \in [CallIds -> CallState]
  /\ sent \in 0..MaxCalls
  /\ batch \in [Keys -> Status]
  /\ raws \subseteq Lists
  /\ snapshots \subseteq CallIds
  /\ processed \subseteq CallIds
  /\ runs \in [CallIds -> RunStatus]
  /\ faults \in 0..MaxFaults
  /\ approved \subseteq Keys

Batches(S) == {call[c].key : c \in S}

\* The refinement: what ran for good are the processed snapshots and the real
\* 1C runs that reached a verdict.
Ran ==
  Batches(processed)
    \cup Batches({c \in CallIds : call[c].op = "confirm" /\ runs[c] \in Verdicts})

Ledger == INSTANCE ImportLedger WITH
            Keys      <- Keys,
            previewed <- {k \in Keys : batch[k] # "NONE"},
            approved  <- approved,
            ran       <- Ran,
            closed    <- {k \in Keys : batch[k] \in Closed}

\* docs/data-onboarding.md "preview-and-confirm": whatever requests overlap, die
\* or arrive late, nothing goes through the pipeline that was not previewed, shown
\* and confirmed, and no batch is closed before its content went through it.
LedgerKept == Ledger!Spec

\* A page shows a batch as closed only if it is closed in the database; answers
\* that arrive late may show it open again, never the other way.
ShownClosedIsClosed ==
  \A f \in Forms : form[f].status \in Closed => batch[form[f].batch] \in Closed

\* No page waits for ever: every "Previewing..." and "Confirming..." is replaced.
FormSettles ==
  \A f \in Forms :
    form[f].message \in {"Previewing...", "Confirming..."} ~>
      form[f].message \notin {"Previewing...", "Confirming..."}
=============================================================================
