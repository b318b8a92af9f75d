----------------------------- MODULE Publication ----------------------------
(***************************************************************************)
(* Publication intents and jobs (services/publication.py) over the listing *)
(* they are prepared from (services/content.py), while operators approve,  *)
(* reject, rebuild, reprice, dry-run and cancel at the same time.          *)
(*                                                                         *)
(* One generic listing row of one variant, one draft, one image set, one   *)
(* marketplace.  Of a row listing_snapshot differs in its readiness and    *)
(* its status alone, and the key of an intent adds its type to these: an   *)
(* intent is named after the three, and so is its one job.                 *)
(*                                                                         *)
(* A request has a session of its own, and its sessionmaker does not       *)
(* expire what it has loaded: a row read once by a request keeps, for that *)
(* request, the values it was read with (SELECT FOR UPDATE changes nothing *)
(* about that), and an assignment of the value it was read with is not     *)
(* written.                                                                *)
(***************************************************************************)
EXTENDS Naturals, FiniteSets

CONSTANTS
  Prices,       \* pricing states (price and stock decision)
  NoPrice,
  RowPrice,     \* the pricing state the row was built from
  Types,        \* PublicationIntentType
  MaxRequests   \* bound: requests

CallIds == 1..MaxRequests

ASSUME PublicationAssumption ==
  /\ MaxRequests \in Nat
  /\ NoPrice \notin Prices
  /\ RowPrice \in Prices
  /\ Types # {}

VARIABLES
  listing,   \* generic_readiness and status of the row
  content,   \* status of the draft
  images,    \* the image set is APPROVED
  price,     \* variant_pricing_states
  facts,     \* the draft's fact hash is the latest
  job,       \* [Intents -> JobState]
  binding,   \* sync_state, and whether last_payload_hash is set
  alerts,    \* jobs with an OPEN alert LISTING_NOT_READY
  call,      \* [CallIds -> CallState]
  sent,      \* requests sent so far
  changed,   \* history: requests handled while what they read was written
  met,       \* history: [CallIds -> requests handled at the same time]
  ended      \* history: [Intents -> requests that gave the job an outcome]

source  == <<listing, content, images, price, facts>>
orders  == <<job, binding, alerts>>
history == <<changed, met, ended>>
vars    == <<source, orders, call, sent, history>>

Readiness == {"READY", "APPROVED", "STALE"}
Row       == [readiness : Readiness, status : Readiness \cup {"REJECTED"}]
Intents   == [listing : Row, type : Types]
Draft     == {"APPROVED", "REJECTED", "SUPERSEDED"}
Sync      == {"NONE", "READY_FOR_INTENT", "INTENT_PENDING", "DRY_RUN_OK", "STALE",
              "BLOCKED_EXTERNAL"}
Terminal  == {"DRY_RUN_SUCCESS", "BLOCKED", "CANCELLED"}

Status    == {"NONE", "PENDING"} \cup Terminal

JobState ==
  [status : Status,
   code : {"NONE", "LISTING_NOT_READY", "AVITO_CONTRACT_INCOMPLETE", "JOB_CANCELLED"},
   real : BOOLEAN,                   \* dry_run is FALSE
   count : Nat, attempts : Nat]      \* attempt_count; rows of publication_attempts

NoJob == [status |-> "NONE", code |-> "NONE", real |-> FALSE, count |-> 0, attempts |-> 0]

Ops == {"intent", "dryrun", "cancel", "reconcile", "validate", "approve", "facts", "content"}

CallState ==
  [op : Ops, real : BOOLEAN,
   at : {"none", "context", "create", "refresh", "process", "cancel", "rebuild", "stale",
         "commit", "answered"},
   job : Intents,                                     \* the job asked for, or found
   listing : Row, content : Draft, images : BOOLEAN,
   price : Prices \cup {NoPrice}, sync : Sync,        \* as read by the request
   prepared : BOOLEAN, status : Status, count : Nat]

Built(at) == [readiness |-> at, status |-> at]

AnyIntent == [listing |-> Built("READY"), type |-> CHOOSE t \in Types : TRUE]

NoCall ==
  [op |-> "intent", real |-> FALSE, at |-> "none", job |-> AnyIntent,
   listing |-> Built("READY"), content |-> "APPROVED", images |-> TRUE,
   price |-> NoPrice, sync |-> "NONE", prepared |-> FALSE, status |-> "NONE", count |-> 0]

\* A row built READY by build_generic_listing, and perhaps approved since.
Init ==
  /\ listing \in {Built("READY"), Built("APPROVED")}
  /\ content = "APPROVED"
  /\ images = TRUE
  /\ price = RowPrice
  /\ facts = TRUE
  /\ job = [r \in Intents |-> NoJob]
  /\ binding = [sync |-> "NONE", prepared |-> FALSE]
  /\ alerts = {}
  /\ call = [i \in CallIds |-> NoCall]
  /\ sent = 0
  /\ changed = {}
  /\ met = [i \in CallIds |-> {}]
  /\ ended = [r \in Intents |-> {}]

Handling == {i \in CallIds : call[i].at \notin {"none", "answered"}}

\* A request arrives and makes its first read.
Begin(request) ==
  LET i == sent + 1 IN
  /\ sent < MaxRequests
  /\ sent' = i
  /\ call' = [call EXCEPT ![i] = request]
  /\ met' = [k \in CallIds |-> IF k = i THEN Handling
                               ELSE IF k \in Handling THEN met[k] \cup {i}
                               ELSE met[k]]
  /\ UNCHANGED <<source, orders, changed, ended>>

\* What has been read is of no use any more.
Answer(i) ==
  call' = [call EXCEPT ![i] = [NoCall EXCEPT !.op = call[i].op, !.at = "answered"]]

Goto(i, at) == call' = [call EXCEPT ![i].at = at]

\* The ORM writes what differs from the value that was read.
Written(read, new, stored) == IF new = read THEN stored ELSE new

\* Both columns of the row are assigned, each is written if it was read otherwise.
Rewritten(read, to) ==
  [readiness |-> Written(read.readiness, to, listing.readiness),
   status    |-> Written(read.status, to, listing.status)]

Touch == changed' = changed \cup Handling

(***************************************************************************)
(* create_publication_intent, and process_publication_job after it in the  *)
(* same session (POST .../dry-run, /dryrun of the operators' bot).         *)
(***************************************************************************)

\* current_listing_context reads the listing; then the draft, the images, the
\* pricing state, the binding, and the intent of this snapshot with its job.
AskIntent(op, real, type) ==
  Begin([NoCall EXCEPT !.op = op, !.real = real, !.at = "context", !.listing = listing,
                       !.job = [listing |-> listing, type |-> type]])

Find(i) ==
  LET found == job[call[i].job] IN
  /\ call[i].at = "context"
  /\ call[i].op \in {"intent", "dryrun"}
  /\ IF found.status # "NONE" /\ call[i].op = "intent"
     THEN Answer(i)
     ELSE call' = [call EXCEPT ![i] = [@ EXCEPT
            !.at = IF found.status = "NONE" THEN "create" ELSE "process",
            !.content = content, !.images = images, !.price = price,
            !.sync = binding.sync, !.status = found.status, !.count = found.count,
            !.real = IF found.status = "NONE" THEN call[i].real ELSE found.real]]
  /\ UNCHANGED <<source, orders, sent, history>>

\* Two that create the binding, or the intent of one snapshot: the unique keys let
\* one pass.  The route answers the other with an error.
Create(i) ==
  LET c == call[i]
      rival == job[c.job].status # "NONE" \/ (c.sync = "NONE" /\ binding.sync # "NONE")
  IN
  /\ c.at = "create"
  /\ IF rival
     THEN Answer(i) /\ UNCHANGED orders
     ELSE /\ job' = [job EXCEPT ![c.job] = [@ EXCEPT !.status = "PENDING", !.real = c.real]]
          /\ binding' = [binding EXCEPT !.sync = Written(c.sync, "INTENT_PENDING", @)]
          /\ IF c.op = "intent" THEN Answer(i)
             ELSE call' = [call EXCEPT ![i] =
                                       [@ EXCEPT !.at = "refresh", !.sync = "INTENT_PENDING"]]
          /\ UNCHANGED alerts
  /\ UNCHANGED <<source, sent, history>>

Refresh(i) ==
  /\ call[i].at = "refresh"
  /\ call' = [call EXCEPT ![i] =
       [@ EXCEPT !.at = "process", !.status = job[call[i].job].status,
                 !.count = job[call[i].job].count]]
  /\ UNCHANGED <<source, orders, sent, history>>

ReadyUnread(c) ==   \* mutant: the draft's status is not looked at
  /\ c.listing.readiness = "APPROVED"
  /\ c.images
  /\ c.price # NoPrice

\* validate_intent_context, with what the request has read.  Its first test cannot
\* fail here: the intent was found, or made, by the snapshot of that same listing.
\* The listing's status is not looked at.
Ready(c) ==
  /\ c.listing.readiness = "APPROVED"
  /\ c.content = "APPROVED"
  /\ c.images
  /\ c.price # NoPrice

OutcomeRaw(c) ==   \* mutant: the job's error code is the reason itself
  IF c.content # "APPROVED"
  THEN [status |-> "BLOCKED", code |-> "CONTENT_NOT_APPROVED", sync |-> "STALE"]
  ELSE IF ~Ready(c)
  THEN [status |-> "BLOCKED", code |-> "LISTING_NOT_READY", sync |-> "STALE"]
  ELSE [status |-> "DRY_RUN_SUCCESS", code |-> "NONE", sync |-> "DRY_RUN_OK"]

OutcomeEarly(c) ==   \* mutant: the binding is marked before the context is validated
  IF ~Ready(c) THEN [status |-> "BLOCKED", code |-> "LISTING_NOT_READY", sync |-> "DRY_RUN_OK"]
  ELSE [status |-> "DRY_RUN_SUCCESS", code |-> "NONE", sync |-> "DRY_RUN_OK"]

Outcome(c) ==
  IF ~Ready(c) THEN [status |-> "BLOCKED", code |-> "LISTING_NOT_READY", sync |-> "STALE"]
  ELSE IF c.real THEN [status |-> "BLOCKED", code |-> "AVITO_CONTRACT_INCOMPLETE",
                       sync |-> "BLOCKED_EXTERNAL"]
  ELSE [status |-> "DRY_RUN_SUCCESS", code |-> "NONE", sync |-> "DRY_RUN_OK"]

ProcessAgain(i) ==   \* mutant: a terminal job is not left alone
  LET c == call[i]
      out == Outcome(c)
  IN
  /\ c.at = "process"
  /\ Answer(i)
  /\ job' = [job EXCEPT ![c.job] = [status |-> out.status, code |-> out.code,
                                    real |-> @.real, count |-> c.count + 1,
                                    attempts |-> @.attempts + 1]]
  /\ binding' = [binding EXCEPT !.sync = Written(c.sync, out.sync, @)]
  /\ ended' = [ended EXCEPT ![c.job] = @ \cup {i}]
  /\ UNCHANGED <<source, alerts, sent, changed, met>>

ProcessAlarmed(i) ==   \* mutant: an incomplete contract opens an alert too
  LET c == call[i]
      out == Outcome(c)
  IN
  /\ c.at = "process"
  /\ c.status \notin Terminal
  /\ Answer(i)
  /\ job' = [job EXCEPT ![c.job] = [status |-> out.status, code |-> out.code,
                                    real |-> @.real, count |-> c.count + 1,
                                    attempts |-> @.attempts + 1]]
  /\ alerts' = IF out.status = "BLOCKED" THEN alerts \cup {c.job} ELSE alerts
  /\ ended' = [ended EXCEPT ![c.job] = @ \cup {i}]
  /\ UNCHANGED <<source, binding, sent, changed, met>>

\* From the row lock to the commit; nothing is read under the lock but the alert.
\* resolve_alert looks for a dedupe key that no alert is opened with.
Process(i) ==
  LET c == call[i]
      out == Outcome(c)
  IN
  /\ c.at = "process"
  /\ Answer(i)
  /\ IF c.status \in Terminal THEN UNCHANGED <<orders, ended>>
     ELSE /\ job' = [job EXCEPT ![c.job] = [status |-> out.status, code |-> out.code,
                                            real |-> @.real, count |-> c.count + 1,
                                            attempts |-> @.attempts + 1]]
          /\ binding' = [sync |-> Written(c.sync, out.sync, binding.sync),
                         prepared |-> binding.prepared \/ out.status = "DRY_RUN_SUCCESS"]
          /\ alerts' = IF out.code = "LISTING_NOT_READY" THEN alerts \cup {c.job} ELSE alerts
          /\ ended' = [ended EXCEPT ![c.job] = @ \cup {i}]
  /\ UNCHANGED <<source, sent, changed, met>>

\* cancel_publication_job: session.get, without a lock, then the commit.
AskCancel(r) ==
  /\ job[r].status # "NONE"
  /\ Begin([NoCall EXCEPT !.op = "cancel", !.job = r, !.status = job[r].status,
                          !.at = IF job[r].status = "PENDING" THEN "cancel" ELSE "answered"])

Cancel(i) ==
  /\ call[i].at = "cancel"
  /\ Answer(i)
  /\ job' = [job EXCEPT ![call[i].job] =
                         [@ EXCEPT !.status = "CANCELLED", !.code = "JOB_CANCELLED"]]
  /\ ended' = [ended EXCEPT ![call[i].job] = @ \cup {i}]
  /\ UNCHANGED <<source, binding, alerts, sent, changed, met>>

\* reconcile_listing: the binding is stale if it was prepared and its listing is not
\* ready any more or the price has moved (the hashes of one draft and set do not).
AskReconcile ==
  Begin([NoCall EXCEPT !.op = "reconcile", !.at = "context", !.listing = listing])

Read(i) ==
  /\ call[i].at = "context"
  /\ call[i].op = "reconcile"
  /\ call' = [call EXCEPT ![i] = [@ EXCEPT !.at = "commit", !.price = price,
                                          !.sync = binding.sync,
                                          !.prepared = binding.prepared]]
  /\ UNCHANGED <<source, orders, sent, history>>

Reconcile(i) ==
  LET c == call[i]
      drifted == c.prepared /\ (c.listing.readiness = "STALE" \/ c.price # RowPrice)
  IN
  /\ c.at = "commit"
  /\ c.op = "reconcile"
  /\ Answer(i)
  /\ binding' = [binding EXCEPT !.sync =
       IF c.sync = "NONE" THEN IF @ = "NONE" THEN "READY_FOR_INTENT" ELSE @
       ELSE IF drifted THEN Written(c.sync, "STALE", @) ELSE @]
  /\ UNCHANGED <<source, job, alerts, sent, history>>

(***************************************************************************)
(* The listing and what it is built from (services/content.py, pricing).   *)
(***************************************************************************)

\* validate_listing, also the first half of approve_listing.
AskValidate(op) ==
  Begin([NoCall EXCEPT !.op = op, !.at = "rebuild", !.listing = listing])

\* build_generic_listing finds this row again iff nothing it was built from differs.
Rebuild(i) ==
  LET c == call[i]
      same == content = "APPROVED" /\ images /\ price = RowPrice
  IN
  /\ c.at = "rebuild"
  /\ IF ~same THEN Goto(i, "stale")
     ELSE IF c.op = "approve" /\ c.listing.readiness = "READY" THEN Goto(i, "commit")
     ELSE Answer(i)
  /\ UNCHANGED <<source, orders, sent, history>>

Stale(i) ==
  /\ call[i].at = "stale"
  /\ Answer(i)
  /\ listing' = Rewritten(call[i].listing, "STALE")
  /\ Touch
  /\ UNCHANGED <<content, images, price, facts, orders, sent, met, ended>>

Approve(i) ==
  /\ call[i].at = "commit"
  /\ call[i].op = "approve"
  /\ Answer(i)
  /\ listing' = Rewritten(call[i].listing, "APPROVED")
  /\ Touch
  /\ UNCHANGED <<content, images, price, facts, orders, sent, met, ended>>

\* rebuild_content_facts with a hash not seen before: supersede_stale_content reads
\* the approved drafts and the ready or approved listings of the variant.
AskFacts ==
  Begin([NoCall EXCEPT !.op = "facts", !.at = "commit", !.content = content,
                       !.listing = listing])

Supersede(i) ==
  LET c == call[i] IN
  /\ c.at = "commit"
  /\ c.op = "facts"
  /\ Answer(i)
  /\ facts' = FALSE
  /\ content' = IF c.content = "APPROVED" THEN "SUPERSEDED" ELSE content
  /\ listing' = IF c.listing.readiness = "STALE" THEN listing
                ELSE Rewritten(c.listing, "STALE")
  /\ Touch
  /\ UNCHANGED <<images, price, orders, sent, met, ended>>

AskContentUnchecked ==   \* mutant: STALE_FACTS is not raised
  Begin([NoCall EXCEPT !.op = "content", !.content = content, !.at = "commit"])

\* approve_content_draft, if the draft's facts are the latest.
AskContent ==
  Begin([NoCall EXCEPT !.op = "content", !.content = content,
                       !.at = IF facts THEN "commit" ELSE "answered"])

ApproveContent(i) ==
  /\ call[i].at = "commit"
  /\ call[i].op = "content"
  /\ Answer(i)
  /\ content' = Written(call[i].content, "APPROVED", content)
  /\ Touch
  /\ UNCHANGED <<listing, images, price, facts, orders, sent, met, ended>>

\* control_reject_listing: generic_readiness stays what it was.
Reject ==
  /\ listing' = [listing EXCEPT !.status = "REJECTED"]
  /\ UNCHANGED <<content, images, price>>

\* Requests of one write: reject_content_draft; validate_image_set (an approved set
\* is READY again) and approve_image_set; recalculate_variant_pricing; Reject.
Edit ==
  /\ sent < MaxRequests
  /\ sent' = sent + 1
  /\ call' = [call EXCEPT ![sent + 1] = [NoCall EXCEPT !.at = "answered"]]
  /\ \/ content' = "REJECTED" /\ UNCHANGED <<listing, images, price>>
     \/ images' = ~images /\ UNCHANGED <<listing, content, price>>
     \/ \E p \in Prices \cup {NoPrice} :
          price' = p /\ UNCHANGED <<listing, content, images>>
     \/ Reject
  /\ Touch
  /\ UNCHANGED <<facts, orders, met, ended>>

\* A handler dies: its transaction is rolled back.
Die(i) ==
  /\ i \in Handling
  /\ Answer(i)
  /\ UNCHANGED <<source, orders, sent, history>>

Ask ==
  \/ \E type \in Types : \/ \E real \in BOOLEAN : AskIntent("intent", real, type)
                         \/ AskIntent("dryrun", FALSE, type)
  \/ \E r \in Intents : AskCancel(r)
  \/ \E op \in {"validate", "approve"} : AskValidate(op)
  \/ AskReconcile \/ AskFacts \/ AskContent \/ Edit

Handle(i) ==
  \/ Find(i) \/ Create(i) \/ Refresh(i) \/ Process(i) \/ Cancel(i)
  \/ Read(i) \/ Reconcile(i)
  \/ Rebuild(i) \/ Stale(i) \/ Approve(i)
  \/ Supersede(i) \/ ApproveContent(i)

Next == Ask \/ \E i \in CallIds : Handle(i) \/ Die(i)

Spec == Init /\ [][Next]_vars

(***************************************************************************)
(* Properties.                                                             *)
(***************************************************************************)

\* Every variable has its type, and a job has as many attempts as it was processed.
TypeOK ==
  /\ listing \in Row
  /\ content \in Draft
  /\ images \in BOOLEAN
  /\ price \in Prices \cup {NoPrice}
  /\ facts \in BOOLEAN
  /\ job \in [Intents -> JobState]
  /\ binding \in [sync : Sync, prepared : BOOLEAN]
  /\ alerts \subseteq Intents
  /\ call \in [CallIds -> CallState]
  /\ sent \in 0..MaxRequests
  /\ changed \subseteq CallIds
  /\ met \in [CallIds -> SUBSET CallIds]
  /\ ended \in [Intents -> SUBSET CallIds]

\* A job succeeds only in a dry run, and if nothing the request depends on changes
\* meanwhile, only the job of the listing version that is stored, its readiness
\* APPROVED, its draft and images approved and its price known: an order for an older
\* version is never carried out, one from before a rejection included.  It is the
\* readiness that counts: control_reject_listing leaves it, so a dry run asked after
\* a rejection is of a version APPROVED in readiness and REJECTED in status, and
\* succeeds (process_publication_job).
PreparedApproved ==
  [][\A r \in Intents :
       job[r].status # "DRY_RUN_SUCCESS" /\ job'[r].status = "DRY_RUN_SUCCESS" =>
         /\ ~job[r].real
         /\ \E i \in ended'[r] \ ended[r] :
              \/ i \in changed
              \/ /\ r.listing = listing /\ listing.readiness = "APPROVED"
                 /\ content = "APPROVED" /\ images /\ price # NoPrice]_vars

\* A job gets one outcome and one attempt; a second outcome (a cancellation over a
\* success, a job processed again) comes only from a request that was handled at the
\* same time as the first: the row lock does not refresh what was read before it.
OneOutcome ==
  \A r \in Intents :
    /\ job[r].attempts <= Cardinality(ended[r])
    /\ \A i, k \in ended[r] : i # k => k \in met[i]

\* The alert of a job that was not ready is open iff the job stands blocked for it,
\* as long as the job has one outcome (operators who resolve alerts aside).
AlertsMatch ==
  \A r \in Intents :
    Cardinality(ended[r]) <= 1 =>
      (r \in alerts <=> job[r].status = "BLOCKED" /\ job[r].code = "LISTING_NOT_READY")

\* A listing approved in readiness has an approved draft or one that was rejected
\* since, never one of superseded facts, unless an approval and a rebuild of the facts were
\* handled at the same time (approve_listing and approve_content_draft read what
\* supersede_stale_content overwrites).
ApprovalsCurrent ==
  ~facts =>
    \/ listing.readiness # "APPROVED" /\ content # "APPROVED"
    \/ \E i, k \in CallIds : /\ call[i].op \in {"approve", "content"}
                             /\ call[k].op = "facts"
                             /\ k \in met[i]

\* The binding says DRY_RUN_OK only if a job of its listing has succeeded, unless a
\* job got two outcomes.
BindingTrue ==
  binding.sync = "DRY_RUN_OK" =>
    \E r \in Intents : job[r].status = "DRY_RUN_SUCCESS" \/ Cardinality(ended[r]) > 1

=============================================================================
