-------------------------- MODULE PublicationProofs --------------------------
(***************************************************************************)
(* Theorems about Publication, for every set of prices and any number of   *)
(* requests.                                                               *)
(***************************************************************************)
EXTENDS Publication, FiniteSetTheorems, TLAPS

(***************************************************************************)
(* The inductive invariant.                                                *)
(***************************************************************************)

Fresh == \A i \in CallIds : i > sent => call[i] = NoCall

\* A request that has given an outcome is over.
Over == \A r \in Intents : \A i \in ended[r] : call[i].at = "answered"

\* Requests that are handled now have met.
Met == \A i, k \in Handling : i # k => k \in met[i]

\* A job has an outcome iff its status is terminal.
Decided ==
  \A r \in Intents : (job[r].status \in Terminal) <=> (ended[r] # {})

\* A request that is about to give an outcome has met whoever gave one already.
Deciding(i) ==
  \/ call[i].at = "cancel"
  \/ call[i].at = "process" /\ call[i].status \notin Terminal

Raced ==
  \A k \in CallIds : Deciding(k) =>
    \A i \in ended[call[k].job] : i \in met[k] /\ k \in met[i]

Alarmed == \A r \in alerts : ended[r] # {}

\* What a preparing request has read is what is there, unless it was told so.
Preparing(i) == call[i].at \in {"create", "refresh", "process"}

Asked(i) == call[i].at = "context" /\ call[i].op \in {"intent", "dryrun"}

Reads ==
  \A i \in CallIds :
    /\ Asked(i) \/ Preparing(i) =>
         /\ call[i].job.listing = call[i].listing
         /\ i \notin changed => call[i].listing = listing
    /\ Preparing(i) /\ i \notin changed =>
         /\ call[i].content = content
         /\ call[i].images = images
         /\ call[i].price = price

\* The job a request goes on with is there, and for real or not as it was read.
Mine ==
  \A i \in CallIds : call[i].at \in {"refresh", "process"} =>
    /\ job[call[i].job].status # "NONE"
    /\ job[call[i].job].real = call[i].real

\* An approval and a rebuild of the facts have met.
Crossed ==
  \E i, k \in CallIds :
    /\ call[i].op \in {"approve", "content"}
    /\ call[k].op = "facts"
    /\ k \in met[i]

\* An approval that is about to be committed over newer facts has met their rebuild,
Approving ==
  \A i \in CallIds :
    call[i].at = "commit" /\ call[i].op \in {"approve", "content"} /\ ~facts => Crossed

\* and a rebuild that has not seen an approval has met it.
Rebuilding ==
  \A i \in CallIds : call[i].at = "commit" /\ call[i].op = "facts" =>
    /\ content = "APPROVED" /\ call[i].content # "APPROVED" => Crossed
    /\ listing.readiness = "APPROVED" /\ call[i].listing.readiness = "STALE" => Crossed

Current == ~facts => (listing.readiness # "APPROVED" /\ content # "APPROVED") \/ Crossed

Outcomes == Decided /\ Raced /\ Alarmed /\ OneOutcome /\ AlertsMatch /\ BindingTrue
Sessions == Fresh /\ Over /\ Met
Prepared == Reads /\ Mine
Approved == Approving /\ Rebuilding /\ Current

IInv == TypeOK /\ Sessions /\ Outcomes /\ Prepared /\ Approved

(***************************************************************************)
(* Types.                                                                  *)
(***************************************************************************)

LEMMA NoCallTyped == NoCall \in CallState /\ Built("READY") \in Row
<1>1. Built("READY") \in Row
  BY DEF Built, Row, Readiness
<1>2. AnyIntent \in Intents
  BY <1>1, PublicationAssumption DEF AnyIntent, Intents
<1> QED
  BY <1>1, <1>2, PublicationAssumption DEF NoCall, CallState, Ops, Draft, Sync, Status

\* What the ORM writes to a listing is a row, and brings no approval but its own.
LEMMA RewrittenRow ==
  ASSUME NEW read \in Row, NEW to \in Readiness, listing \in Row
  PROVE  /\ Rewritten(read, to) \in Row
         /\ Rewritten(read, to).readiness \in {to, listing.readiness}
         /\ read.readiness # to => Rewritten(read, to).readiness = to
  BY DEF Rewritten, Written, Row

LEMMA AnswerTypes ==
  ASSUME TypeOK, NEW i \in CallIds, Answer(i)
  PROVE  call' \in [CallIds -> CallState]
<1>1. [NoCall EXCEPT !.op = call[i].op, !.at = "answered"] \in CallState
  BY NoCallTyped DEF TypeOK, CallState
<1> QED
  BY <1>1 DEF Answer, TypeOK

\* What is known of a request when it has made its first read.
Opened(c) ==
  /\ c \in CallState
  /\ c.at \in {"context", "cancel", "rebuild", "commit", "answered"}
  /\ c.at = "context" /\ c.op \in {"intent", "dryrun"} =>
       c.job.listing = listing /\ c.listing = listing
  /\ c.at = "cancel" => job[c.job].status = "PENDING"
  /\ c.at = "commit" =>
       \/ c.op = "facts" /\ c.content = content /\ c.listing = listing
       \/ c.op = "content" /\ facts

LEMMA Opening ==
  ASSUME TypeOK, Ask
  PROVE  Edit \/ \E c : Opened(c) /\ Begin(c)
<1> USE NoCallTyped
<1>1. ASSUME NEW op \in {"intent", "dryrun"}, NEW real \in BOOLEAN, NEW type \in Types,
             AskIntent(op, real, type)
      PROVE  \E c : Opened(c) /\ Begin(c)
  <2> DEFINE r == [listing |-> listing, type |-> type]
             c == [NoCall EXCEPT !.op = op, !.real = real, !.at = "context",
                                 !.listing = listing, !.job = r]
  <2>2. r \in Intents /\ r.listing = listing
    BY DEF TypeOK, Intents
  <2> HIDE DEF r
  <2>1. Opened(c)
    BY <2>2 DEF TypeOK, CallState, Ops, Opened
  <2> USE DEF r
  <2> QED
    BY <1>1, <2>1 DEF AskIntent
<1>2. ASSUME NEW r \in Intents, AskCancel(r)
      PROVE  \E c : Opened(c) /\ Begin(c)
  <2> DEFINE c == [NoCall EXCEPT !.op = "cancel", !.job = r, !.status = job[r].status,
                     !.at = IF job[r].status = "PENDING" THEN "cancel" ELSE "answered"]
  <2>1. Opened(c)
    BY DEF TypeOK, CallState, JobState, Ops, Opened
  <2> QED
    BY <1>2, <2>1 DEF AskCancel
<1>3. ASSUME NEW op \in {"validate", "approve"}, AskValidate(op)
      PROVE  \E c : Opened(c) /\ Begin(c)
  <2> DEFINE c == [NoCall EXCEPT !.op = op, !.at = "rebuild", !.listing = listing]
  <2>1. Opened(c)
    BY DEF TypeOK, CallState, Ops, Opened
  <2> QED
    BY <1>3, <2>1 DEF AskValidate
<1>4. CASE AskReconcile
  <2> DEFINE c == [NoCall EXCEPT !.op = "reconcile", !.at = "context", !.listing = listing]
  <2>1. Opened(c)
    BY DEF TypeOK, CallState, Ops, Opened
  <2> QED
    BY <1>4, <2>1 DEF AskReconcile
<1>5. CASE AskFacts
  <2> DEFINE c == [NoCall EXCEPT !.op = "facts", !.at = "commit", !.content = content,
                                 !.listing = listing]
  <2>1. Opened(c)
    BY DEF TypeOK, CallState, Ops, Opened
  <2> QED
    BY <1>5, <2>1 DEF AskFacts
<1>6. CASE AskContent
  <2> DEFINE c == [NoCall EXCEPT !.op = "content", !.content = content,
                                 !.at = IF facts THEN "commit" ELSE "answered"]
  <2>1. Opened(c)
    BY DEF TypeOK, CallState, Ops, Opened
  <2> QED
    BY <1>6, <2>1 DEF AskContent
<1> QED
  BY <1>1, <1>2, <1>3, <1>4, <1>5, <1>6 DEF Ask

LEMMA AskTypes ==
  ASSUME TypeOK, Ask
  PROVE  TypeOK'
<1>1. ASSUME NEW c \in CallState, Begin(c)
      PROVE  TypeOK'
  BY <1>1, PublicationAssumption DEF TypeOK, Begin, CallIds, Handling, source, orders
<1>2. CASE Edit
  <2>1. [NoCall EXCEPT !.at = "answered"] \in CallState
    BY NoCallTyped DEF CallState
  <2>2. content' \in Draft /\ images' \in BOOLEAN /\ price' \in Prices \cup {NoPrice}
    BY <1>2 DEF Edit, Reject, TypeOK, Draft
  <2>5. listing' \in Row
    <3>1. [listing EXCEPT !.status = "REJECTED"] \in Row
      BY DEF TypeOK, Row
    <3> QED
      BY <1>2, <3>1 DEF Edit, Reject, TypeOK
  <2>3. call' \in [CallIds -> CallState] /\ sent' \in 0..MaxRequests
    BY <1>2, <2>1, PublicationAssumption DEF Edit, TypeOK, CallIds
  <2>4. changed' \subseteq CallIds
    BY <1>2 DEF Edit, Touch, Handling, TypeOK
  <2> QED
    BY <1>2, <2>2, <2>3, <2>4, <2>5 DEF Edit, TypeOK, orders
<1> QED
  BY <1>1, <1>2, Opening DEF Opened

LEMMA OutcomeTypes ==
  ASSUME NEW c \in CallState
  PROVE  /\ Outcome(c).status \in Terminal
         /\ Outcome(c).status \in {"BLOCKED", "DRY_RUN_SUCCESS"}
         /\ Outcome(c).code \in {"NONE", "LISTING_NOT_READY", "AVITO_CONTRACT_INCOMPLETE"}
         /\ Outcome(c).sync \in Sync
         /\ Outcome(c).code = "LISTING_NOT_READY" => Outcome(c).status = "BLOCKED"
         /\ Outcome(c).status = "BLOCKED" => Outcome(c).sync \in {"STALE", "BLOCKED_EXTERNAL"}
         /\ Outcome(c).status = "DRY_RUN_SUCCESS" => Ready(c) /\ ~c.real
  BY DEF Outcome, Terminal, Sync

LEMMA HandleTypes ==
  ASSUME TypeOK, NEW i \in CallIds, Handle(i) \/ Die(i)
  PROVE  TypeOK'
<1> DEFINE c == call[i]
<1>1. c \in CallState
  BY DEF TypeOK
<1>a. job[c.job] \in JobState
  BY <1>1 DEF TypeOK, CallState
<1>b. binding.sync \in Sync /\ binding.prepared \in BOOLEAN
  BY DEF TypeOK
<1>2. Answer(i) => call' \in [CallIds -> CallState]
  BY AnswerTypes
<1>3. CASE Find(i)
  <2> DEFINE d ==
        [c EXCEPT !.at = IF job[c.job].status = "NONE" THEN "create" ELSE "process",
                  !.content = content, !.images = images, !.price = price,
                  !.sync = binding.sync, !.status = job[c.job].status,
                  !.count = job[c.job].count,
                  !.real = IF job[c.job].status = "NONE" THEN c.real ELSE job[c.job].real]
  <2>1. d \in CallState
    BY <1>1, <1>a, <1>b DEF TypeOK, CallState, JobState
  <2>2. Answer(i) \/ call' = [call EXCEPT ![i] = d]
    BY <1>3 DEF Find
  <2> HIDE DEF d
  <2>3. call' \in [CallIds -> CallState]
    BY <1>2, <2>1, <2>2 DEF TypeOK
  <2> QED
    BY <1>3, <2>3 DEF Find, TypeOK, source, orders, history
<1>4. CASE Create(i)
  <2>0. [job[c.job] EXCEPT !.status = "PENDING", !.real = c.real] \in JobState
    BY <1>1, <1>a DEF CallState, JobState, Status
  <2>1. job' \in [Intents -> JobState]
    BY <1>4, <2>0 DEF Create, TypeOK, orders
  <2>2. binding' \in [sync : Sync, prepared : BOOLEAN]
    BY <1>4 DEF Create, TypeOK, Written, Sync, orders
  <2>4. [c EXCEPT !.at = "refresh", !.sync = "INTENT_PENDING"] \in CallState
    BY <1>1 DEF CallState, Sync
  <2>3. call' \in [CallIds -> CallState]
    BY <1>2, <1>4, <2>4 DEF Create, TypeOK
  <2> QED
    BY <1>4, <2>1, <2>2, <2>3 DEF Create, TypeOK, source, orders, history
<1>5. CASE Refresh(i)
  <2>2. [c EXCEPT !.at = "process", !.status = job[c.job].status, !.count = job[c.job].count]
          \in CallState
    BY <1>1, <1>a DEF CallState, JobState
  <2>1. call' \in [CallIds -> CallState]
    BY <1>5, <2>2 DEF Refresh, TypeOK
  <2> QED
    BY <1>5, <2>1 DEF Refresh, TypeOK, source, orders, history
<1>6. CASE Process(i)
  <2>1. CASE c.status \in Terminal
    BY <1>2, <1>6, <2>1 DEF Process, TypeOK, source, orders
  <2>2. CASE c.status \notin Terminal
    <3>1. job[c.job] \in JobState /\ c.count + 1 \in Nat
      BY <1>1 DEF TypeOK, CallState
    <3>2. [status |-> Outcome(c).status, code |-> Outcome(c).code, real |-> job[c.job].real,
           count |-> c.count + 1, attempts |-> job[c.job].attempts + 1] \in JobState
      BY <1>1, <3>1, OutcomeTypes DEF JobState, Status
    <3>3. job' \in [Intents -> JobState]
      BY <1>6, <2>2, <3>2 DEF Process, TypeOK
    <3>4. binding' \in [sync : Sync, prepared : BOOLEAN]
      <4>1. Written(c.sync, Outcome(c).sync, binding.sync) \in Sync
        BY <1>1, OutcomeTypes DEF TypeOK, Written
      <4>2. (binding.prepared \/ Outcome(c).status = "DRY_RUN_SUCCESS") \in BOOLEAN
        BY DEF TypeOK
      <4>3. binding' = [sync |-> Written(c.sync, Outcome(c).sync, binding.sync),
                        prepared |-> binding.prepared \/ Outcome(c).status = "DRY_RUN_SUCCESS"]
        BY <1>6, <2>2 DEF Process
      <4> QED
        BY <4>1, <4>2, <4>3
    <3>5. alerts' \subseteq Intents /\ ended' \in [Intents -> SUBSET CallIds]
      BY <1>1, <1>6, <2>2 DEF Process, TypeOK, CallState
    <3> QED
      BY <1>2, <1>6, <2>2, <3>3, <3>4, <3>5 DEF Process, TypeOK, source
  <2> QED
    BY <2>1, <2>2
<1>7. CASE Cancel(i)
  <2>1. [job[c.job] EXCEPT !.status = "CANCELLED", !.code = "JOB_CANCELLED"] \in JobState
    BY <1>a DEF JobState, Status, Terminal
  <2>2. job' \in [Intents -> JobState]
    BY <1>7, <2>1 DEF Cancel, TypeOK
  <2>3. ended' \in [Intents -> SUBSET CallIds]
    BY <1>7 DEF Cancel, TypeOK
  <2> QED
    BY <1>2, <1>7, <2>2, <2>3 DEF Cancel, TypeOK, source
<1>8. CASE Read(i)
  <2>1. call' \in [CallIds -> CallState]
    BY <1>1, <1>8 DEF Read, TypeOK, CallState
  <2> QED
    BY <1>8, <2>1 DEF Read, TypeOK, source, orders, history
<1>9. CASE Reconcile(i)
  <2>1. binding' \in [sync : Sync, prepared : BOOLEAN]
    BY <1>9 DEF Reconcile, TypeOK, Written, Sync
  <2> QED
    BY <1>2, <1>9, <2>1 DEF Reconcile, TypeOK, source, history
<1>10. CASE Rebuild(i)
  <2>2. ASSUME NEW at \in {"stale", "commit"}
        PROVE  [c EXCEPT !.at = at] \in CallState
    BY <1>1 DEF CallState
  <2>3. \/ Answer(i)
        \/ \E at \in {"stale", "commit"} : call' = [call EXCEPT ![i] = [c EXCEPT !.at = at]]
    BY <1>10 DEF Rebuild, Goto
  <2>1. call' \in [CallIds -> CallState]
    BY <1>2, <2>2, <2>3 DEF TypeOK
  <2> QED
    BY <1>10, <2>1 DEF Rebuild, TypeOK, source, orders, history
<1>11. CASE Stale(i) \/ Approve(i) \/ Supersede(i) \/ ApproveContent(i)
  <2>2. /\ Rewritten(c.listing, "STALE") \in Row
        /\ Rewritten(c.listing, "APPROVED") \in Row
    BY <1>1, RewrittenRow DEF TypeOK, CallState, Readiness
  <2>1. /\ listing' \in Row
        /\ content' \in Draft
        /\ facts' \in BOOLEAN
        /\ changed' \subseteq CallIds
    BY <1>11, <2>2 DEF Stale, Approve, Supersede, ApproveContent, Touch, Handling, Written,
                 TypeOK, Draft
  <2> QED
    BY <1>2, <1>11, <2>1
    DEF Stale, Approve, Supersede, ApproveContent, TypeOK, orders
<1>12. CASE Die(i)
  BY <1>2, <1>12 DEF Die, TypeOK, source, orders, history
<1> QED
  BY <1>3, <1>4, <1>5, <1>6, <1>7, <1>8, <1>9, <1>10, <1>11, <1>12 DEF Handle

LEMMA InitTypes == Init => TypeOK
<1>1. NoJob \in JobState
  BY DEF NoJob, JobState, Status
<1> QED
  BY <1>1, NoCallTyped, PublicationAssumption
  DEF Init, TypeOK, Built, Row, Readiness, Draft, Sync

LEMMA TypesKept == TypeOK /\ [Next]_vars => TypeOK'
<1> SUFFICES ASSUME TypeOK, [Next]_vars PROVE TypeOK'
  OBVIOUS
<1>1. CASE UNCHANGED vars
  BY <1>1 DEF TypeOK, vars, source, orders, history
<1> QED
  BY <1>1, AskTypes, HandleTypes DEF Next

\* Every variable of the publication model has its type (TypeOK), whatever requests
\* are handled together.
THEOREM PublicationTypes == Spec => []TypeOK
BY InitTypes, TypesKept, PTL DEF Spec

(***************************************************************************)
(* Sessions: who is handled at the same time as whom.                      *)
(***************************************************************************)

\* A step of a handler changes its own request only, and meets nobody new.
Own(i) ==
  /\ i \in Handling
  /\ \A k \in CallIds \ {i} : call'[k] = call[k]
  /\ call'[i].op = call[i].op
  /\ call'[i].at # "none"
  /\ sent' = sent
  /\ met' = met

LEMMA Handled ==
  ASSUME TypeOK, NEW i \in CallIds, Handle(i) \/ Die(i)
  PROVE  Own(i)
<1>1. Answer(i) => /\ \A k \in CallIds \ {i} : call'[k] = call[k]
                   /\ call'[i].op = call[i].op
                   /\ call'[i].at = "answered"
  BY DEF Answer, NoCall, TypeOK, CallState
<1>9. call[i] \in CallState /\ i \in Handling
  BY DEF TypeOK, Handling, Handle, Die, Find, Create, Refresh, Process, Cancel, Read,
         Reconcile, Rebuild, Stale, Approve, Supersede, ApproveContent
<1>10. ASSUME NEW d, call' = [call EXCEPT ![i] = d], d.op = call[i].op, d.at # "none",
              sent' = sent, met' = met
       PROVE  Own(i)
  BY <1>9, <1>10 DEF Own, TypeOK
<1>2. CASE Find(i)
  <2> DEFINE d == [call[i] EXCEPT
        !.at = IF job[call[i].job].status = "NONE" THEN "create" ELSE "process",
        !.content = content, !.images = images, !.price = price, !.sync = binding.sync,
        !.status = job[call[i].job].status, !.count = job[call[i].job].count,
        !.real = IF job[call[i].job].status = "NONE" THEN call[i].real
                 ELSE job[call[i].job].real]
  <2>1. d.op = call[i].op /\ d.at # "none"
    BY <1>9 DEF CallState
  <2>2. Answer(i) \/ call' = [call EXCEPT ![i] = d]
    BY <1>2 DEF Find
  <2>3. sent' = sent /\ met' = met
    BY <1>2 DEF Find, history
  <2> HIDE DEF d
  <2> QED
    BY <1>1, <1>9, <1>10, <2>1, <2>2, <2>3 DEF Own
<1>6. CASE Create(i)
  <2> DEFINE d == [call[i] EXCEPT !.at = "refresh", !.sync = "INTENT_PENDING"]
  <2>1. d.op = call[i].op /\ d.at # "none"
    BY <1>9 DEF CallState
  <2>2. Answer(i) \/ call' = [call EXCEPT ![i] = d]
    BY <1>6 DEF Create
  <2> QED
    BY <1>1, <1>6, <1>9, <1>10, <2>1, <2>2 DEF Own, Create, history
<1>7. CASE Refresh(i)
  <2> DEFINE d == [call[i] EXCEPT !.at = "process", !.status = job[call[i].job].status,
                                  !.count = job[call[i].job].count]
  <2>1. d.op = call[i].op /\ d.at # "none"
    BY <1>9 DEF CallState
  <2> QED
    BY <1>7, <1>10, <2>1 DEF Refresh, history
<1>11. CASE Read(i)
  <2> DEFINE d == [call[i] EXCEPT !.at = "commit", !.price = price, !.sync = binding.sync,
                                  !.prepared = binding.prepared]
  <2>1. d.op = call[i].op /\ d.at # "none"
    BY <1>9 DEF CallState
  <2> QED
    BY <1>11, <1>10, <2>1 DEF Read, history
<1>8. CASE Rebuild(i)
  BY <1>1, <1>8 DEF Rebuild, Goto, Own, Handling, history, TypeOK, CallState
<1>3. CASE Process(i) \/ Cancel(i) \/ Reconcile(i)
  BY <1>1, <1>3 DEF Process, Cancel, Reconcile, Own, Handling, history
<1>4. CASE Stale(i) \/ Approve(i) \/ Supersede(i) \/ ApproveContent(i)
  BY <1>1, <1>4 DEF Stale, Approve, Supersede, ApproveContent, Own, Handling
<1>5. CASE Die(i)
  BY <1>1, <1>5 DEF Die, Own, Handling, history
<1> QED
  BY <1>2, <1>3, <1>4, <1>5, <1>6, <1>7, <1>8, <1>11 DEF Handle

\* Outcomes are given by Process and Cancel only.
LEMMA EndedBy ==
  ASSUME TypeOK, NEW i \in CallIds, Handle(i) \/ Die(i)
  PROVE  \/ ended' = ended
         \/ /\ call'[i].at = "answered"
            /\ ended' = [ended EXCEPT ![call[i].job] = @ \cup {i}]
<1>1. Answer(i) => call'[i].at = "answered"
  BY DEF Answer, NoCall, TypeOK, CallState
<1> QED
  BY <1>1 DEF Handle, Die, Find, Create, Refresh, Read, Rebuild, Process, Cancel, Reconcile,
              Stale, Approve, Supersede, ApproveContent, history

LEMMA SessionsKept ==
  ASSUME TypeOK, Sessions, Next
  PROVE  Sessions'
<1> USE PublicationAssumption
<1>0. NoCall.at = "none"
  BY DEF NoCall
<1>1. ASSUME NEW c, Opened(c), Begin(c)
      PROVE  Sessions'
  <2>1. /\ sent + 1 \in CallIds
        /\ call[sent + 1].at = "none"
        /\ \A k \in CallIds : k # sent + 1 => call'[k] = call[k]
    BY <1>0, <1>1 DEF Begin, Sessions, Fresh, TypeOK, CallIds
  <2>2. Fresh'
    BY <1>1, <2>1 DEF Begin, Sessions, Fresh, TypeOK, CallIds
  <2>3. Over'
    BY <1>1, <2>1 DEF Begin, Sessions, Over, TypeOK
  <2>4. Handling' \subseteq Handling \cup {sent + 1}
    BY <2>1 DEF Handling
  <2>5. Met'
    BY <1>1, <2>1, <2>4 DEF Begin, Sessions, Met, Handling, TypeOK
  <2> QED
    BY <2>2, <2>3, <2>5 DEF Sessions
<1>2. CASE Edit
  <2>1. /\ sent + 1 \in CallIds
        /\ call[sent + 1].at = "none"
        /\ call'[sent + 1].at = "answered"
        /\ \A k \in CallIds : k # sent + 1 => call'[k] = call[k]
    BY <1>0, <1>2 DEF Edit, Sessions, Fresh, TypeOK, CallIds, NoCall
  <2>2. Fresh'
    BY <1>2, <2>1 DEF Edit, Sessions, Fresh, TypeOK, CallIds
  <2>3. Over'
    BY <1>2, <2>1 DEF Edit, Sessions, Over, TypeOK
  <2>4. Met'
    BY <1>2, <2>1 DEF Edit, Sessions, Met, Handling
  <2> QED
    BY <2>2, <2>3, <2>4 DEF Sessions
<1>3. ASSUME NEW i \in CallIds, Handle(i) \/ Die(i)
      PROVE  Sessions'
  <2>1. Own(i)
    BY <1>3, Handled
  <2>2. Fresh'
    BY <1>0, <2>1 DEF Own, Sessions, Fresh, Handling, TypeOK
  <2>3. Over'
    BY <1>3, <2>1, EndedBy DEF Own, Sessions, Over, Handling, TypeOK
  <2>4. Handling' \subseteq Handling
    BY <2>1 DEF Own, Handling
  <2>5. Met'
    BY <2>1, <2>4 DEF Own, Sessions, Met
  <2> QED
    BY <2>2, <2>3, <2>5 DEF Sessions
<1> QED
  BY <1>1, <1>2, <1>3, Opening DEF Next

(***************************************************************************)
(* Outcomes.                                                               *)
(***************************************************************************)

\* A request that starts to decide has read a job without an outcome.
LEMMA FirstReads ==
  ASSUME TypeOK, Decided, NEW i \in CallIds, Handle(i) \/ Die(i), ended' = ended,
         Deciding(i)'
  PROVE  ended[call'[i].job] = {}
<1>1. call[i] \in CallState
  BY DEF TypeOK
<1>2. Answer(i) => call'[i].at = "answered"
  BY DEF Answer, NoCall, TypeOK, CallState
<1>3. CASE Find(i)
  <2> DEFINE d == [call[i] EXCEPT
        !.at = IF job[call[i].job].status = "NONE" THEN "create" ELSE "process",
        !.content = content, !.images = images, !.price = price, !.sync = binding.sync,
        !.status = job[call[i].job].status, !.count = job[call[i].job].count,
        !.real = IF job[call[i].job].status = "NONE" THEN call[i].real
                 ELSE job[call[i].job].real]
  <2>1. /\ d.at \in {"create", "process"}
        /\ d.job = call[i].job
        /\ d.status = job[call[i].job].status
    BY <1>1 DEF CallState
  <2>2. Answer(i) \/ call' = [call EXCEPT ![i] = d]
    BY <1>3 DEF Find
  <2> HIDE DEF d
  <2> QED
    BY <1>1, <1>2, <2>1, <2>2 DEF Deciding, Decided, TypeOK, CallState
<1>4. CASE Create(i)
  <2> DEFINE d == [call[i] EXCEPT !.at = "refresh", !.sync = "INTENT_PENDING"]
  <2>1. d.at = "refresh"
    BY <1>1 DEF CallState
  <2>2. Answer(i) \/ call' = [call EXCEPT ![i] = d]
    BY <1>4 DEF Create
  <2> QED
    BY <1>2, <2>1, <2>2 DEF Deciding, TypeOK
<1>5. CASE Refresh(i)
  <2> DEFINE d == [call[i] EXCEPT !.at = "process", !.status = job[call[i].job].status,
                                  !.count = job[call[i].job].count]
  <2>1. d.at = "process" /\ d.job = call[i].job /\ d.status = job[call[i].job].status
    BY <1>1 DEF CallState
  <2>2. call' = [call EXCEPT ![i] = d]
    BY <1>5 DEF Refresh
  <2> HIDE DEF d
  <2> QED
    BY <1>1, <2>1, <2>2 DEF Deciding, Decided, TypeOK, CallState
<1>6. CASE Read(i)
  <2> DEFINE d == [call[i] EXCEPT !.at = "commit", !.price = price, !.sync = binding.sync,
                                  !.prepared = binding.prepared]
  <2>1. d.at = "commit"
    BY <1>1 DEF CallState
  <2> QED
    BY <1>6, <2>1 DEF Read, Deciding, TypeOK
<1>7. CASE Rebuild(i)
  BY <1>1, <1>2, <1>7 DEF Rebuild, Goto, Deciding, TypeOK, CallState
<1>8. CASE \/ Process(i) \/ Cancel(i) \/ Reconcile(i) \/ Stale(i) \/ Approve(i)
           \/ Supersede(i) \/ ApproveContent(i) \/ Die(i)
  BY <1>2, <1>8 DEF Process, Cancel, Reconcile, Stale, Approve, Supersede, ApproveContent,
                    Die, Deciding
<1> QED
  BY <1>3, <1>4, <1>5, <1>6, <1>7, <1>8 DEF Handle

\* Nothing is lost when a request arrives.
LEMMA OutcomesKeptByAsk ==
  ASSUME TypeOK, Sessions, Outcomes, Ask
  PROVE  Outcomes'
<1> USE PublicationAssumption
<1>0. NoCall.at = "none"
  BY DEF NoCall
<1>1. orders' = orders /\ ended' = ended
  BY DEF Ask, AskIntent, AskCancel, AskValidate, AskReconcile, AskFacts, AskContent, Edit, Begin
<1>2. sent + 1 \in CallIds
  <2>1. sent < MaxRequests
    BY Opening DEF Edit, Begin
  <2> QED
    BY <2>1 DEF TypeOK, CallIds
<1>3. PICK n \in CallIds : n = sent + 1
  BY <1>2
<1>7. \A r \in Intents : n \notin ended[r]
  BY <1>0, <1>3 DEF Sessions, Fresh, Over, TypeOK, CallIds
<1>8. \A k \in CallIds : k # n => call'[k] = call[k] /\ met[k] \subseteq met'[k]
  <2>1. ASSUME NEW c, Begin(c)
        PROVE  \A k \in CallIds : k # n => call'[k] = call[k] /\ met[k] \subseteq met'[k]
    BY <1>3, <2>1 DEF Begin, TypeOK
  <2>2. CASE Edit
    BY <1>3, <2>2 DEF Edit, TypeOK
  <2> QED
    BY <2>1, <2>2, Opening
<1>9. Deciding(n)' => ended[call'[n].job] = {}
  <2>1. CASE Edit
    <3>1. call'[n].at = "answered"
      BY <1>3, <2>1 DEF Edit, NoCall, TypeOK
    <3> QED
      BY <3>1 DEF Deciding
  <2>2. ASSUME NEW c, Opened(c), Begin(c)
        PROVE  Deciding(n)' => ended[call'[n].job] = {}
    <3>1. call'[n] = c
      BY <1>3, <2>2 DEF Begin, TypeOK
    <3> QED
      BY <2>2, <3>1 DEF Opened, Deciding, Outcomes, Decided, Terminal, CallState
  <2> QED
    BY <2>1, <2>2, Opening
<1>4. Decided' /\ Alarmed' /\ AlertsMatch' /\ BindingTrue'
  BY <1>1 DEF Outcomes, Decided, Alarmed, AlertsMatch, BindingTrue, orders
<1>5. Raced'
  <2> SUFFICES ASSUME NEW k \in CallIds, Deciding(k)',
                      NEW i \in ended[call'[k].job]
               PROVE  i \in met'[k] /\ k \in met'[i]
    BY <1>1 DEF Raced
  <2>1. k # n
    BY <1>9
  <2>2. Deciding(k) /\ call'[k].job = call[k].job
    BY <1>8, <2>1 DEF Deciding
  <2>3. call[k].job \in Intents
    BY DEF TypeOK, CallState
  <2>4. i \in CallIds /\ i # n
    BY <1>7, <2>2, <2>3 DEF TypeOK
  <2>5. i \in met[k] /\ k \in met[i]
    BY <2>2, <2>3 DEF Outcomes, Raced
  <2> QED
    BY <1>8, <2>1, <2>4, <2>5
<1>6. OneOutcome'
  BY <1>1, <1>7, <1>8 DEF Outcomes, OneOutcome, orders, TypeOK
<1> QED
  BY <1>4, <1>5, <1>6 DEF Outcomes

\* A step that gives no outcome: at most it inserts a job.
Undecided(i) ==
  /\ ended' = ended
  /\ alerts' = alerts
  /\ binding'.sync \in {binding.sync} \cup (Sync \ {"DRY_RUN_OK"})
  /\ \A r \in Intents :
       \/ job'[r] = job[r]
       \/ /\ job[r].status = "NONE"
          /\ job'[r].status = "PENDING"
          /\ job'[r].attempts = job[r].attempts

\* A step that gives one.
Decides(i, r) ==
  /\ Deciding(i)
  /\ r = call[i].job
  /\ call'[i].at = "answered"
  /\ ended' = [ended EXCEPT ![r] = @ \cup {i}]
  /\ \A q \in Intents \ {r} : job'[q] = job[q]
  /\ job'[r].status \in Terminal
  /\ job'[r].attempts \in {job[r].attempts, job[r].attempts + 1}
  /\ alerts' = IF job'[r].status = "BLOCKED" /\ job'[r].code = "LISTING_NOT_READY"
               THEN alerts \cup {r} ELSE alerts
  /\ \/ binding'.sync \in {binding.sync} \cup (Sync \ {"DRY_RUN_OK"})
     \/ job'[r].status = "DRY_RUN_SUCCESS"

LEMMA StepDecides ==
  ASSUME TypeOK, NEW i \in CallIds, Handle(i) \/ Die(i)
  PROVE  Undecided(i) \/ \E r \in Intents : Decides(i, r)
<1>1. call[i] \in CallState /\ call[i].job \in Intents
  BY DEF TypeOK, CallState
<1>2. job[call[i].job] \in JobState
  BY <1>1 DEF TypeOK
<1>3. Answer(i) => call'[i].at = "answered"
  BY DEF Answer, NoCall, TypeOK, CallState
<1>4. \A x, y \in Sync : Written(x, y, binding.sync) \in {binding.sync, y}
  BY DEF Written
<1>5. CASE Create(i)
  <2> DEFINE j == [job[call[i].job] EXCEPT !.status = "PENDING", !.real = call[i].real]
  <2>1. j.status = "PENDING" /\ j.attempts = job[call[i].job].attempts
    BY <1>2 DEF JobState
  <2>2. \/ orders' = orders
        \/ /\ job[call[i].job].status = "NONE"
           /\ job' = [job EXCEPT ![call[i].job] = j]
           /\ binding'.sync \in {binding.sync, "INTENT_PENDING"}
           /\ alerts' = alerts
    BY <1>5 DEF Create, Written, TypeOK
  <2>3. ended' = ended
    BY <1>5 DEF Create, history
  <2> HIDE DEF j
  <2> QED
    BY <1>1, <2>1, <2>2, <2>3 DEF Undecided, orders, TypeOK, Sync
<1>6. CASE Process(i)
  <2> DEFINE out == Outcome(call[i])
             j == [status |-> out.status, code |-> out.code, real |-> job[call[i].job].real,
                   count |-> call[i].count + 1, attempts |-> job[call[i].job].attempts + 1]
  <2>1. CASE call[i].status \in Terminal
    BY <1>6, <2>1 DEF Process, Undecided, orders, TypeOK
  <2>2. CASE call[i].status \notin Terminal
    <3>1. /\ job' = [job EXCEPT ![call[i].job] = j]
          /\ binding'.sync = Written(call[i].sync, out.sync, binding.sync)
          /\ alerts' = IF out.code = "LISTING_NOT_READY" THEN alerts \cup {call[i].job}
                       ELSE alerts
          /\ ended' = [ended EXCEPT ![call[i].job] = @ \cup {i}]
          /\ call[i].at = "process"
          /\ call'[i].at = "answered"
      BY <1>3, <1>6, <2>2 DEF Process
    <3>2. /\ out.status \in Terminal
          /\ out.code = "LISTING_NOT_READY" => out.status = "BLOCKED"
          /\ out.status = "DRY_RUN_SUCCESS" \/ out.sync \in Sync \ {"DRY_RUN_OK"}
      BY <1>1, OutcomeTypes DEF Sync
    <3>3. binding'.sync \in {binding.sync, out.sync}
      BY <3>1 DEF Written
    <3>4. job'[call[i].job] = j /\ \A q \in Intents \ {call[i].job} : job'[q] = job[q]
      BY <1>1, <3>1 DEF TypeOK
    <3>5. /\ j.status = out.status
          /\ j.code = out.code
          /\ j.attempts = job[call[i].job].attempts + 1
      OBVIOUS
    <3> HIDE DEF out, j
    <3> QED
      BY <1>1, <2>2, <3>1, <3>2, <3>3, <3>4, <3>5 DEF Decides, Deciding
  <2> QED
    BY <2>1, <2>2
<1>7. CASE Cancel(i)
  <2> DEFINE j == [job[call[i].job] EXCEPT !.status = "CANCELLED", !.code = "JOB_CANCELLED"]
  <2>1. j.status = "CANCELLED" /\ j.attempts = job[call[i].job].attempts
    BY <1>2 DEF JobState
  <2>2. /\ job' = [job EXCEPT ![call[i].job] = j]
        /\ UNCHANGED <<binding, alerts>>
        /\ ended' = [ended EXCEPT ![call[i].job] = @ \cup {i}]
        /\ call[i].at = "cancel"
        /\ call'[i].at = "answered"
    BY <1>3, <1>7 DEF Cancel
  <2> HIDE DEF j
  <2>3. job'[call[i].job] = j /\ \A q \in Intents \ {call[i].job} : job'[q] = job[q]
    BY <1>1, <2>2 DEF TypeOK
  <2> QED
    BY <1>1, <2>1, <2>2, <2>3 DEF Decides, Deciding, Terminal
<1>8. CASE Reconcile(i)
  <2>1. binding'.sync \in {binding.sync, "READY_FOR_INTENT", "STALE"}
    BY <1>8 DEF Reconcile, Written, TypeOK
  <2> QED
    BY <1>8, <2>1 DEF Reconcile, Undecided, history, Sync
<1>9. CASE \/ Find(i) \/ Refresh(i) \/ Read(i) \/ Rebuild(i) \/ Stale(i) \/ Approve(i)
           \/ Supersede(i) \/ ApproveContent(i) \/ Die(i)
  BY <1>9 DEF Find, Refresh, Read, Rebuild, Stale, Approve, Supersede, ApproveContent, Die,
              Undecided, orders, history
<1> QED
  BY <1>5, <1>6, <1>7, <1>8, <1>9 DEF Handle

LEMMA FinitelyMany ==
  ASSUME NEW S \in SUBSET CallIds
  PROVE  IsFiniteSet(S) /\ Cardinality(S) \in Nat
<1>1. IsFiniteSet(CallIds)
  BY PublicationAssumption, FS_Interval DEF CallIds
<1> QED
  BY <1>1, FS_Subset, FS_CardinalityType

\* One more outcome.
LEMMA OneMore ==
  ASSUME NEW S \in SUBSET CallIds, NEW i \in CallIds, i \notin S
  PROVE  /\ Cardinality(S \cup {i}) = Cardinality(S) + 1
         /\ S # {} => Cardinality(S \cup {i}) > 1
<1>1. Cardinality(S \cup {i}) = Cardinality(S) + 1
  BY FinitelyMany, FS_AddElement
<1>2. S # {} => Cardinality(S) > 0
  BY FinitelyMany, FS_EmptySet
<1> QED
  BY <1>1, <1>2, FinitelyMany

LEMMA OutcomesKeptByHandle ==
  ASSUME TypeOK, Sessions, Outcomes, NEW i \in CallIds, Handle(i) \/ Die(i)
  PROVE  Outcomes'
<1>1. Own(i)
  BY Handled
<1>2. CASE Undecided(i)
  <2> USE <1>2 DEF Undecided
  <2>1. Decided'
    BY DEF Outcomes, Decided, Terminal
  <2>2. Raced'
    <3> SUFFICES ASSUME NEW k \in CallIds, Deciding(k)',
                        NEW h \in ended[call'[k].job]
                 PROVE  h \in met'[k] /\ k \in met'[h]
      BY DEF Raced
    <3>1. k # i
      BY FirstReads DEF Outcomes
    <3> QED
      BY <1>1, <3>1 DEF Own, Outcomes, Raced, Deciding
  <2>3. Alarmed'
    BY DEF Outcomes, Alarmed
  <2>4. OneOutcome'
    BY <1>1 DEF Outcomes, OneOutcome, Own
  <2>5. AlertsMatch'
    BY DEF Outcomes, Decided, Alarmed, AlertsMatch, Terminal, TypeOK
  <2>6. BindingTrue'
    BY DEF Outcomes, BindingTrue
  <2> QED
    BY <2>1, <2>2, <2>3, <2>4, <2>5, <2>6 DEF Outcomes
<1>3. ASSUME NEW r \in Intents, Decides(i, r)
      PROVE  Outcomes'
  <2> USE <1>3 DEF Decides
  <2>1. ended[r] \in SUBSET CallIds /\ i \notin ended[r]
    BY <1>1 DEF Sessions, Over, Own, Handling, TypeOK
  <2>2. /\ ended'[r] = ended[r] \cup {i}
        /\ \A q \in Intents \ {r} : ended'[q] = ended[q]
    BY DEF TypeOK
  <2>3. /\ Cardinality(ended'[r]) = Cardinality(ended[r]) + 1
        /\ ended[r] # {} => Cardinality(ended'[r]) > 1
        /\ Cardinality(ended[r]) \in Nat
    BY <2>1, <2>2, OneMore, FinitelyMany
  <2>4. Decided'
    BY <2>2 DEF Outcomes, Decided
  <2>5. Raced'
    <3> SUFFICES ASSUME NEW k \in CallIds, Deciding(k)',
                        NEW h \in ended'[call'[k].job]
                 PROVE  h \in met'[k] /\ k \in met'[h]
      BY DEF Raced
    <3>1. k # i
      BY DEF Deciding
    <3>2. Deciding(k) /\ call'[k].job = call[k].job /\ call[k].job \in Intents
      BY <1>1, <3>1 DEF Own, Deciding, TypeOK, CallState
    <3>3. CASE h \in ended[call[k].job]
      BY <1>1, <3>2, <3>3 DEF Own, Outcomes, Raced
    <3>4. CASE h = i
      <4>1. k \in Handling /\ i \in Handling
        BY <1>1, <3>2 DEF Own, Handling, Deciding
      <4> QED
        BY <1>1, <3>1, <3>4, <4>1 DEF Own, Sessions, Met
    <3> QED
      BY <2>2, <3>2, <3>3, <3>4
  <2>6. Alarmed'
    BY <2>2 DEF Outcomes, Alarmed, TypeOK
  <2>7. OneOutcome'
    <3>1. \A h \in ended[r] : h \in met[i] /\ i \in met[h]
      BY DEF Outcomes, Raced
    <3>2. job[r].attempts <= Cardinality(ended[r]) /\ job[r].attempts \in Nat
      BY DEF Outcomes, OneOutcome, TypeOK, JobState
    <3>3. job'[r].attempts <= Cardinality(ended'[r])
      BY <2>3, <3>2
    <3>4. ASSUME NEW q \in Intents \ {r}
          PROVE  job'[q] = job[q] /\ ended'[q] = ended[q] /\ met' = met
      BY <1>1, <2>2 DEF Own
    <3>5. \A h, k \in ended'[r] : h # k => k \in met'[h]
      BY <1>1, <2>2, <3>1 DEF Outcomes, OneOutcome, Own
    <3> QED
      BY <3>3, <3>4, <3>5 DEF Outcomes, OneOutcome
  <2>8. AlertsMatch'
    <3> SUFFICES ASSUME NEW q \in Intents, Cardinality(ended'[q]) <= 1
                 PROVE  q \in alerts' <=> /\ job'[q].status = "BLOCKED"
                                          /\ job'[q].code = "LISTING_NOT_READY"
      BY DEF AlertsMatch
    <3>1. CASE q = r
      BY <2>3, <3>1 DEF Outcomes, Alarmed
    <3>2. CASE q # r
      BY <2>2, <3>2 DEF Outcomes, AlertsMatch
    <3> QED
      BY <3>1, <3>2
  <2>9. BindingTrue'
    <3>1. CASE job'[r].status = "DRY_RUN_SUCCESS"
      BY <3>1 DEF BindingTrue
    <3>2. CASE binding.sync = "DRY_RUN_OK"
      <4>1. PICK q \in Intents : \/ job[q].status = "DRY_RUN_SUCCESS"
                                   \/ Cardinality(ended[q]) > 1
        BY <3>2 DEF Outcomes, BindingTrue
      <4>2. CASE q # r
        BY <2>2, <4>1, <4>2 DEF BindingTrue
      <4>3. CASE q = r
        <5>1. ended[r] # {}
          <6>1. Cardinality({}) = 0
            BY FS_EmptySet
          <6>2. ASSUME ended[r] = {} PROVE ~(Cardinality(ended[r]) > 1)
            <7>1. Cardinality(ended[r]) = 0
              BY <6>1, <6>2, Zenon
            <7> QED
              BY <7>1
          <6>3. job[r].status = "DRY_RUN_SUCCESS" => ended[r] # {}
            BY DEF Outcomes, Decided, Terminal
          <6> QED
            BY <4>1, <4>3, <6>2, <6>3
        <5> QED
          BY <2>3, <5>1 DEF BindingTrue
      <4> QED
        BY <4>2, <4>3
    <3> QED
      BY <3>1, <3>2 DEF BindingTrue
  <2> QED
    BY <2>4, <2>5, <2>6, <2>7, <2>8, <2>9 DEF Outcomes
<1> QED
  BY <1>2, <1>3, StepDecides

(***************************************************************************)
(* What a preparing request has read.                                      *)
(***************************************************************************)

LEMMA PreparedKeptByAsk ==
  ASSUME TypeOK, Sessions, Prepared, Ask
  PROVE  Prepared'
<1>1. job' = job
  BY DEF Ask, AskIntent, AskCancel, AskValidate, AskReconcile, AskFacts, AskContent, Edit,
         Begin, orders, source
<1>2. ASSUME NEW c, Opened(c), Begin(c)
      PROVE  Prepared'
  <2>1. /\ UNCHANGED <<listing, content, images, price, changed>>
        /\ call' = [call EXCEPT ![sent + 1] = c]
    BY <1>2 DEF Begin, source
  <2>2. ~(c.at \in {"create", "refresh", "process"})
    BY <1>2 DEF Opened
  <2>3. ASSUME NEW i \in CallIds
        PROVE  call'[i] = call[i] \/ call'[i] = c
    BY <2>1 DEF TypeOK
  <2>4. Reads'
    BY <1>2, <2>1, <2>2, <2>3 DEF Opened, Prepared, Reads, Asked, Preparing
  <2>5. Mine'
    BY <1>1, <2>2, <2>3 DEF Prepared, Mine
  <2> QED
    BY <2>4, <2>5 DEF Prepared
<1>3. CASE Edit
  <2>1. ASSUME NEW i \in CallIds
        PROVE  \/ call'[i].at = "answered"
               \/ call'[i] = call[i] /\ call[i].at # "answered"
    BY <1>3 DEF Edit, NoCall, TypeOK
  <2>2. changed' = changed \cup Handling
    BY <1>3 DEF Edit, Touch
  <2>3. Reads'
    BY <1>1, <2>1, <2>2 DEF Prepared, Reads, Asked, Preparing, Handling
  <2>4. Mine'
    BY <1>1, <2>1 DEF Prepared, Mine
  <2> QED
    BY <2>3, <2>4 DEF Prepared
<1> QED
  BY <1>2, <1>3, Opening

\* The source changes under every request that is handled, or not at all.
LEMMA SourceChanges ==
  ASSUME NEW i \in CallIds, Handle(i) \/ Die(i)
  PROVE  \/ UNCHANGED <<listing, content, images, price, changed>>
         \/ changed' = changed \cup Handling
  BY DEF Handle, Die, Find, Create, Refresh, Read, Rebuild, Process, Cancel, Reconcile, Stale,
         Approve, Supersede, ApproveContent, Touch, source, history

\* A job that is there keeps being for real or not.
LEMMA RealKept ==
  ASSUME TypeOK, NEW i \in CallIds, Handle(i) \/ Die(i), NEW r \in Intents,
         job[r].status # "NONE"
  PROVE  job'[r].status # "NONE" /\ job'[r].real = job[r].real
<1>1. job[r] \in JobState
  BY DEF TypeOK
<1>2. CASE Create(i)
  BY <1>2 DEF Create, TypeOK, orders
<1>3. CASE Process(i)
  <2>1. Outcome(call[i]).status # "NONE"
    BY OutcomeTypes DEF TypeOK, Terminal
  <2> QED
    BY <1>1, <1>3, <2>1 DEF Process, TypeOK, orders
<1>4. CASE Cancel(i)
  <2>1. [job[r] EXCEPT !.status = "CANCELLED", !.code = "JOB_CANCELLED"].status # "NONE"
    BY <1>1 DEF JobState
  <2>2. [job[r] EXCEPT !.status = "CANCELLED", !.code = "JOB_CANCELLED"].real = job[r].real
    BY <1>1 DEF JobState
  <2> QED
    BY <1>4, <2>1, <2>2 DEF Cancel, TypeOK
<1>5. CASE \/ Find(i) \/ Refresh(i) \/ Read(i) \/ Rebuild(i) \/ Stale(i) \/ Approve(i)
           \/ Supersede(i) \/ ApproveContent(i) \/ Die(i) \/ Reconcile(i)
  BY <1>5 DEF Find, Refresh, Read, Rebuild, Stale, Approve, Supersede, ApproveContent, Die,
              Reconcile, orders
<1> QED
  BY <1>2, <1>3, <1>4, <1>5 DEF Handle

LEMMA PreparedKeptByHandle ==
  ASSUME TypeOK, Sessions, Prepared, NEW i \in CallIds, Handle(i) \/ Die(i)
  PROVE  Prepared'
<1>1. Own(i) /\ call[i] \in CallState /\ call[i].job \in Intents
  BY Handled DEF TypeOK, CallState
<1>2. Answer(i) => call'[i].at = "answered"
  BY DEF Answer, NoCall, TypeOK, CallState
<1> DEFINE
     Fits(c) == /\ c.at \in {"create", "refresh", "process"} =>
                     /\ c.job.listing = c.listing
                     /\ i \notin changed' =>
                          /\ c.listing = listing'
                          /\ c.content = content'
                          /\ c.images = images'
                          /\ c.price = price'
                /\ c.at = "context" => FALSE
                /\ c.at \in {"refresh", "process"} =>
                     job'[c.job].status # "NONE" /\ job'[c.job].real = c.real
<1>3. Fits(call'[i])
  <2>1. CASE Find(i)
    <3> DEFINE d == [call[i] EXCEPT
          !.at = IF job[call[i].job].status = "NONE" THEN "create" ELSE "process",
          !.content = content, !.images = images, !.price = price, !.sync = binding.sync,
          !.status = job[call[i].job].status, !.count = job[call[i].job].count,
          !.real = IF job[call[i].job].status = "NONE" THEN call[i].real
                   ELSE job[call[i].job].real]
    <3>1. /\ d.at = IF job[call[i].job].status = "NONE" THEN "create" ELSE "process"
          /\ d.job = call[i].job /\ d.listing = call[i].listing
          /\ d.content = content /\ d.images = images /\ d.price = price
          /\ d.real = IF job[call[i].job].status = "NONE" THEN call[i].real
                      ELSE job[call[i].job].real
      BY <1>1 DEF CallState
    <3>2. Answer(i) \/ call' = [call EXCEPT ![i] = d]
      BY <2>1 DEF Find
    <3>3. /\ UNCHANGED <<listing, content, images, price, job, changed>>
          /\ Asked(i)
      BY <2>1 DEF Find, Asked, source, orders, history
    <3> HIDE DEF d
    <3>4. /\ call[i].job.listing = call[i].listing
          /\ i \notin changed => call[i].listing = listing
      BY <3>3 DEF Prepared, Reads
    <3>5. CASE Answer(i)
      BY <1>2, <3>5
    <3>6. CASE call' = [call EXCEPT ![i] = d]
      <4>1. call'[i] = d
        BY <3>6 DEF TypeOK
      <4> QED
        BY <3>1, <3>3, <3>4, <4>1
    <3> QED
      BY <3>2, <3>5, <3>6
  <2>2. CASE Create(i)
    <3> DEFINE d == [call[i] EXCEPT !.at = "refresh", !.sync = "INTENT_PENDING"]
               j == [job[call[i].job] EXCEPT !.status = "PENDING", !.real = call[i].real]
    <3>1. /\ d.at = "refresh" /\ d.job = call[i].job /\ d.listing = call[i].listing
          /\ d.content = call[i].content /\ d.images = call[i].images
          /\ d.price = call[i].price /\ d.real = call[i].real
      BY <1>1 DEF CallState
    <3>2. j.status = "PENDING" /\ j.real = call[i].real
      <4>1. job[call[i].job] \in JobState
        BY <1>1 DEF TypeOK
      <4> QED
        BY <4>1 DEF JobState
    <3>3. \/ Answer(i)
          \/ call' = [call EXCEPT ![i] = d] /\ job' = [job EXCEPT ![call[i].job] = j]
      BY <2>2 DEF Create
    <3>4. /\ UNCHANGED <<listing, content, images, price, changed>>
          /\ Preparing(i)
      BY <2>2 DEF Create, Preparing, source, history
    <3> HIDE DEF d, j
    <3>5. CASE Answer(i)
      BY <1>2, <3>5
    <3>6. CASE call' = [call EXCEPT ![i] = d] /\ job' = [job EXCEPT ![call[i].job] = j]
      <4>1. call'[i] = d /\ job'[call[i].job] = j
        BY <1>1, <3>6 DEF TypeOK
      <4> QED
        BY <3>1, <3>2, <3>4, <4>1 DEF Prepared, Reads
    <3> QED
      BY <3>3, <3>5, <3>6
  <2>3. CASE Refresh(i)
    <3> DEFINE d == [call[i] EXCEPT !.at = "process", !.status = job[call[i].job].status,
                                    !.count = job[call[i].job].count]
    <3>1. /\ d.at = "process" /\ d.job = call[i].job /\ d.listing = call[i].listing
          /\ d.content = call[i].content /\ d.images = call[i].images
          /\ d.price = call[i].price /\ d.real = call[i].real
      BY <1>1 DEF CallState
    <3>2. call' = [call EXCEPT ![i] = d]
      BY <2>3 DEF Refresh
    <3>3. /\ UNCHANGED <<listing, content, images, price, job, changed>>
          /\ Preparing(i)
          /\ call[i].at = "refresh"
      BY <2>3 DEF Refresh, Preparing, source, orders, history
    <3> HIDE DEF d
    <3>4. call'[i] = d
      BY <3>2 DEF TypeOK
    <3> QED
      BY <3>1, <3>3, <3>4 DEF Prepared, Reads, Mine
  <2>4. CASE Read(i)
    <3> DEFINE d == [call[i] EXCEPT !.at = "commit", !.price = price, !.sync = binding.sync,
                                    !.prepared = binding.prepared]
    <3>1. d.at = "commit"
      BY <1>1 DEF CallState
    <3>2. call' = [call EXCEPT ![i] = d]
      BY <2>4 DEF Read
    <3> HIDE DEF d
    <3> QED
      BY <3>1, <3>2 DEF TypeOK
  <2>5. CASE Rebuild(i)
    <3>1. call'[i].at \in {"stale", "commit", "answered"}
      BY <1>1, <1>2, <2>5 DEF Rebuild, Goto, TypeOK, CallState
    <3> QED
      BY <3>1
  <2>6. CASE \/ Process(i) \/ Cancel(i) \/ Reconcile(i) \/ Stale(i) \/ Approve(i)
             \/ Supersede(i) \/ ApproveContent(i) \/ Die(i)
    <3>1. Answer(i)
      BY <2>6 DEF Process, Cancel, Reconcile, Stale, Approve, Supersede, ApproveContent, Die
    <3> QED
      BY <1>2, <3>1
  <2> QED
    BY <2>1, <2>2, <2>3, <2>4, <2>5, <2>6 DEF Handle
<1>4. ASSUME NEW k \in CallIds \ {i}
      PROVE  call'[k] = call[k]
  BY <1>1 DEF Own
<1>5. Reads'
  <2> SUFFICES ASSUME NEW k \in CallIds
               PROVE  /\ Asked(k)' \/ Preparing(k)' =>
                           /\ call'[k].job.listing = call'[k].listing
                           /\ k \notin changed' => call'[k].listing = listing'
                      /\ Preparing(k)' /\ k \notin changed' =>
                           /\ call'[k].content = content'
                           /\ call'[k].images = images'
                           /\ call'[k].price = price'
    BY DEF Reads
  <2>1. CASE k = i
    BY <1>3, <2>1 DEF Asked, Preparing
  <2>2. CASE k # i
    BY <1>4, <2>2, SourceChanges DEF Prepared, Reads, Asked, Preparing, Handling
  <2> QED
    BY <2>1, <2>2
<1>6. Mine'
  <2> SUFFICES ASSUME NEW k \in CallIds, call'[k].at \in {"refresh", "process"}
               PROVE  /\ job'[call'[k].job].status # "NONE"
                      /\ job'[call'[k].job].real = call'[k].real
    BY DEF Mine
  <2>1. CASE k = i
    BY <1>3, <2>1
  <2>2. CASE k # i
    <3>1. call[k].job \in Intents
      BY DEF TypeOK, CallState
    <3> QED
      BY <1>4, <2>2, <3>1, RealKept DEF Prepared, Mine
  <2> QED
    BY <2>1, <2>2
<1> QED
  BY <1>5, <1>6 DEF Prepared

(***************************************************************************)
(* Approvals and the facts they rest on.                                   *)
(***************************************************************************)

\* Those that have met stay so.
LEMMA CrossedKept ==
  ASSUME TypeOK, Sessions, Next, Crossed
  PROVE  Crossed'
<1>1. PICK i, k \in CallIds : /\ call[i].op \in {"approve", "content"}
                              /\ call[k].op = "facts"
                              /\ k \in met[i]
  BY DEF Crossed
<1>2. ASSUME NEW h \in CallIds, Handle(h) \/ Die(h)
      PROVE  Crossed'
  <2>1. Own(h)
    BY <1>2, Handled
  <2> QED
    BY <1>1, <2>1 DEF Own, Crossed
<1>3. i # sent + 1 /\ k # sent + 1
  <2>1. NoCall.op = "intent"
    BY DEF NoCall
  <2> QED
    BY <1>1, <2>1, PublicationAssumption DEF Sessions, Fresh, TypeOK, CallIds
<1>4. ASSUME NEW c, Begin(c)
      PROVE  Crossed'
  <2>1. call'[i] = call[i] /\ call'[k] = call[k] /\ met[i] \subseteq met'[i]
    BY <1>3, <1>4 DEF Begin, TypeOK
  <2> QED
    BY <1>1, <2>1 DEF Crossed
<1>5. CASE Edit
  <2>1. call'[i] = call[i] /\ call'[k] = call[k] /\ met' = met
    BY <1>3, <1>5 DEF Edit, TypeOK
  <2> QED
    BY <1>1, <2>1 DEF Crossed
<1> QED
  BY <1>2, <1>4, <1>5, Opening DEF Next

LEMMA ApprovedKeptByAsk ==
  ASSUME TypeOK, Sessions, Approved, Ask
  PROVE  Approved'
<1>1. Crossed => Crossed'
  BY CrossedKept DEF Next
<1>2. /\ facts' = facts /\ listing'.readiness = listing.readiness
      /\ content' = "APPROVED" => content = "APPROVED"
  <2>1. [listing EXCEPT !.status = "REJECTED"].readiness = listing.readiness
    BY DEF TypeOK, Row
  <2> QED
    BY <2>1 DEF Ask, AskIntent, AskCancel, AskValidate, AskReconcile, AskFacts, AskContent,
                Edit, Reject, Begin, source
<1>3. ASSUME NEW i \in CallIds, call'[i].at = "commit"
      PROVE  \/ call'[i] = call[i]
             \/ call'[i].op = "facts" /\ /\ content' = call'[i].content
                                         /\ listing'.readiness = call'[i].listing.readiness
             \/ call'[i].op = "content" /\ facts
  <2>1. ASSUME NEW c, Opened(c), Begin(c)
        PROVE  \/ call'[i] = call[i]
               \/ call'[i].op = "facts" /\ /\ content' = call'[i].content
                                           /\ listing'.readiness = call'[i].listing.readiness
               \/ call'[i].op = "content" /\ facts
    <3>1. call'[i] = call[i] \/ call'[i] = c
      BY <2>1 DEF Begin, TypeOK
    <3>2. content' = content
      BY <2>1 DEF Begin, source
    <3> QED
      BY <1>2, <1>3, <2>1, <3>1, <3>2 DEF Opened
  <2>2. Edit => call'[i] = call[i] \/ call'[i].at = "answered"
    BY DEF Edit, NoCall, TypeOK
  <2> QED
    BY <1>3, <2>1, <2>2, Opening
<1>4. Approving'
  BY <1>1, <1>2, <1>3 DEF Approved, Approving
<1>5. Rebuilding'
  <2> SUFFICES ASSUME NEW i \in CallIds, call'[i].at = "commit", call'[i].op = "facts"
               PROVE  /\ content' = "APPROVED" /\ call'[i].content # "APPROVED" => Crossed'
                      /\ listing'.readiness = "APPROVED" /\ call'[i].listing.readiness = "STALE"
                           => Crossed'
    BY DEF Rebuilding
  <2>1. CASE call'[i] = call[i]
    BY <1>1, <1>2, <2>1 DEF Approved, Rebuilding
  <2>2. CASE content' = call'[i].content /\ listing'.readiness = call'[i].listing.readiness
    BY <2>2
  <2> QED
    BY <1>3, <2>1, <2>2
<1>6. Current'
  BY <1>1, <1>2 DEF Approved, Current
<1> QED
  BY <1>4, <1>5, <1>6 DEF Approved

\* What a step of a handler does to the listing, the draft and the facts, and when a
\* request comes to its commit.
LEMMA Changes ==
  ASSUME TypeOK, NEW i \in CallIds, Handle(i) \/ Die(i)
  PROVE  /\ content' = "APPROVED" =>
              \/ content = "APPROVED"
              \/ call[i].at = "commit" /\ call[i].op = "content"
         /\ listing'.readiness = "APPROVED" =>
              \/ listing.readiness = "APPROVED"
              \/ call[i].at = "commit" /\ call[i].op = "approve"
         /\ facts' # facts =>
              /\ call[i].at = "commit" /\ call[i].op = "facts"
              /\ content' = "APPROVED" => content = "APPROVED" /\ call[i].content # "APPROVED"
              /\ listing'.readiness = "APPROVED" =>
                   listing.readiness = "APPROVED" /\ call[i].listing.readiness = "STALE"
         /\ call'[i].at = "commit" =>
              \/ call[i].op = "reconcile"
              \/ call[i].op = "approve" /\ content = "APPROVED" /\ facts' = facts
<1>1. call[i] \in CallState
  BY DEF TypeOK
<1>2. Answer(i) => call'[i].at = "answered"
  BY DEF Answer, NoCall, TypeOK, CallState
<1>3. CASE Find(i)
  <2> DEFINE d == [call[i] EXCEPT
        !.at = IF job[call[i].job].status = "NONE" THEN "create" ELSE "process",
        !.content = content, !.images = images, !.price = price, !.sync = binding.sync,
        !.status = job[call[i].job].status, !.count = job[call[i].job].count,
        !.real = IF job[call[i].job].status = "NONE" THEN call[i].real
                 ELSE job[call[i].job].real]
  <2>1. d.at \in {"create", "process"}
    BY <1>1 DEF CallState
  <2>2. Answer(i) \/ call' = [call EXCEPT ![i] = d]
    BY <1>3 DEF Find
  <2>3. UNCHANGED <<content, listing, facts>>
    BY <1>3 DEF Find, source
  <2> HIDE DEF d
  <2> QED
    BY <1>2, <2>1, <2>2, <2>3 DEF TypeOK
<1>4. CASE Create(i)
  <2> DEFINE d == [call[i] EXCEPT !.at = "refresh", !.sync = "INTENT_PENDING"]
  <2>1. d.at = "refresh"
    BY <1>1 DEF CallState
  <2>2. Answer(i) \/ call' = [call EXCEPT ![i] = d]
    BY <1>4 DEF Create
  <2>3. UNCHANGED <<content, listing, facts>>
    BY <1>4 DEF Create, source
  <2> HIDE DEF d
  <2> QED
    BY <1>2, <2>1, <2>2, <2>3 DEF TypeOK
<1>5. CASE Refresh(i)
  <2> DEFINE d == [call[i] EXCEPT !.at = "process", !.status = job[call[i].job].status,
                                  !.count = job[call[i].job].count]
  <2>1. d.at = "process"
    BY <1>1 DEF CallState
  <2>2. call' = [call EXCEPT ![i] = d]
    BY <1>5 DEF Refresh
  <2>3. UNCHANGED <<content, listing, facts>>
    BY <1>5 DEF Refresh, source
  <2> HIDE DEF d
  <2> QED
    BY <2>1, <2>2, <2>3 DEF TypeOK
<1>6. CASE Read(i) \/ Reconcile(i)
  BY <1>6 DEF Read, Reconcile, source
<1>7. CASE Rebuild(i)
  <2>1. UNCHANGED <<content, listing, facts>>
    BY <1>7 DEF Rebuild, source
  <2>2. call'[i].at = "commit" => call[i].op = "approve" /\ content = "APPROVED"
    BY <1>1, <1>2, <1>7 DEF Rebuild, Goto, TypeOK, CallState
  <2> QED
    BY <2>1, <2>2
<1>8. CASE Process(i) \/ Cancel(i) \/ Die(i)
  <2>1. UNCHANGED <<content, listing, facts>>
    BY <1>8 DEF Process, Cancel, Die, source
  <2>2. call'[i].at = "answered"
    BY <1>2, <1>8 DEF Process, Cancel, Die
  <2> QED
    BY <2>1, <2>2
<1>9. CASE Stale(i) \/ Approve(i) \/ Supersede(i) \/ ApproveContent(i)
  <2>1. call'[i].at = "answered"
    BY <1>2, <1>9 DEF Stale, Approve, Supersede, ApproveContent
  <2>2. call[i].listing \in Row /\ call[i].listing.readiness \in Readiness
    BY <1>1 DEF CallState, Row
  <2>3. /\ Rewritten(call[i].listing, "STALE").readiness \in {"STALE", listing.readiness}
        /\ call[i].listing.readiness # "STALE" =>
             Rewritten(call[i].listing, "STALE").readiness = "STALE"
    BY <2>2, RewrittenRow DEF TypeOK, Readiness
  <2> QED
    BY <1>1, <1>9, <2>1, <2>2, <2>3
    DEF Stale, Approve, Supersede, ApproveContent, Written, CallState, Draft
<1> QED
  BY <1>3, <1>4, <1>5, <1>6, <1>7, <1>8, <1>9 DEF Handle

LEMMA ApprovedKeptByHandle ==
  ASSUME TypeOK, Sessions, Approved, NEW i \in CallIds, Handle(i) \/ Die(i)
  PROVE  Approved'
<1>1. Own(i)
  BY Handled
<1>2. Crossed => Crossed'
  BY CrossedKept DEF Next
<1>3. ASSUME NEW k \in CallIds \ {i}, call'[k].at = "commit"
      PROVE  /\ call'[k] = call[k]
             /\ k \in met[i] /\ i \in met[k]
  BY <1>1, <1>3 DEF Own, Sessions, Met, Handling
<1>4. Approving'
  <2> SUFFICES ASSUME NEW k \in CallIds, call'[k].at = "commit",
                      call'[k].op \in {"approve", "content"}, ~facts'
               PROVE  Crossed'
    BY DEF Approving
  <2>1. CASE k = i
    BY <1>1, <1>2, <2>1, Changes DEF Own, Approved, Current
  <2>2. CASE k # i /\ facts' = facts
    BY <1>2, <1>3, <2>2 DEF Approved, Approving
  <2>3. CASE k # i /\ facts' # facts
    BY <1>2, <1>3, <2>3, Changes DEF Crossed
  <2> QED
    BY <2>1, <2>2, <2>3
<1>5. Rebuilding'
  <2> SUFFICES ASSUME NEW k \in CallIds, call'[k].at = "commit", call'[k].op = "facts"
               PROVE  /\ content' = "APPROVED" /\ call'[k].content # "APPROVED" => Crossed'
                      /\ listing'.readiness = "APPROVED" /\ call'[k].listing.readiness = "STALE"
                           => Crossed'
    BY DEF Rebuilding
  <2>1. k # i
    BY <1>1, Changes DEF Own
  <2>2. /\ content = "APPROVED" /\ call[k].content # "APPROVED" => Crossed
        /\ listing.readiness = "APPROVED" /\ call[k].listing.readiness = "STALE" => Crossed
    BY <1>3, <2>1 DEF Approved, Rebuilding
  <2>3. call[i].op \in {"approve", "content"} => Crossed
    BY <1>3, <2>1 DEF Crossed
  <2> QED
    BY <1>2, <1>3, <2>1, <2>2, <2>3, Changes
<1>6. Current'
  <2>1. CASE facts' = facts
    <3>1. call[i].at = "commit" /\ call[i].op \in {"approve", "content"} /\ ~facts => Crossed
      BY DEF Approved, Approving
    <3> QED
      BY <1>2, <2>1, <3>1, Changes DEF Approved, Current
  <2>2. CASE facts' # facts
    BY <1>2, <2>2, Changes DEF Approved, Rebuilding, Current
  <2> QED
    BY <2>1, <2>2
<1> QED
  BY <1>4, <1>5, <1>6 DEF Approved

(***************************************************************************)
(* The theorems.                                                           *)
(***************************************************************************)

LEMMA InitInv == Init => IInv
<1> SUFFICES ASSUME Init PROVE IInv
  OBVIOUS
<1>1. TypeOK
  BY InitTypes
<1>2. \A i \in CallIds : call[i] = NoCall
  BY DEF Init
<1>3. NoCall.at = "none"
  BY DEF NoCall
<1>4. Sessions
  BY <1>2, <1>3 DEF Init, Sessions, Fresh, Over, Met, Handling
<1>5. Outcomes
  <2>1. \A r \in Intents : /\ job[r].status = "NONE" /\ job[r].attempts = 0
                             /\ ended[r] = {}
    BY DEF Init, NoJob
  <2>2. Cardinality({}) = 0
    BY FS_EmptySet
  <2>6. ASSUME NEW r \in Intents PROVE Cardinality(ended[r]) = 0
    BY <2>1, <2>2, Zenon
  <2>3. OneOutcome
    BY <2>1, <2>6 DEF OneOutcome
  <2>4. Decided /\ AlertsMatch
    BY <2>1 DEF Init, Decided, AlertsMatch, Terminal
  <2>5. Raced /\ Alarmed /\ BindingTrue
    BY <1>2, <1>3 DEF Init, Raced, Deciding, Alarmed, BindingTrue
  <2> QED
    BY <2>3, <2>4, <2>5 DEF Outcomes
<1>6. Prepared
  BY <1>2, <1>3 DEF Prepared, Reads, Mine, Asked, Preparing
<1>7. Approved
  BY <1>2, <1>3 DEF Init, Approved, Approving, Rebuilding, Current
<1> QED
  BY <1>1, <1>4, <1>5, <1>6, <1>7 DEF IInv

LEMMA InvKept == IInv /\ [Next]_vars => IInv'
<1> SUFFICES ASSUME IInv, [Next]_vars PROVE IInv'
  OBVIOUS
<1>1. CASE UNCHANGED vars
  <2>1. TypeOK' /\ Sessions'
    BY <1>1 DEF IInv, TypeOK, Sessions, Fresh, Over, Met, Handling, vars, source, orders, history
  <2>2. Outcomes'
    BY <1>1 DEF IInv, Outcomes, Decided, Raced, Deciding, Alarmed, OneOutcome, AlertsMatch,
                BindingTrue, vars, orders, history
  <2>3. Prepared' /\ Approved'
    BY <1>1 DEF IInv, Prepared, Reads, Mine, Asked, Preparing, Approved, Approving, Rebuilding,
                Current, Crossed, vars, source, orders, history
  <2> QED
    BY <2>1, <2>2, <2>3 DEF IInv
<1>2. CASE Next
  <2>1. TypeOK'
    BY TypesKept DEF IInv
  <2>2. Sessions'
    BY <1>2, SessionsKept DEF IInv
  <2>3. Outcomes'
    BY <1>2, OutcomesKeptByAsk, OutcomesKeptByHandle DEF IInv, Next
  <2>4. Prepared'
    BY <1>2, PreparedKeptByAsk, PreparedKeptByHandle DEF IInv, Next
  <2>5. Approved'
    BY <1>2, ApprovedKeptByAsk, ApprovedKeptByHandle DEF IInv, Next
  <2> QED
    BY <2>1, <2>2, <2>3, <2>4, <2>5 DEF IInv
<1> QED
  BY <1>1, <1>2

LEMMA Inductive == Spec => []IInv
BY InitInv, InvKept, PTL DEF Spec

\* A job has one outcome and one attempt unless two requests gave one at the same time
\* (OneOutcome), for any number of requests and prices.
THEOREM OutcomeOnce == Spec => []OneOutcome
<1>1. IInv => OneOutcome
  BY DEF IInv, Outcomes
<1> QED
  BY <1>1, Inductive, PTL

\* The alert of a job that was not ready is open iff it stands blocked for it, as long
\* as it has one outcome (AlertsMatch).
THEOREM AlertsTrue == Spec => []AlertsMatch
<1>1. IInv => AlertsMatch
  BY DEF IInv, Outcomes
<1> QED
  BY <1>1, Inductive, PTL

\* A binding that says DRY_RUN_OK has a job that succeeded, unless a job got two
\* outcomes (BindingTrue).
THEOREM BindingSound == Spec => []BindingTrue
<1>1. IInv => BindingTrue
  BY DEF IInv, Outcomes
<1> QED
  BY <1>1, Inductive, PTL

\* A listing stays approved over superseded facts only if an approval and the rebuild
\* of the facts were handled together (ApprovalsCurrent).
THEOREM ApprovalsSound == Spec => []ApprovalsCurrent
<1>1. IInv => ApprovalsCurrent
  BY DEF IInv, Approved, Current, Crossed, ApprovalsCurrent
<1> QED
  BY <1>1, Inductive, PTL

\* What PreparedApproved asks of one step.
PreparedStep ==
  \A r \in Intents :
    job[r].status # "DRY_RUN_SUCCESS" /\ job'[r].status = "DRY_RUN_SUCCESS" =>
      /\ ~job[r].real
      /\ \E i \in ended'[r] \ ended[r] :
           \/ i \in changed
           \/ /\ r.listing = listing /\ listing.readiness = "APPROVED"
              /\ content = "APPROVED" /\ images /\ price # NoPrice

LEMMA StepPrepared == IInv /\ [Next]_vars => PreparedStep
<1> SUFFICES ASSUME IInv, [Next]_vars, NEW r \in Intents,
                    job[r].status # "DRY_RUN_SUCCESS", job'[r].status = "DRY_RUN_SUCCESS"
             PROVE  /\ ~job[r].real
                    /\ \E i \in ended'[r] \ ended[r] :
                         \/ i \in changed
                         \/ /\ r.listing = listing /\ listing.readiness = "APPROVED"
                            /\ content = "APPROVED" /\ images /\ price # NoPrice
  BY DEF PreparedStep
<1>1. PICK i \in CallIds : Process(i) /\ r = call[i].job /\ call[i].status \notin Terminal
  <2>1. job' # job
    OBVIOUS
  <2>2. ~Ask
    BY <2>1 DEF Ask, AskIntent, AskCancel, AskValidate, AskReconcile, AskFacts, AskContent,
                Edit, Begin, orders
  <2>3. PICK i \in CallIds : Handle(i) \/ Die(i)
    BY <2>1, <2>2 DEF Next, vars, orders
  <2>4. ~Create(i)
    <3>1. [job[r] EXCEPT !.status = "PENDING", !.real = call[i].real].status # "DRY_RUN_SUCCESS"
      BY DEF IInv, TypeOK, JobState
    <3> QED
      BY <2>1, <3>1 DEF Create, IInv, TypeOK, orders
  <2>5. ~Cancel(i)
    <3>1. [job[r] EXCEPT !.status = "CANCELLED", !.code = "JOB_CANCELLED"].status
            # "DRY_RUN_SUCCESS"
      BY DEF IInv, TypeOK, JobState
    <3> QED
      BY <3>1 DEF Cancel, IInv, TypeOK
  <2>6. Process(i)
    BY <2>1, <2>3, <2>4, <2>5 DEF Handle, Die, Find, Refresh, Read, Rebuild, Reconcile, Stale,
                                  Approve, Supersede, ApproveContent, orders
  <2> QED
    BY <2>6 DEF Process, IInv, TypeOK, orders
<1>2. call[i] \in CallState /\ call[i].at = "process"
  BY <1>1 DEF IInv, TypeOK, Process
<1>3. job'[r].status = Outcome(call[i]).status /\ i \in ended'[r] \ ended[r]
  BY <1>1, <1>2 DEF Process, IInv, TypeOK, Sessions, Over
<1>4. Ready(call[i]) /\ ~call[i].real
  BY <1>2, <1>3, OutcomeTypes
<1>5. job[r].real = call[i].real
  BY <1>1, <1>2 DEF IInv, Prepared, Mine
<1>6. i \notin changed =>
        /\ call[i].job.listing = call[i].listing /\ call[i].listing = listing
        /\ call[i].content = content
        /\ call[i].images = images
        /\ call[i].price = price
  BY <1>2 DEF IInv, Prepared, Reads, Preparing
<1> QED
  BY <1>1, <1>3, <1>4, <1>5, <1>6 DEF Ready

\* A job succeeds only in a dry run and, if nothing changed meanwhile, only the job of
\* the stored listing version, approved in readiness whatever its status, with an
\* approved draft, approved images and a price (PreparedApproved).
THEOREM OnlyPrepared == Spec => PreparedApproved
<1>1. IInv /\ [Next]_vars => [PreparedStep]_vars
  BY StepPrepared
<1>2. [PreparedStep]_vars <=>
        [\A r \in Intents :
           job[r].status # "DRY_RUN_SUCCESS" /\ job'[r].status = "DRY_RUN_SUCCESS" =>
             /\ ~job[r].real
             /\ \E i \in ended'[r] \ ended[r] :
                  \/ i \in changed
                  \/ /\ r.listing = listing /\ listing.readiness = "APPROVED"
                     /\ content = "APPROVED" /\ images /\ price # NoPrice]_vars
  BY DEF PreparedStep
<1> QED
  BY <1>1, <1>2, Inductive, PTL DEF Spec, PreparedApproved
=============================================================================
