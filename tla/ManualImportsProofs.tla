------------------------ MODULE ManualImportsProofs -------------------------
(***************************************************************************)
(* Proofs about ManualImports, for any number of pages, price lists,       *)
(* exports, requests and faults: the types, ShownClosedIsClosed, and the   *)
(* refinement of ImportLedger.                                             *)
(***************************************************************************)
EXTENDS ManualImports, TLAPS

(***************************************************************************)
(* The strengthening.  A request keeps its operation and batch for ever,   *)
(* so a confirm is a confirm of an approved batch; what a handler holds in *)
(* hand still stands when it uses it.                                      *)
(***************************************************************************)
Unsent ==
  \A c \in CallIds : c > sent =>
    call[c].at = "unused" /\ call[c].op = "preview" /\ c \notin snapshots /\ runs[c] = "NONE"

ListSteps == {"raw", "rawInsert", "snapshot", "snapshotInsert", "process"}

StepsOfConfirm ==
  \A c \in CallIds :
    /\ call[c].at \in ListSteps \cup {"finish"} => call[c].op = "confirm"
    /\ call[c].at \in ListSteps => IsList(call[c].key)

FreshRuns ==
  \A c \in CallIds : call[c].at \in {"sent", "import", "apply"} => runs[c] = "NONE"

Known(k) == batch[k] # "NONE"

ApprovedKnown == \A k \in approved : Known(k)

ConfirmsApproved ==
  \A c \in CallIds : call[c].op = "confirm" => call[c].key \in approved

ShownKnown ==
  /\ \A f \in Forms : form[f].batch # NoBatch => Known(form[f].batch)
  /\ \A c \in CallIds : call[c].at = "answered" /\ call[c].answer # "error" =>
       Known(call[c].key)

ShownClosed ==
  /\ \A f \in Forms : form[f].status \in Closed =>
       form[f].batch # NoBatch /\ batch[form[f].batch] \in Closed
  /\ \A c \in CallIds : call[c].at = "answered" /\ call[c].answer \in Closed =>
       batch[call[c].key] \in Closed

SameContent(c, d) == call[c].key.content = call[d].key.content

SnapshotsOfConfirms ==
  /\ processed \subseteq snapshots
  /\ \A s \in snapshots : call[s].op = "confirm"
  /\ \A c \in CallIds : call[c].at = "process" =>
       call[c].snap \in snapshots /\ SameContent(call[c].snap, c)

RanContent(k) == \E r \in Ran : r.content = k.content

\* A confirm about to be closed, and a real run told DUPLICATE, have a run of
\* the same content behind them.
Backed ==
  \A c \in CallIds :
    \/ call[c].at = "finish"
    \/ call[c].op = "confirm" /\ runs[c] = "DUPLICATE"
    => RanContent(call[c].key)

IInv ==
  /\ TypeOK /\ Unsent /\ StepsOfConfirm /\ FreshRuns /\ ApprovedKnown
  /\ ConfirmsApproved /\ ShownKnown /\ ShownClosed /\ SnapshotsOfConfirms /\ Backed

-----------------------------------------------------------------------------
\* What a handler's step does to the requests: one field of one of them.
Same(c) ==
  call'[c].op = call[c].op /\ call'[c].key = call[c].key /\ call'[c].form = call[c].form

LEMMA GotoFacts ==
  ASSUME call \in [CallIds -> CallState], NEW c \in CallIds, NEW step \in Steps, Goto(c, step)
  PROVE  /\ call' \in [CallIds -> CallState]
         /\ \A d \in CallIds : d # c => call'[d] = call[d]
         /\ Same(c) /\ call'[c].at = step
         /\ call'[c].answer = call[c].answer /\ call'[c].snap = call[c].snap
<1> DEFINE r == [call[c] EXCEPT !.at = step]
<1>1. /\ r \in CallState /\ r.at = step /\ r.op = call[c].op /\ r.key = call[c].key
      /\ r.form = call[c].form /\ r.answer = call[c].answer /\ r.snap = call[c].snap
  BY DEF CallState
<1>2. call' = [call EXCEPT ![c] = r]
  BY DEF Goto
<1> HIDE DEF r
<1>3. call' \in [CallIds -> CallState] /\ call'[c] = r
  BY <1>1, <1>2
<1>4. \A d \in CallIds : d # c => call'[d] = call[d]
  BY <1>2
<1> QED
  BY <1>1, <1>3, <1>4 DEF Same

LEMMA AnswerFacts ==
  ASSUME call \in [CallIds -> CallState], NEW c \in CallIds,
         NEW what \in Status \cup {"error"}, Answer(c, what)
  PROVE  /\ call' \in [CallIds -> CallState]
         /\ \A d \in CallIds : d # c => call'[d] = call[d]
         /\ Same(c) /\ call'[c].at = "answered" /\ call'[c].answer = what
<1> DEFINE r == [call[c] EXCEPT !.at = "answered", !.answer = what]
<1>1. /\ r \in CallState /\ r.at = "answered" /\ r.op = call[c].op
      /\ r.key = call[c].key /\ r.form = call[c].form /\ r.answer = what
  BY DEF CallState, Steps
<1>2. call' = [call EXCEPT ![c] = r]
  BY DEF Answer, CallState
<1> HIDE DEF r
<1>3. call' \in [CallIds -> CallState] /\ call'[c] = r
  BY <1>1, <1>2
<1>4. \A d \in CallIds : d # c => call'[d] = call[d]
  BY <1>2
<1> QED
  BY <1>1, <1>3, <1>4 DEF Same

LEMMA SnapFacts ==
  ASSUME call \in [CallIds -> CallState], NEW c \in CallIds, NEW s \in CallIds,
         call' = [call EXCEPT ![c].at = "process", ![c].snap = s]
  PROVE  /\ call' \in [CallIds -> CallState]
         /\ \A d \in CallIds : d # c => call'[d] = call[d]
         /\ Same(c) /\ call'[c].at = "process" /\ call'[c].snap = s
<1> DEFINE r == [call[c] EXCEPT !.at = "process", !.snap = s]
<1>1. /\ r \in CallState /\ r.at = "process" /\ r.op = call[c].op
      /\ r.key = call[c].key /\ r.form = call[c].form /\ r.snap = s
  BY DEF CallState, Steps
<1>2. call' = [call EXCEPT ![c] = r]
  BY DEF CallState
<1> HIDE DEF r
<1>3. call' \in [CallIds -> CallState] /\ call'[c] = r
  BY <1>1, <1>2
<1>4. \A d \in CallIds : d # c => call'[d] = call[d]
  BY <1>2
<1> QED
  BY <1>1, <1>3, <1>4 DEF Same

LEMMA PostFacts ==
  ASSUME TypeOK, NEW f \in Forms, NEW op \in {"preview", "confirm"}, NEW key \in Keys,
         Post(f, op, key)
  PROVE  /\ sent + 1 \in CallIds
         /\ sent' = sent + 1
         /\ sent' \in 0..MaxCalls
         /\ call' \in [CallIds -> CallState]
         /\ \A d \in CallIds : d # sent + 1 => call'[d] = call[d]
         /\ call'[sent + 1] = [op |-> op, form |-> f, key |-> key, at |-> "sent",
                               snap |-> 0, answer |-> "NONE"]
  BY ImportsAssumption DEF Post, TypeOK, CallState, Steps, Status, CallIds

LEMMA ShowFacts ==
  ASSUME TypeOK, NEW c \in CallIds, Show(c)
  PROVE  /\ form' \in [Forms -> FormState]
         /\ \A f \in Forms :
              \/ /\ form'[f].batch = form[f].batch
                 /\ form'[f].status = form[f].status
              \/ /\ call[c].answer # "error"
                 /\ form'[f].batch = call[c].key
                 /\ form'[f].status = call[c].answer
<1> DEFINE g == call[c].form
<1>1. form[g] \in FormState /\ g \in Forms /\ call[c] \in CallState
  BY DEF TypeOK, CallState
<1>2. CASE call[c].answer = "error"
  <2>1. PICK m \in {"Preview failed", "Confirm failed"} :
          form' = [form EXCEPT ![g] = [form[g] EXCEPT !.message = m]]
    BY <1>2 DEF Show
  <2> DEFINE r == [form[g] EXCEPT !.message = m]
  <2>2. r \in FormState /\ r.batch = form[g].batch /\ r.status = form[g].status
    BY <1>1 DEF FormState
  <2>0. form' = [form EXCEPT ![g] = r]
    BY <2>1
  <2> HIDE DEF r
  <2>3. form' \in [Forms -> FormState]
    BY <1>1, <2>0, <2>2 DEF TypeOK
  <2>4. \A f \in Forms : form'[f] = IF f = g THEN r ELSE form[f]
    BY <1>1, <2>0 DEF TypeOK
  <2> QED
    BY <2>2, <2>3, <2>4
<1>3. CASE call[c].answer # "error"
  <2>1. PICK m \in {"Preview ready", "Confirmed"} :
          form' = [form EXCEPT ![g] = [form[g] EXCEPT !.batch = call[c].key,
                                         !.status = call[c].answer, !.message = m]]
    BY <1>3 DEF Show
  <2>2. call[c].key \in Keys /\ call[c].answer \in Status
    BY <1>1, <1>3 DEF CallState
  <2> DEFINE r == [form[g] EXCEPT !.batch = call[c].key, !.status = call[c].answer,
                                  !.message = m]
  <2>3. r \in FormState /\ r.batch = call[c].key /\ r.status = call[c].answer
    BY <1>1, <2>2 DEF FormState
  <2>0. form' = [form EXCEPT ![g] = r]
    BY <2>1
  <2> HIDE DEF r
  <2>4. form' \in [Forms -> FormState]
    BY <1>1, <2>0, <2>3 DEF TypeOK
  <2>5. \A f \in Forms : form'[f] = IF f = g THEN r ELSE form[f]
    BY <1>1, <2>0 DEF TypeOK
  <2> QED
    BY <1>3, <2>3, <2>4, <2>5
<1> QED
  BY <1>2, <1>3

LEMMA TypeInit == Init => TypeOK
<1> SUFFICES ASSUME Init PROVE TypeOK
  OBVIOUS
<1>1. (CHOOSE f \in Forms : TRUE) \in Forms
  BY ImportsAssumption
<1>2. \E k \in Keys : TRUE
  <2>1. PICK content \in Contents : TRUE
    BY ImportsAssumption
  <2>2. [content |-> content, mode |-> "FULL"] \in Keys
    BY DEF Keys, Modes
  <2> QED
    BY <2>2
<1>3. (CHOOSE k \in Keys : TRUE) \in Keys
  BY <1>2
<1>4. call \in [CallIds -> CallState]
  BY <1>1, <1>3 DEF Init, CallState, Steps, Status
<1>5. form \in [Forms -> FormState]
  BY DEF Init, FormState, Status, Modes
<1>6. /\ sent = 0 /\ faults = 0 /\ batch = [k \in Keys |-> "NONE"]
      /\ raws = {} /\ snapshots = {} /\ processed = {} /\ approved = {}
      /\ runs = [c \in CallIds |-> "NONE"]
  BY DEF Init
<1> HIDE DEF Init
<1> QED
  BY <1>4, <1>5, <1>6, ImportsAssumption DEF TypeOK, Status, RunStatus

\* One step, whatever it is, keeps the types.
LEMMA TypeStep ==
  ASSUME TypeOK, StepsOfConfirm, SnapshotsOfConfirms, [Next]_vars
  PROVE  TypeOK'
<1>1. ASSUME NEW f \in Forms, Page(f)
      PROVE  TypeOK'
  <2>1. ASSUME NEW content \in Contents, NEW mode \in Modes, ClickPreview(f, content, mode)
        PROVE  TypeOK'
    <3>1. [content |-> content, mode |-> mode] \in Keys
      BY DEF Keys
    <3>2. Post(f, "preview", [content |-> content, mode |-> mode])
      BY <2>1 DEF ClickPreview
    <3>3. form' \in [Forms -> FormState]
      BY <2>1 DEF ClickPreview, TypeOK, FormState
    <3> QED
      BY <2>1, <3>1, <3>2, <3>3, PostFacts DEF ClickPreview, Post, TypeOK, tables
  <2>2. ASSUME ClickConfirm(f)
        PROVE  TypeOK'
    <3>1. form[f].batch \in Keys
      BY <2>2 DEF ClickConfirm, ConfirmShown, TypeOK, FormState
    <3>2. Post(f, "confirm", form[f].batch)
      BY <2>2 DEF ClickConfirm, ConfirmShown
    <3>3. form' \in [Forms -> FormState]
      BY <2>2 DEF ClickConfirm, ConfirmShown, TypeOK, FormState
    <3> QED
      BY <2>2, <3>1, <3>2, <3>3, PostFacts
         DEF ClickConfirm, ConfirmShown, Post, TypeOK, tables
  <2> QED
    BY <1>1, <2>1, <2>2 DEF Page
<1>2. ASSUME NEW c \in CallIds, Handler(c)
      PROVE  TypeOK'
  <2>1. CASE Refuse(c)
    BY <2>1, AnswerFacts DEF Refuse, TypeOK, tables
  <2>2. CASE Preview(c)
    <3>1. call' \in [CallIds -> CallState]
      BY <2>2, AnswerFacts, GotoFacts DEF Preview, TypeOK, CallState, Steps
    <3> QED
      BY <2>2, <3>1 DEF Preview, TypeOK, tables
  <2>3. CASE InsertBatch(c)
    <3>1. call[c].key \in Keys
      BY DEF TypeOK, CallState
    <3>2. call' \in [CallIds -> CallState]
      BY <2>3, <3>1, AnswerFacts DEF InsertBatch, TypeOK, Status
    <3>3. batch' \in [Keys -> Status]
      BY <2>3, <3>1 DEF InsertBatch, TypeOK, Status
    <3> QED
      BY <2>3, <3>2, <3>3 DEF InsertBatch, TypeOK
  <2>4. CASE Confirm(c)
    <3>1. call' \in [CallIds -> CallState]
      BY <2>4, AnswerFacts, GotoFacts DEF Confirm, TypeOK, CallState, Steps
    <3> QED
      BY <2>4, <3>1 DEF Confirm, TypeOK, tables
  <2>5. CASE SelectRaw(c)
    BY <2>5, GotoFacts DEF SelectRaw, TypeOK, Steps, tables
  <2>6. CASE InsertRaw(c)
    <3>1. call[c].key.content \in Lists
      BY <2>6 DEF InsertRaw, StepsOfConfirm, ListSteps, IsList
    <3>2. call' \in [CallIds -> CallState]
      BY <2>6, AnswerFacts, GotoFacts DEF InsertRaw, TypeOK, Steps
    <3> QED
      BY <2>6, <3>1, <3>2 DEF InsertRaw, TypeOK
  <2>7. CASE SelectSnapshot(c)
    <3>1. ASSUME NEW s \in snapshots,
                 call' = [call EXCEPT ![c].at = "process", ![c].snap = s]
          PROVE  call' \in [CallIds -> CallState]
      BY <3>1, SnapFacts DEF TypeOK
    <3>2. call' \in [CallIds -> CallState]
      BY <2>7, <3>1, GotoFacts DEF SelectSnapshot, TypeOK, Steps
    <3> QED
      BY <2>7, <3>2 DEF SelectSnapshot, TypeOK, tables
  <2>8. CASE InsertSnapshot(c)
    BY <2>8, SnapFacts DEF InsertSnapshot, TypeOK
  <2>9. CASE ProcessSnapshot(c)
    <3>1. call[c].snap \in CallIds
      BY <2>9 DEF ProcessSnapshot, SnapshotsOfConfirms, TypeOK
    <3> QED
      BY <2>9, <3>1, GotoFacts DEF ProcessSnapshot, TypeOK, Steps
  <2>10. CASE SelectRun(c)
    <3>1. call' \in [CallIds -> CallState]
      BY <2>10, GotoFacts DEF SelectRun, TypeOK, Steps, AfterImport
    <3> QED
      BY <2>10, <3>1 DEF SelectRun, TypeOK, RunStatus
  <2>11. ASSUME NEW verdict \in Verdicts, ApplyImport(c, verdict)
         PROVE  TypeOK'
    <3>1. call' \in [CallIds -> CallState]
      BY <2>11, GotoFacts DEF ApplyImport, TypeOK, Steps, AfterImport
    <3> QED
      BY <2>11, <3>1 DEF ApplyImport, TypeOK, RunStatus
  <2>12. CASE FinishConfirm(c)
    <3>1. call[c].key \in Keys
      BY DEF TypeOK, CallState
    <3>2. call' \in [CallIds -> CallState]
      BY <2>12, AnswerFacts DEF FinishConfirm, TypeOK, Status, Closed
    <3> QED
      BY <2>12, <3>1, <3>2 DEF FinishConfirm, TypeOK, Status, Closed
  <2> QED
    BY <1>2, <2>1, <2>2, <2>3, <2>4, <2>5, <2>6, <2>7, <2>8, <2>9, <2>10, <2>11, <2>12
       DEF Handler
<1>3. ASSUME NEW c \in CallIds, Receive(c)
      PROVE  TypeOK'
  BY <1>3, ShowFacts, GotoFacts DEF Receive, TypeOK, Steps, tables
<1>4. ASSUME NEW c \in CallIds, Fail(c)
      PROVE  TypeOK'
  <2>1. faults' \in 0..MaxFaults
    BY <1>4, ImportsAssumption DEF Fail, TypeOK
  <2> QED
    BY <1>4, <2>1, AnswerFacts DEF Fail, TypeOK, tables
<1>5. CASE UNCHANGED vars
  BY <1>5 DEF vars, tables, TypeOK
<1> QED
  BY <1>1, <1>2, <1>3, <1>4, <1>5 DEF Next

-----------------------------------------------------------------------------
(***************************************************************************)
(* Every step of one request c, its handler's or the browser's, has the    *)
(* same shape: tables only grow, other requests are left alone, and c has  *)
(* what its next step relies on.  StepOf(c) is that shape.                 *)
(***************************************************************************)
TablesGrow(c) ==
  /\ \A k \in Keys : /\ Known(k) => batch'[k] # "NONE"
                     /\ batch[k] \in Closed => batch'[k] \in Closed
  /\ snapshots \subseteq snapshots' /\ snapshots' \subseteq snapshots \cup {c}
  /\ processed \subseteq processed' /\ processed' \subseteq snapshots'
  /\ c \in snapshots' => c \in snapshots \/ call[c].op = "confirm"
  /\ \A d \in CallIds : d # c => runs'[d] = runs[d]
  /\ runs'[c] = runs[c] \/ runs[c] = "NONE"

RequestMoves(c) ==
  /\ call[c].at # "unused"
  /\ \A d \in CallIds : d # c => call'[d] = call[d]
  /\ call'[c].op = call[c].op /\ call'[c].key = call[c].key
  /\ call'[c].at \in ListSteps => call[c].op = "confirm" /\ IsList(call[c].key)
  /\ call'[c].at = "finish" => call[c].op = "confirm"
  /\ call'[c].at \in {"sent", "import", "apply"} => runs'[c] = "NONE"
  /\ call'[c].at = "answered" /\ call'[c].answer # "error" => batch'[call[c].key] # "NONE"
  /\ call'[c].at = "answered" /\ call'[c].answer \in Closed => batch'[call[c].key] \in Closed
  /\ call'[c].at = "process" =>
       call'[c].snap \in snapshots' /\ call[call'[c].snap].key.content = call[c].key.content

PagesShow(c) ==
  \A f \in Forms :
    \/ form'[f].batch = form[f].batch /\ form'[f].status = form[f].status
    \/ /\ call[c].at = "answered" /\ call[c].answer # "error"
       /\ form'[f].batch = call[c].key /\ form'[f].status = call[c].answer

StepOf(c) ==
  /\ TablesGrow(c) /\ RequestMoves(c) /\ PagesShow(c)
  /\ UNCHANGED <<sent, approved>>

LEMMA RanMember ==
  ASSUME TypeOK
  PROVE  \A k : k \in Ran <=>
           \/ \E s \in processed : k = call[s].key
           \/ \E d \in CallIds : /\ k = call[d].key
                                /\ call[d].op = "confirm" /\ runs[d] \in Verdicts
  BY DEF Ran, Batches, TypeOK

LEMMA KeysKept ==
  ASSUME TypeOK, NEW c \in CallIds, RequestMoves(c)
  PROVE  \A d \in CallIds : call'[d].op = call[d].op /\ call'[d].key = call[d].key
  BY DEF RequestMoves

LEMMA RanGrows ==
  ASSUME IInv, TypeOK', NEW c \in CallIds, StepOf(c)
  PROVE  Ran \subseteq Ran'
<1> SUFFICES ASSUME NEW k \in Ran PROVE k \in Ran'
  OBVIOUS
<1>1. \A d \in CallIds : call'[d].op = call[d].op /\ call'[d].key = call[d].key
  BY KeysKept DEF IInv, StepOf
<1>2. \A d \in CallIds : runs[d] \in Verdicts => runs'[d] \in Verdicts
  BY DEF StepOf, TablesGrow, Verdicts
<1>3. CASE \E s \in processed : k = call[s].key
  <2>1. PICK s \in processed : k = call[s].key
    BY <1>3
  <2>2. s \in processed' /\ s \in CallIds
    BY <2>1 DEF StepOf, TablesGrow, IInv, TypeOK
  <2>3. k = call'[s].key
    BY <1>1, <2>1, <2>2
  <2> QED
    BY <2>2, <2>3 DEF Ran, Batches
<1>4. CASE \E d \in CallIds : /\ k = call[d].key
                             /\ call[d].op = "confirm" /\ runs[d] \in Verdicts
  <2>1. PICK d \in CallIds : k = call[d].key /\ call[d].op = "confirm" /\ runs[d] \in Verdicts
    BY <1>4
  <2>2. k = call'[d].key /\ call'[d].op = "confirm" /\ runs'[d] \in Verdicts
    BY <1>1, <1>2, <2>1
  <2> QED
    BY <2>2 DEF Ran, Batches
<1> QED
  BY <1>3, <1>4, RanMember DEF IInv

\* A step of that shape keeps IInv, if c has a run behind it when it needs one.
LEMMA StepKeeps ==
  ASSUME IInv, TypeOK', NEW c \in CallIds, StepOf(c),
         \/ call'[c].at = "finish"
         \/ call[c].op = "confirm" /\ runs'[c] = "DUPLICATE"
         => \E r \in Ran' : r.content = call[c].key.content
  PROVE  IInv'
<1> USE DEF StepOf
<1>1. /\ \A d \in CallIds : call'[d].op = call[d].op /\ call'[d].key = call[d].key
      /\ \A d \in CallIds : call[d].key \in Keys /\ call'[d].key \in Keys
  BY KeysKept DEF IInv, TypeOK, CallState
<1>2. Unsent'
  <2>1. c <= sent /\ sent' = sent
    BY DEF IInv, Unsent, RequestMoves, TypeOK, CallIds
  <2> QED
    BY <1>1, <2>1 DEF IInv, Unsent, TablesGrow, RequestMoves, CallIds, TypeOK
<1>3. StepsOfConfirm'
  BY <1>1 DEF IInv, StepsOfConfirm, RequestMoves, IsList
<1>4. FreshRuns'
  BY DEF IInv, FreshRuns, TablesGrow, RequestMoves
<1>5. ApprovedKnown' /\ ConfirmsApproved'
  BY <1>1 DEF IInv, TypeOK, ApprovedKnown, ConfirmsApproved, TablesGrow, Known
<1>6. \A f \in Forms : form'[f].batch \in Keys \cup {NoBatch}
  BY DEF TypeOK, FormState
<1>7. ShownKnown'
  <2>1. \A d \in CallIds : call'[d].at = "answered" /\ call'[d].answer # "error" =>
          batch'[call'[d].key] # "NONE"
    BY <1>1 DEF IInv, ShownKnown, Known, TablesGrow, RequestMoves
  <2>2. ASSUME NEW f \in Forms, form'[f].batch # NoBatch
        PROVE  batch'[form'[f].batch] # "NONE"
    <3>1. CASE form'[f].batch = form[f].batch
      BY <2>2, <3>1, <1>6 DEF IInv, ShownKnown, Known, TablesGrow
    <3>2. CASE /\ call[c].at = "answered" /\ call[c].answer # "error"
               /\ form'[f].batch = call[c].key
      BY <3>2, <1>1 DEF IInv, ShownKnown, Known, TablesGrow
    <3> QED
      BY <3>1, <3>2 DEF PagesShow
  <2> QED
    BY <2>1, <2>2 DEF ShownKnown, Known
<1>8. ShownClosed'
  <2>1. \A d \in CallIds : call'[d].at = "answered" /\ call'[d].answer \in Closed =>
          batch'[call'[d].key] \in Closed
    BY <1>1 DEF IInv, ShownClosed, TablesGrow, RequestMoves
  <2>2. ASSUME NEW f \in Forms, form'[f].status \in Closed
        PROVE  form'[f].batch # NoBatch /\ batch'[form'[f].batch] \in Closed
    <3>1. CASE form'[f].batch = form[f].batch /\ form'[f].status = form[f].status
      BY <2>2, <3>1, <1>6 DEF IInv, ShownClosed, TablesGrow
    <3>2. CASE /\ call[c].at = "answered" /\ call[c].answer # "error"
               /\ form'[f].batch = call[c].key /\ form'[f].status = call[c].answer
      BY <2>2, <3>2, <1>1, ImportsAssumption DEF IInv, ShownClosed, TablesGrow
    <3> QED
      BY <3>1, <3>2 DEF PagesShow
  <2> QED
    BY <2>1, <2>2 DEF ShownClosed
<1>9. SnapshotsOfConfirms'
  <2>1. processed' \subseteq snapshots' /\ \A s \in snapshots' : call'[s].op = "confirm"
    BY <1>1 DEF IInv, SnapshotsOfConfirms, TablesGrow, TypeOK
  <2>2. ASSUME NEW d \in CallIds, call'[d].at = "process"
        PROVE  /\ call'[d].snap \in snapshots'
               /\ call'[call'[d].snap].key.content = call'[d].key.content
    <3>1. call'[d].snap \in snapshots' /\ call[call'[d].snap].key.content = call[d].key.content
      BY <2>2 DEF IInv, SnapshotsOfConfirms, SameContent, TablesGrow, RequestMoves
    <3>2. call'[d].snap \in CallIds
      BY <3>1 DEF TypeOK
    <3> QED
      BY <3>1, <3>2, <1>1
  <2> QED
    BY <2>1, <2>2 DEF SnapshotsOfConfirms, SameContent
<1>10. Backed'
  <2> SUFFICES ASSUME NEW d \in CallIds,
                      \/ call'[d].at = "finish"
                      \/ call'[d].op = "confirm" /\ runs'[d] = "DUPLICATE"
               PROVE  \E r \in Ran' : r.content = call'[d].key.content
    BY DEF Backed, RanContent
  <2>1. CASE d = c
    BY <2>1, <1>1
  <2>2. CASE d # c
    BY <2>2, <1>1, RanGrows DEF IInv, Backed, RanContent, TablesGrow, RequestMoves
  <2> QED
    BY <2>1, <2>2
<1> QED
  BY <1>2, <1>3, <1>4, <1>5, <1>7, <1>8, <1>9, <1>10 DEF IInv

-----------------------------------------------------------------------------
LEMMA InvInit == Init => IInv
<1> SUFFICES ASSUME Init PROVE IInv
  OBVIOUS
<1>1. TypeOK
  BY TypeInit
<1>2. \A c \in CallIds : call[c].at = "unused" /\ call[c].op = "preview" /\ runs[c] = "NONE"
  BY DEF Init
<1>3. snapshots = {} /\ processed = {} /\ approved = {}
  BY DEF Init
<1>4. \A f \in Forms : form[f].batch = NoBatch /\ form[f].status = "NONE"
  BY DEF Init
<1> HIDE DEF Init
<1> QED
  BY <1>1, <1>2, <1>3, <1>4
     DEF IInv, Unsent, StepsOfConfirm, ListSteps, FreshRuns, ApprovedKnown,
         ConfirmsApproved, ShownKnown, ShownClosed, Closed, SnapshotsOfConfirms, Backed

\* A click opens a request; a confirm approves the batch on display.
LEMMA ClickKeeps ==
  ASSUME IInv, TypeOK', NEW f \in Forms, NEW op \in {"preview", "confirm"}, NEW key \in Keys,
         Post(f, op, key),
         \A g \in Forms : form'[g].batch = form[g].batch /\ form'[g].status = form[g].status,
         approved \subseteq approved',
         \A k \in approved' : Known(k),
         op = "confirm" => key \in approved'
  PROVE  IInv' /\ Ran' = Ran
<1> DEFINE n == sent + 1
<1>1. /\ n \in CallIds /\ sent' = n
      /\ \A d \in CallIds : d # n => call'[d] = call[d]
      /\ call'[n].at = "sent" /\ call'[n].op = op /\ call'[n].key = key
      /\ call'[n].snap = 0 /\ call'[n].answer = "NONE"
  <2>1. TypeOK
    BY DEF IInv
  <2>2. /\ n \in CallIds /\ sent' = n
        /\ \A d \in CallIds : d # n => call'[d] = call[d]
        /\ call'[n] = [op |-> op, form |-> f, key |-> key, at |-> "sent",
                       snap |-> 0, answer |-> "NONE"]
    BY <2>1, PostFacts
  <2> HIDE DEF n
  <2> QED
    BY <2>2
<1>2. /\ batch' = batch /\ snapshots' = snapshots /\ processed' = processed /\ runs' = runs
  BY DEF Post, tables
<1>3. /\ call[n].op = "preview" /\ n \notin snapshots /\ runs[n] = "NONE"
  BY <1>1 DEF IInv, Unsent, TypeOK, CallIds
<1>4. snapshots \subseteq CallIds /\ processed \subseteq snapshots
  BY DEF IInv, TypeOK, SnapshotsOfConfirms
<1>5. Ran' = Ran
  <2>1. \A s \in processed : call'[s].key = call[s].key
    BY <1>1, <1>3, <1>4
  <2>2. \A d \in CallIds : runs[d] \in Verdicts =>
          call'[d].key = call[d].key /\ call'[d].op = call[d].op
    BY <1>1, <1>3 DEF Verdicts
  <2>3. Batches(processed)' = Batches(processed)
    BY <1>2, <2>1 DEF Batches
  <2>4. {d \in CallIds : call'[d].op = "confirm" /\ runs'[d] \in Verdicts}
          = {d \in CallIds : call[d].op = "confirm" /\ runs[d] \in Verdicts}
    BY <1>2, <2>2
  <2> DEFINE D == {d \in CallIds : call[d].op = "confirm" /\ runs[d] \in Verdicts}
  <2>5. {call'[d].key : d \in D} = {call[d].key : d \in D}
    BY <2>2
  <2> QED
    BY <2>3, <2>4, <2>5 DEF Ran, Batches
<1> HIDE DEF n
<1>6. Unsent'
  <2>1. \A c \in CallIds : c > n => c > sent /\ c # n
    BY DEF n, CallIds, IInv, TypeOK
  <2> QED
    BY <1>1, <1>2, <2>1 DEF IInv, Unsent
<1>7. StepsOfConfirm' /\ FreshRuns'
  BY <1>1, <1>2, <1>3 DEF IInv, StepsOfConfirm, ListSteps, FreshRuns, IsList
<1>8. ApprovedKnown' /\ ConfirmsApproved'
  BY <1>1, <1>2 DEF IInv, ApprovedKnown, ConfirmsApproved, Known
<1>9. ShownKnown' /\ ShownClosed'
  BY <1>1, <1>2 DEF IInv, ShownKnown, ShownClosed, Known
<1>10. SnapshotsOfConfirms'
  <2>1. \A d \in CallIds : call'[d].at = "process" => d # n
    BY <1>1
  <2>2. \A s \in snapshots : s \in CallIds /\ s # n
    BY <1>3, <1>4
  <2> QED
    BY <1>1, <1>2, <2>1, <2>2 DEF IInv, SnapshotsOfConfirms, SameContent
<1>11. Backed'
  BY <1>1, <1>2, <1>3, <1>5 DEF IInv, Backed, RanContent
<1> QED
  BY <1>5, <1>6, <1>7, <1>8, <1>9, <1>10, <1>11 DEF IInv

-----------------------------------------------------------------------------
\* The steps a page or a request takes, each one a step of the ledger or none.
RunsOnlyApproved == \A k \in Ran : k \in approved

LEMMA RanApproved == IInv => RunsOnlyApproved
<1> SUFFICES ASSUME IInv, NEW k \in Ran PROVE k \in approved
  BY DEF RunsOnlyApproved
<1>1. CASE \E s \in processed : k = call[s].key
  BY <1>1 DEF IInv, SnapshotsOfConfirms, ConfirmsApproved, TypeOK
<1>2. CASE \E d \in CallIds : /\ k = call[d].key
                             /\ call[d].op = "confirm" /\ runs[d] \in Verdicts
  BY <1>2 DEF IInv, ConfirmsApproved
<1> QED
  BY <1>1, <1>2, RanMember DEF IInv

\* A step that leaves every table alone.
LEMMA QuietKeeps ==
  ASSUME IInv, TypeOK', NEW c \in CallIds, RequestMoves(c), PagesShow(c),
         UNCHANGED <<tables, sent, approved>>,
         call'[c].at = "finish" => RanContent(call[c].key)
  PROVE  IInv' /\ Ran' = Ran
<1>1. TablesGrow(c)
  BY DEF TablesGrow, tables, Known, IInv, SnapshotsOfConfirms
<1>2. StepOf(c)
  BY <1>1 DEF StepOf
<1>3. \A d \in CallIds : call'[d].op = call[d].op /\ call'[d].key = call[d].key
  BY KeysKept DEF IInv
<1>4. Ran' = Ran
  <2>1. processed' = processed /\ runs' = runs /\ processed \subseteq CallIds
    BY DEF tables, IInv, TypeOK
  <2>2. Batches(processed)' = Batches(processed)
    BY <1>3, <2>1 DEF Batches
  <2> DEFINE D == {d \in CallIds : call[d].op = "confirm" /\ runs[d] \in Verdicts}
  <2>3. D' = D
    BY <1>3, <2>1
  <2>4. Batches(D)' = Batches(D)
    BY <1>3, <2>3 DEF Batches
  <2> QED
    BY <2>2, <2>4 DEF Ran
<1>5. call[c].op = "confirm" /\ runs'[c] = "DUPLICATE" => RanContent(call[c].key)
  BY DEF tables, IInv, Backed
<1>6. IInv'
  BY <1>2, <1>4, <1>5, StepKeeps DEF RanContent
<1> QED
  BY <1>4, <1>6

\* The ledger variables the refinement computes.
Previewed == {k \in Keys : batch[k] # "NONE"}
ClosedKeys == {k \in Keys : batch[k] \in Closed}

LedgerStep ==
  Ledger!Next \/ UNCHANGED <<Previewed, approved, Ran, ClosedKeys>>

Step == IInv' /\ LedgerStep

LEMMA LedgerActions ==
  ASSUME NEW b \in Keys,
         \/ Previewed' = Previewed \cup {b} /\ UNCHANGED <<approved, Ran, ClosedKeys>>
         \/ /\ b \in Previewed /\ approved' = approved \cup {b}
            /\ UNCHANGED <<Previewed, Ran, ClosedKeys>>
         \/ /\ b \in approved /\ Ran' = Ran \cup {b}
            /\ UNCHANGED <<Previewed, approved, ClosedKeys>>
         \/ /\ b \in approved /\ RanContent(b) /\ ClosedKeys' = ClosedKeys \cup {b}
            /\ UNCHANGED <<Previewed, approved, Ran>>
  PROVE  LedgerStep
<1>1. Ledger!Preview(b) \/ Ledger!Approve(b) \/ Ledger!Run(b) \/ Ledger!Close(b)
  BY DEF Ledger!Preview, Ledger!Approve, Ledger!Run, Ledger!Close, Previewed, ClosedKeys, RanContent
<1>2. Ledger!Next
  BY <1>1 DEF Ledger!Next
<1> QED
  BY <1>2 DEF LedgerStep

LEMMA QuietSteps ==
  ASSUME IInv, TypeOK', NEW c \in CallIds, UNCHANGED <<sent, tables, approved>>,
         \/ Refuse(c) \/ Preview(c) \/ Confirm(c) \/ SelectRaw(c) \/ SelectSnapshot(c)
         \/ Receive(c) \/ Fail(c)
  PROVE  Step
<1> SUFFICES /\ RequestMoves(c) /\ PagesShow(c)
             /\ call'[c].at = "finish" => RanContent(call[c].key)
  <2> SUFFICES IInv' /\ Ran' = Ran
    BY DEF Step, LedgerStep, Previewed, ClosedKeys, tables
  <2> QED
    BY QuietKeeps
<1>1. TypeOK /\ call \in [CallIds -> CallState] /\ batch' = batch /\ runs' = runs
      /\ snapshots' = snapshots
  BY DEF IInv, TypeOK, tables
<1>2. /\ call[c].op \in {"preview", "confirm"} /\ call[c].key \in Keys
      /\ batch[call[c].key] \in Status
  BY <1>1 DEF TypeOK, CallState
<1>3. call[c].at = "sent" => runs[c] = "NONE"
  BY DEF IInv, FreshRuns
<1>4. ASSUME form' = form PROVE PagesShow(c)
  BY <1>4 DEF PagesShow
<1>5. CASE Refuse(c) \/ Fail(c)
  <2>1. Answer(c, "error") /\ form' = form /\ call[c].at # "unused"
    BY <1>5 DEF Refuse, Fail
  <2>2. RequestMoves(c)
    BY <1>1, <2>1, AnswerFacts DEF RequestMoves, Same, ListSteps, Closed
  <2> QED
    BY <1>1, <1>4, <2>1, <2>2, AnswerFacts DEF Same
<1>6. CASE Preview(c)
  <2>1. CASE batch[call[c].key] # "NONE" /\ Answer(c, batch[call[c].key])
    BY <1>1, <1>2, <1>4, <1>6, <2>1, AnswerFacts DEF Preview, RequestMoves, Same, ListSteps
  <2>2. CASE Goto(c, "insert") \/ Goto(c, "import")
    BY <1>1, <1>3, <1>4, <1>6, <2>2, GotoFacts DEF Preview, RequestMoves, Same, ListSteps, Steps
  <2> QED
    BY <1>6, <2>1, <2>2 DEF Preview
<1>7. CASE Confirm(c)
  <2>1. CASE batch[call[c].key] \in Closed /\ Answer(c, batch[call[c].key])
    BY <1>1, <1>2, <1>4, <1>7, <2>1, AnswerFacts DEF Confirm, RequestMoves, Same, ListSteps, Closed
  <2>2. CASE Goto(c, IF IsList(call[c].key) THEN "raw" ELSE "import")
    BY <1>1, <1>3, <1>4, <1>7, <2>2, GotoFacts DEF Confirm, RequestMoves, Same, ListSteps, Steps
  <2> QED
    BY <1>7, <2>1, <2>2 DEF Confirm
<1>8. CASE SelectRaw(c)
  <2>1. call[c].op = "confirm" /\ IsList(call[c].key)
    BY <1>8 DEF SelectRaw, IInv, StepsOfConfirm, ListSteps
  <2> QED
    BY <1>1, <1>4, <1>8, <2>1, GotoFacts DEF SelectRaw, RequestMoves, Same, ListSteps, Steps
<1>9. CASE SelectSnapshot(c)
  <2>1. call[c].op = "confirm" /\ IsList(call[c].key)
    BY <1>9 DEF SelectSnapshot, IInv, StepsOfConfirm, ListSteps
  <2>2. CASE Goto(c, "snapshotInsert")
    BY <1>1, <1>4, <1>9, <2>1, <2>2, GotoFacts DEF SelectSnapshot, RequestMoves, Same, ListSteps, Steps
  <2>3. ASSUME NEW s \in snapshots, call[s].key.content = call[c].key.content,
               call' = [call EXCEPT ![c].at = "process", ![c].snap = s]
        PROVE  /\ RequestMoves(c) /\ PagesShow(c)
               /\ call'[c].at = "finish" => RanContent(call[c].key)
    <3>1. s \in CallIds
      BY <1>1 DEF TypeOK
    <3>2. call[c].at = "snapshot" /\ form' = form
      BY <1>9 DEF SelectSnapshot
    <3>3. /\ \A d \in CallIds : d # c => call'[d] = call[d]
          /\ Same(c) /\ call'[c].at = "process" /\ call'[c].snap = s
      BY <1>1, <2>3, <3>1, SnapFacts
    <3>4. RequestMoves(c)
      BY <1>1, <2>1, <2>3, <3>2, <3>3 DEF RequestMoves, Same, ListSteps
    <3> QED
      BY <1>4, <3>2, <3>3, <3>4
  <2> QED
    BY <1>9, <2>2, <2>3 DEF SelectSnapshot
<1>10. CASE Receive(c)
  <2>1. PagesShow(c)
    BY <1>1, <1>10, ShowFacts DEF Receive, PagesShow
  <2> QED
    BY <1>1, <1>10, <2>1, GotoFacts DEF Receive, RequestMoves, Same, ListSteps, Steps
<1> QED
  BY <1>5, <1>6, <1>7, <1>8, <1>9, <1>10

\* Handler steps that write: pages, sent and approved stay.
LEMMA WriteSteps ==
  ASSUME IInv, TypeOK', NEW c \in CallIds, UNCHANGED <<form, sent, approved>>,
         \/ InsertBatch(c) \/ InsertRaw(c) \/ InsertSnapshot(c) \/ ProcessSnapshot(c)
         \/ SelectRun(c) \/ (\E verdict \in Verdicts : ApplyImport(c, verdict))
         \/ FinishConfirm(c)
  PROVE  Step
<1> DEFINE k == call[c].key
<1>1. /\ TypeOK /\ call \in [CallIds -> CallState] /\ k \in Keys
      /\ call[c].op \in {"preview", "confirm"}
      /\ batch \in [Keys -> Status] /\ batch' \in [Keys -> Status]
      /\ runs \in [CallIds -> RunStatus] /\ processed \subseteq snapshots
      /\ snapshots \subseteq CallIds /\ PagesShow(c)
  BY DEF IInv, TypeOK, CallState, SnapshotsOfConfirms, PagesShow
<1>2. ASSUME batch' = batch, RequestMoves(c), TablesGrow(c), Ran' = Ran,
             \/ call'[c].at = "finish"
             \/ call[c].op = "confirm" /\ runs'[c] = "DUPLICATE"
             => RanContent(k)
      PROVE  Step
  <2>1. IInv'
    BY <1>1, <1>2, StepKeeps DEF StepOf, RanContent
  <2> QED
    BY <1>2, <2>1 DEF Step, LedgerStep, Previewed, ClosedKeys
<1>3. ASSUME UNCHANGED <<processed, runs>>, RequestMoves(c)
      PROVE  Ran' = Ran
  <2>1. \A d \in CallIds : call'[d].op = call[d].op /\ call'[d].key = call[d].key
    BY <1>1, <1>3, KeysKept
  <2>2. Batches(processed)' = Batches(processed)
    BY <1>1, <1>3, <2>1 DEF Batches
  <2> DEFINE D == {d \in CallIds : call[d].op = "confirm" /\ runs[d] \in Verdicts}
  <2>3. D' = D
    BY <1>3, <2>1
  <2>4. Batches(D)' = Batches(D)
    BY <2>1, <2>3 DEF Batches
  <2> QED
    BY <2>2, <2>4 DEF Ran
<1>4. call[c].op = "confirm" /\ runs[c] = "DUPLICATE" => RanContent(k)
  BY DEF IInv, Backed
<1>5. CASE InsertRaw(c)
  <2>1. UNCHANGED <<batch, snapshots, processed, runs>> /\ call[c].at = "rawInsert"
    BY <1>5 DEF InsertRaw
  <2>2. call[c].op = "confirm" /\ IsList(k)
    BY <2>1 DEF IInv, StepsOfConfirm, ListSteps
  <2>3. TablesGrow(c)
    BY <1>1, <2>1 DEF TablesGrow, Known
  <2>4. Answer(c, "error") \/ Goto(c, "snapshot")
    BY <1>5 DEF InsertRaw
  <2>5. RequestMoves(c) /\ call'[c].at # "finish"
    BY <1>1, <2>1, <2>2, <2>4, AnswerFacts, GotoFacts
       DEF RequestMoves, Same, ListSteps, Steps, Closed
  <2> QED
    BY <1>2, <1>3, <1>4, <2>1, <2>3, <2>5
<1>6. CASE InsertSnapshot(c)
  <2>1. /\ UNCHANGED <<batch, processed, runs>> /\ call[c].at = "snapshotInsert"
        /\ snapshots' = snapshots \cup {c}
    BY <1>6 DEF InsertSnapshot
  <2>2. call[c].op = "confirm" /\ IsList(k)
    BY <2>1 DEF IInv, StepsOfConfirm, ListSteps
  <2>3. TablesGrow(c)
    BY <1>1, <2>1, <2>2 DEF TablesGrow, Known
  <2>4. /\ \A d \in CallIds : d # c => call'[d] = call[d]
        /\ Same(c) /\ call'[c].at = "process" /\ call'[c].snap = c
    BY <1>1, <1>6, SnapFacts DEF InsertSnapshot
  <2>5. RequestMoves(c) /\ call'[c].at # "finish"
    BY <1>1, <2>1, <2>2, <2>4 DEF RequestMoves, Same, ListSteps
  <2> QED
    BY <1>2, <1>3, <1>4, <2>1, <2>3, <2>5
<1>7. CASE SelectRun(c)
  <2>1. /\ UNCHANGED <<batch, snapshots, processed>> /\ call[c].at = "import" /\ runs[c] = "NONE"
    BY <1>7 DEF SelectRun, IInv, FreshRuns
  <2>2. runs' = runs \/ runs' = [runs EXCEPT ![c] = "DUPLICATE"]
    BY <1>7 DEF SelectRun
  <2>3. TablesGrow(c)
    BY <1>1, <2>1, <2>2 DEF TablesGrow, Known
  <2>4. \/ /\ ImportedBefore(c) /\ runs' = [runs EXCEPT ![c] = "DUPLICATE"]
           /\ Goto(c, AfterImport(c))
        \/ runs' = runs /\ Goto(c, "apply")
    BY <1>7 DEF SelectRun
  <2>5. AfterImport(c) = IF call[c].op = "preview" THEN "insert" ELSE "finish"
    BY DEF AfterImport, Dry
  <2>6. RequestMoves(c)
    BY <1>1, <2>1, <2>4, <2>5, GotoFacts DEF RequestMoves, Same, ListSteps, Steps
  <2>7. Ran' = Ran
    <3>1. \A d \in CallIds : call'[d].op = call[d].op /\ call'[d].key = call[d].key
      BY <1>1, <2>6, KeysKept
    <3>2. Batches(processed)' = Batches(processed)
      BY <1>1, <2>1, <3>1 DEF Batches
    <3> DEFINE D == {d \in CallIds : call[d].op = "confirm" /\ runs[d] \in Verdicts}
    <3>3. D' = D
      BY <1>1, <2>1, <2>2, <3>1 DEF Verdicts
    <3>4. Batches(D)' = Batches(D)
      BY <3>1, <3>3 DEF Batches
    <3> QED
      BY <3>2, <3>4 DEF Ran
  <2>8. call[c].op = "confirm" /\ ImportedBefore(c) => RanContent(k)
    <3> SUFFICES ASSUME call[c].op = "confirm", ImportedBefore(c) PROVE RanContent(k)
      OBVIOUS
    <3>1. PICK d \in CallIds : /\ call[d].key.content = k.content
                              /\ call[d].op = "confirm"
                              /\ runs[d] \notin {"NONE", "FAILED"}
      BY <1>1 DEF ImportedBefore, Dry, CallState
    <3>2. CASE runs[d] = "DUPLICATE"
      BY <3>1, <3>2 DEF IInv, Backed, RanContent
    <3>3. CASE runs[d] \in Verdicts
      BY <3>1, <3>3, <1>1, RanMember DEF RanContent
    <3> QED
      BY <1>1, <3>1, <3>2, <3>3 DEF RunStatus
  <2>9. \/ call'[c].at = "finish"
        \/ call[c].op = "confirm" /\ runs'[c] = "DUPLICATE"
        => RanContent(k)
    BY <1>1, <2>1, <2>4, <2>5, <2>8, GotoFacts DEF Steps
  <2> QED
    BY <1>2, <2>1, <2>3, <2>6, <2>7, <2>9
<1>8. CASE InsertBatch(c)
  <2>1. /\ UNCHANGED <<snapshots, processed, runs>> /\ call[c].at = "insert"
    BY <1>8 DEF InsertBatch
  <2>2. CASE /\ batch[k] = "NONE" /\ batch' = [batch EXCEPT ![k] = "PREVIEWED"]
             /\ Answer(c, "PREVIEWED")
    <3>1. TablesGrow(c)
      BY <1>1, <2>1, <2>2 DEF TablesGrow, Known, Closed
    <3>2. RequestMoves(c) /\ call'[c].at # "finish"
      BY <1>1, <2>1, <2>2, AnswerFacts DEF RequestMoves, Same, ListSteps, Closed, Status
    <3>3. Ran' = Ran
      BY <1>3, <2>1, <3>2
    <3>4. IInv'
      BY <1>1, <1>4, <2>1, <3>1, <3>2, <3>3, StepKeeps DEF StepOf, RanContent
    <3>5. Previewed' = Previewed \cup {k} /\ UNCHANGED <<approved, Ran, ClosedKeys>>
      <4>1. Previewed' = Previewed \cup {k}
        BY <1>1, <2>2 DEF Previewed
      <4>2. ClosedKeys' = ClosedKeys
        BY <1>1, <2>2 DEF ClosedKeys, Closed
      <4> QED
        BY <3>3, <4>1, <4>2
    <3> QED
      BY <1>1, <3>4, <3>5, LedgerActions DEF Step
  <2>3. CASE /\ batch[k] # "NONE" /\ batch' = batch
             /\ Answer(c, IF IsList(k) THEN batch[k] ELSE "error")
    <3>1. TablesGrow(c)
      BY <1>1, <2>1, <2>3 DEF TablesGrow, Known
    <3>2. RequestMoves(c) /\ call'[c].at # "finish"
      BY <1>1, <2>1, <2>3, AnswerFacts DEF RequestMoves, Same, ListSteps, Closed
    <3> QED
      BY <1>2, <1>3, <1>4, <2>1, <2>3, <3>1, <3>2
  <2> QED
    BY <1>8, <2>2, <2>3 DEF InsertBatch
<1>9. CASE ProcessSnapshot(c)
  <2>1. /\ UNCHANGED <<batch, snapshots, runs>> /\ call[c].at = "process"
        /\ processed' = processed \cup {call[c].snap} /\ Goto(c, "finish")
    BY <1>9 DEF ProcessSnapshot
  <2>2. /\ call[c].snap \in snapshots /\ call[call[c].snap].key.content = k.content
        /\ call[call[c].snap].op = "confirm" /\ call[c].op = "confirm"
    BY <2>1 DEF IInv, SnapshotsOfConfirms, SameContent, StepsOfConfirm, ListSteps
  <2>3. TablesGrow(c)
    BY <1>1, <2>1, <2>2 DEF TablesGrow, Known
  <2>4. RequestMoves(c)
    BY <1>1, <2>1, <2>2, GotoFacts DEF RequestMoves, Same, ListSteps, Steps
  <2> DEFINE r == call[call[c].snap].key
  <2>5. \A d \in CallIds : call'[d].op = call[d].op /\ call'[d].key = call[d].key
    BY <1>1, <2>4, KeysKept
  <2>6. Ran' = Ran \cup {r}
    <3>1. Batches(processed)' = Batches(processed) \cup {r}
      BY <1>1, <2>1, <2>2, <2>5 DEF Batches
    <3> DEFINE D == {d \in CallIds : call[d].op = "confirm" /\ runs[d] \in Verdicts}
    <3>2. D' = D
      BY <2>1, <2>5
    <3>3. Batches(D)' = Batches(D)
      BY <2>5, <3>2 DEF Batches
    <3> QED
      BY <3>1, <3>3 DEF Ran
  <2>7. r \in approved /\ r \in Keys
    BY <1>1, <2>2 DEF IInv, ConfirmsApproved, TypeOK
  <2>8. IInv'
    BY <2>2, <2>3, <2>4, <2>6, <1>1, StepKeeps DEF StepOf
  <2>9. Ran' = Ran \cup {r} /\ UNCHANGED <<Previewed, approved, ClosedKeys>>
    BY <2>1, <2>6 DEF Previewed, ClosedKeys
  <2> QED
    BY <2>7, <2>8, <2>9, LedgerActions DEF Step
<1>10. ASSUME NEW verdict \in Verdicts, ApplyImport(c, verdict)
       PROVE  Step
  <2>1. /\ UNCHANGED <<batch, snapshots, processed>> /\ call[c].at = "apply"
        /\ runs' = [runs EXCEPT ![c] = verdict] /\ runs[c] = "NONE"
        /\ Goto(c, AfterImport(c))
    BY <1>10 DEF ApplyImport, IInv, FreshRuns
  <2>2. AfterImport(c) = IF call[c].op = "preview" THEN "insert" ELSE "finish"
    BY DEF AfterImport, Dry
  <2>3. TablesGrow(c)
    BY <1>1, <2>1 DEF TablesGrow, Known
  <2>4. RequestMoves(c)
    BY <1>1, <2>1, <2>2, GotoFacts DEF RequestMoves, Same, ListSteps, Steps
  <2>5. \A d \in CallIds : call'[d].op = call[d].op /\ call'[d].key = call[d].key
    BY <1>1, <2>4, KeysKept
  <2>6. Batches(processed)' = Batches(processed)
    BY <1>1, <2>1, <2>5 DEF Batches
  <2> DEFINE D == {d \in CallIds : call[d].op = "confirm" /\ runs[d] \in Verdicts}
  <2>7. CASE call[c].op = "preview"
    <3>1. D' = D
      BY <1>1, <2>1, <2>5, <2>7
    <3>2. Batches(D)' = Batches(D)
      BY <2>5, <3>1 DEF Batches
    <3>3. Ran' = Ran
      BY <2>6, <3>2 DEF Ran
    <3>4. call'[c].at # "finish" /\ runs'[c] # "DUPLICATE"
      BY <1>1, <2>1, <2>2, <2>7, GotoFacts DEF Steps, Verdicts
    <3> QED
      BY <1>2, <2>1, <2>3, <2>4, <3>3, <3>4
  <2>8. CASE call[c].op = "confirm"
    <3>1. D' = D \cup {c}
      BY <1>1, <2>1, <2>5, <2>8
    <3>2. Batches(D)' = Batches(D) \cup {k}
      BY <1>1, <2>5, <3>1 DEF Batches
    <3>3. Ran' = Ran \cup {k}
      BY <2>6, <3>2 DEF Ran
    <3>4. IInv'
      BY <1>1, <2>3, <2>4, <3>3, StepKeeps DEF StepOf
    <3>5. /\ k \in approved /\ Ran' = Ran \cup {k}
          /\ UNCHANGED <<Previewed, approved, ClosedKeys>>
      BY <2>1, <2>8, <3>3 DEF IInv, ConfirmsApproved, Previewed, ClosedKeys
    <3> QED
      BY <1>1, <3>4, <3>5, LedgerActions DEF Step
  <2> QED
    BY <1>1, <2>7, <2>8
<1>11. CASE FinishConfirm(c)
  <2> DEFINE outcome == IF runs[c] = "DUPLICATE" THEN "DUPLICATE" ELSE "CONFIRMED"
  <2>1. /\ UNCHANGED <<snapshots, processed, runs>> /\ call[c].at = "finish"
        /\ batch' = [batch EXCEPT ![k] = outcome] /\ Answer(c, outcome)
    BY <1>11 DEF FinishConfirm
  <2>2. outcome \in Closed /\ outcome \in Status /\ outcome # "NONE"
    BY DEF Closed, Status
  <2>3. call[c].op = "confirm" /\ RanContent(k) /\ k \in approved
    BY <2>1 DEF IInv, StepsOfConfirm, Backed, ConfirmsApproved
  <2> HIDE DEF outcome
  <2>4. TablesGrow(c)
    BY <1>1, <2>1, <2>2 DEF TablesGrow, Known
  <2>5. RequestMoves(c) /\ call'[c].at # "finish"
    BY <1>1, <2>1, <2>2, AnswerFacts DEF RequestMoves, Same, ListSteps
  <2>6. Ran' = Ran
    BY <1>3, <2>1, <2>5
  <2>7. IInv'
    BY <1>1, <1>4, <2>1, <2>4, <2>5, <2>6, StepKeeps DEF StepOf, RanContent
  <2>8. ClosedKeys' = ClosedKeys \cup {k} /\ UNCHANGED <<Previewed, approved, Ran>>
    <3>1. batch[k] # "NONE"
      BY <2>3 DEF IInv, ApprovedKnown, Known
    <3>2. Previewed' = Previewed
      BY <1>1, <2>1, <2>2, <3>1 DEF Previewed
    <3>3. ClosedKeys' = ClosedKeys \cup {k}
      BY <1>1, <2>1, <2>2 DEF ClosedKeys
    <3> QED
      BY <2>6, <3>2, <3>3
  <2> QED
    BY <1>1, <2>3, <2>7, <2>8, LedgerActions DEF Step
<1> QED
  BY <1>5, <1>6, <1>7, <1>8, <1>9, <1>10, <1>11

LEMMA PageSteps ==
  ASSUME IInv, TypeOK', NEW f \in Forms, Page(f)
  PROVE  Step
<1>1. TypeOK /\ form[f].batch \in Keys \cup {NoBatch}
  BY DEF IInv, TypeOK, FormState
<1>2. ASSUME NEW content \in Contents, NEW mode \in Modes, ClickPreview(f, content, mode)
      PROVE  Step
  <2>1. [content |-> content, mode |-> mode] \in Keys
    BY DEF Keys
  <2>2. \A g \in Forms : form'[g].batch = form[g].batch /\ form'[g].status = form[g].status
    BY <1>1, <1>2 DEF ClickPreview, TypeOK, FormState
  <2>3. /\ Post(f, "preview", [content |-> content, mode |-> mode])
        /\ approved' = approved /\ batch' = batch
    BY <1>2 DEF ClickPreview, Post, tables
  <2>4. \A k \in approved' : Known(k)
    BY <2>3 DEF IInv, ApprovedKnown
  <2>5. IInv' /\ Ran' = Ran
    BY <2>1, <2>2, <2>3, <2>4, ClickKeeps
  <2> QED
    BY <2>3, <2>5 DEF Step, LedgerStep, Previewed, ClosedKeys
<1>3. ASSUME ClickConfirm(f)
      PROVE  Step
  <2> DEFINE k == form[f].batch
  <2>1. /\ k \in Keys /\ Post(f, "confirm", k) /\ approved' = approved \cup {k}
        /\ batch' = batch /\ Known(k)
    BY <1>1, <1>3 DEF ClickConfirm, ConfirmShown, Post, tables, IInv, ShownKnown
  <2>2. \A g \in Forms : form'[g].batch = form[g].batch /\ form'[g].status = form[g].status
    BY <1>1, <1>3 DEF ClickConfirm, ConfirmShown, TypeOK, FormState
  <2>3. \A b \in approved' : Known(b)
    BY <2>1 DEF IInv, ApprovedKnown
  <2> HIDE DEF k
  <2>4. IInv' /\ Ran' = Ran
    BY <2>1, <2>2, <2>3, ClickKeeps
  <2>5. k \in Previewed /\ UNCHANGED <<Previewed, Ran, ClosedKeys>>
    BY <2>1, <2>4 DEF Previewed, ClosedKeys, Known
  <2> QED
    BY <2>1, <2>4, <2>5, LedgerActions DEF Step
<1> QED
  BY <1>2, <1>3 DEF Page

LEMMA NextSteps ==
  ASSUME IInv, [Next]_vars
  PROVE  Step
<1>1. TypeOK'
  BY TypeStep DEF IInv
<1>2. ASSUME NEW f \in Forms, Page(f) PROVE Step
  BY <1>1, <1>2, PageSteps
<1>3. ASSUME NEW c \in CallIds, Handler(c) \/ Receive(c) \/ Fail(c) PROVE Step
  <2>1. CASE Refuse(c) \/ Preview(c) \/ Confirm(c) \/ SelectRaw(c) \/ SelectSnapshot(c)
             \/ Receive(c) \/ Fail(c)
    <3>1. UNCHANGED <<sent, tables, approved>>
      BY <2>1 DEF Refuse, Preview, Confirm, SelectRaw, SelectSnapshot, Receive, Fail
    <3> QED
      BY <1>1, <2>1, <3>1, QuietSteps
  <2>2. CASE InsertBatch(c) \/ InsertRaw(c) \/ InsertSnapshot(c) \/ ProcessSnapshot(c)
             \/ SelectRun(c) \/ (\E verdict \in Verdicts : ApplyImport(c, verdict))
             \/ FinishConfirm(c)
    <3>1. UNCHANGED <<form, sent, approved>>
      BY <2>2 DEF InsertBatch, InsertRaw, InsertSnapshot, ProcessSnapshot, SelectRun,
                  ApplyImport, FinishConfirm
    <3> QED
      BY <1>1, <2>2, <3>1, WriteSteps
  <2> QED
    BY <1>3, <2>1, <2>2 DEF Handler
<1>4. ASSUME UNCHANGED vars PROVE Step
  <2>1. IInv'
    BY <1>4 DEF vars, tables, IInv, TypeOK, Unsent, StepsOfConfirm, FreshRuns, ApprovedKnown,
       ConfirmsApproved, ShownKnown, ShownClosed, SnapshotsOfConfirms, SameContent, Backed,
       RanContent, Ran, Batches, Known, IsList
  <2>2. UNCHANGED <<Previewed, approved, Ran, ClosedKeys>>
    BY <1>4 DEF vars, tables, Previewed, ClosedKeys, Ran, Batches
  <2> QED
    BY <2>1, <2>2 DEF Step, LedgerStep
<1> QED
  BY <1>2, <1>3, <1>4 DEF Next

LEMMA Invariance == Spec => []IInv
<1>1. IInv /\ [Next]_vars => IInv'
  BY NextSteps DEF Step
<1> QED
  BY InvInit, <1>1, PTL DEF Spec

-----------------------------------------------------------------------------
\* Every variable of the import pages and their handlers keeps its type.
THEOREM ImportTypes == Spec => []TypeOK
<1>1. IInv => TypeOK
  BY DEF IInv
<1> QED
  BY Invariance, <1>1, PTL

\* A page never shows as confirmed a batch that is still open in the database,
\* in whatever order the answers to its requests arrive.
THEOREM ShownClosedHolds == Spec => []ShownClosedIsClosed
<1>1. IInv => ShownClosedIsClosed
  BY DEF IInv, ShownClosed, ShownClosedIsClosed
<1> QED
  BY Invariance, <1>1, PTL

\* Preview-and-confirm: the pages and the handlers implement ImportLedger.
THEOREM LedgerImplemented == Spec => LedgerKept
<1>1. Init => Ledger!Init
  <2> SUFFICES ASSUME Init PROVE Ledger!Init
    OBVIOUS
  <2>1. \A k \in Keys : batch[k] = "NONE"
    BY DEF Init
  <2>2. processed = {} /\ approved = {} /\ \A c \in CallIds : runs[c] = "NONE"
    BY DEF Init
  <2>3. Ran = {}
    BY <2>2 DEF Ran, Batches, Verdicts
  <2> QED
    BY <2>1, <2>2, <2>3 DEF Ledger!Init, Closed
<1>2. IInv /\ [Next]_vars => LedgerStep
  BY NextSteps DEF Step
<1>3. LedgerStep => [Ledger!Next]_<<{k \in Keys : batch[k] # "NONE"}, approved, Ran,
                                    {k \in Keys : batch[k] \in Closed}>>
  BY DEF LedgerStep, Previewed, ClosedKeys
<1> QED
  BY <1>1, <1>2, <1>3, Invariance, PTL DEF Spec, LedgerKept, Ledger!Spec
=============================================================================
