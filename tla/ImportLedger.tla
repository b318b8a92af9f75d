---------------------------- MODULE ImportLedger ----------------------------
(***************************************************************************)
(* What preview-and-confirm promises of manual imports                     *)
(* (docs/data-onboarding.md): a preview changes no supplier or stock data, *)
(* the pipeline runs only for a batch an operator was shown and confirmed, *)
(* and a batch is closed only when its content has been through the        *)
(* pipeline.  Nothing is said of requests, races or rows.                  *)
(***************************************************************************)
CONSTANT Keys   \* batches, records with the content they stand for

VARIABLES
  previewed,  \* batches that exist
  approved,   \* batches confirmed by somebody who was shown them
  ran,        \* batches whose content went through the pipeline for good
  closed      \* batches marked CONFIRMED or DUPLICATE

Init == previewed = {} /\ approved = {} /\ ran = {} /\ closed = {}

Preview(k) ==
  /\ previewed' = previewed \cup {k}
  /\ UNCHANGED <<approved, ran, closed>>

Approve(k) ==
  /\ k \in previewed
  /\ approved' = approved \cup {k}
  /\ UNCHANGED <<previewed, ran, closed>>

Run(k) ==
  /\ k \in approved
  /\ ran' = ran \cup {k}
  /\ UNCHANGED <<previewed, approved, closed>>

Close(k) ==
  /\ k \in approved
  /\ \E r \in ran : r.content = k.content
  /\ closed' = closed \cup {k}
  /\ UNCHANGED <<previewed, approved, ran>>

Next == \E k \in Keys : Preview(k) \/ Approve(k) \/ Run(k) \/ Close(k)

Spec == Init /\ [][Next]_<<previewed, approved, ran, closed>>
=============================================================================
