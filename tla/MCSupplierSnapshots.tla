------------------------- MODULE MCSupplierSnapshots -------------------------
(* Small instances of SupplierSnapshots for TLC. *)
EXTENDS SupplierSnapshots, TLC

CONSTANTS s1, s2, s3, o1, o2, p1, p2, h1, h2, c1, c2, r1

List(a, b) == o1 :> a @@ o2 :> b

\* Both offers, one of them, and a list the gate rejects although it has matched
\* an offer (one valid line in two is below MinValidPercent).
Lists == {List("ok", "ok"), List("ok", "absent"), List("absent", "ok"), List("ok", "invalid")}

\* s1 and s3 are captured at the same time, s2 after them.
Captured == [s \in Snapshots |-> IF s = s2 THEN 2 ELSE 1]

Separate == [s \in Snapshots |-> s]

OneProcess == p1 :> h1
OneHost == p1 :> h1 @@ p2 :> h1
TwoHosts == p1 :> h1 @@ p2 :> h2
OnePool == h1 :> <<c1>>
TwoPools == h1 :> <<c1>> @@ h2 :> <<c2>>
SharedPool == h1 :> <<c1, c2>>
=============================================================================
