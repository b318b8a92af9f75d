-------------------------- MODULE SupplierSnapshots --------------------------
(***************************************************************************)
(* Supplier snapshots and availability: services/supplier_snapshots.py,    *)
(* with the offer upsert of services/offers.py and the database session.   *)
(*                                                                         *)
(* A snapshot is one price list of a supplier.  Processing it is a         *)
(* sequence of transactions of one session: take the advisory lock of the  *)
(* snapshot id and commit PROCESSING, parse, match line by line (each line *)
(* commits an offer upsert), then read the supplier's offers, decide their *)
(* availability and commit, then summarize and unlock.  An exception       *)
(* anywhere in between, the summary included, rolls back and commits       *)
(* FAILED.  Every commit returns the session's connection to the FIFO pool *)
(* of its host, and the next transaction takes the one at the head; an     *)
(* advisory lock belongs to the connection that took it, and is re-entrant *)
(* on it.                                                                  *)
(*                                                                         *)
(* One supplier: snapshots of different suppliers share no offer.  A line  *)
(* names at most one offer.  Prices, audit rows and counters are left out. *)
(***************************************************************************)
EXTENDS Integers, FiniteSets, Sequences

CONSTANTS
  Snapshots, Offers,
  Full,             \* the snapshots of type FULL, the others are PARTIAL
  CapturedAt,       \* [Snapshots -> Nat \ {0}], captured_at
  RecordOf,         \* [Snapshots -> raw record], revisions share a record
  Contents,         \* the price lists: functions [Offers -> LineKind]
  Threshold,        \* supplier_missing_snapshots_to_out_of_stock
  MinValidPercent,  \* snapshot_min_valid_item_ratio, in percent
  Processes, Hosts,
  HostOf,           \* [Processes -> Hosts], the OS process it runs in
  IdlePool,         \* [Hosts -> connections of the pool, all idle]
  Callers,          \* who requests processing, a subset of {"api", "import"}
  ManualStatuses,   \* availabilities an API user sets by hand
  MaxFaults,        \* bound: exceptions and crashes
  NoSnapshot, NoConn

LineKind == {"absent", "ok", "review", "invalid", "conflict"}

Availability == {"IN_STOCK", "SUSPECT_MISSING", "OUT_OF_STOCK", "UNKNOWN"}

ConnectionsOf(h) == {IdlePool[h][i] : i \in 1..Len(IdlePool[h])}
Connections == UNION {ConnectionsOf(h) : h \in Hosts}

ASSUME SnapshotsAssumption ==
  /\ Full \subseteq Snapshots
  /\ CapturedAt \in [Snapshots -> Nat \ {0}]
  /\ Contents \subseteq [Offers -> LineKind]
  /\ Threshold \in Nat \ {0}
  /\ MinValidPercent \in 0..100
  /\ HostOf \in [Processes -> Hosts]
  /\ IdlePool \in [Hosts -> Seq(Connections)]
  /\ \A h \in Hosts : IdlePool[h] \in Seq(ConnectionsOf(h))
  /\ \A g, h \in Hosts : g # h => ConnectionsOf(g) \cap ConnectionsOf(h) = {}
  /\ Callers \subseteq {"api", "import"}
  /\ ManualStatuses \subseteq Availability
  /\ MaxFaults \in Nat
  /\ NoSnapshot \notin Snapshots
  /\ NoConn \notin Connections

VARIABLES
  content,  \* [Snapshots -> Contents], the parsed lines
  snap,     \* [Snapshots -> status]
  items,    \* [Snapshots -> SUBSET Offers], rows of supplier_snapshot_items
  offer,    \* [Offers -> OfferRow]
  pool,     \* [Hosts -> sequence of idle connections]
  held,     \* [Snapshots -> [conn, count]], the advisory lock of the id
  pc,       \* [Processes -> step of process_snapshot]
  cur,      \* [Processes -> Snapshots \cup {NoSnapshot}]
  conn,     \* [Processes -> Connections \cup {NoConn}], of the open transaction
  loaded,   \* [Processes -> status of cur in the session's identity map, or "no"]
  todo,     \* [Processes -> SUBSET Offers], lines not matched yet
  view,     \* [Processes -> [Offers -> OfferRow]], offers as they were read
  faults,
  applied,  \* history: times the decisions of a snapshot were committed
  retracted, \* history: times FAILED was committed over COMPLETED or REJECTED
  ledger,   \* history: decisions taken about each offer, oldest first
  manual    \* history: offers whose availability a user has set

session == <<pc, cur, conn, loaded, todo, view>>
history == <<applied, retracted, ledger, manual>>
vars == <<content, snap, items, offer, pool, held, session, faults, history>>

Processed == {"COMPLETED", "REJECTED"}
SnapshotStatus == Processed \cup {"PENDING", "PROCESSING", "FAILED"}

\* last_processed_snapshot_at is 0 for NULL; availability "NONE": no row yet.
OfferRow == [availability : Availability \cup {"NONE"}, missing : Nat, at : Nat]
NoRow == [availability |-> "NONE", missing |-> 0, at |-> 0]

Init ==
  /\ content \in [Snapshots -> Contents]
  /\ snap = [s \in Snapshots |-> "PENDING"]
  /\ items = [s \in Snapshots |-> {}]
  /\ offer = [o \in Offers |-> NoRow]
  /\ pool = IdlePool
  /\ held = [s \in Snapshots |-> [conn |-> NoConn, count |-> 0]]
  /\ pc = [p \in Processes |-> "idle"]
  /\ cur = [p \in Processes |-> NoSnapshot]
  /\ conn = [p \in Processes |-> NoConn]
  /\ loaded = [p \in Processes |-> "no"]
  /\ todo = [p \in Processes |-> {}]
  /\ view = [p \in Processes |-> [o \in Offers |-> NoRow]]
  /\ faults = 0
  /\ applied = [s \in Snapshots |-> 0]
  /\ retracted = [s \in Snapshots |-> 0]
  /\ ledger = [o \in Offers |-> <<>>]
  /\ manual = {}

(***************************************************************************)
(* The connection pool.  Transaction: a whole transaction in one step.     *)
(***************************************************************************)
CheckOut(p) ==
  /\ pool[HostOf[p]] # <<>>
  /\ conn' = [conn EXCEPT ![p] = Head(pool[HostOf[p]])]
  /\ pool' = [pool EXCEPT ![HostOf[p]] = Tail(@)]

CheckIn(p) ==
  /\ conn' = [conn EXCEPT ![p] = NoConn]
  /\ pool' = [pool EXCEPT ![HostOf[p]] = Append(@, conn[p])]

Transaction(p) ==
  /\ pool[HostOf[p]] # <<>>
  /\ pool' = [pool EXCEPT ![HostOf[p]] = Append(Tail(@), Head(@))]
  /\ UNCHANGED conn

Goto(p, step) == pc' = [pc EXCEPT ![p] = step]

EndSession(p) ==
  /\ Goto(p, "idle")
  /\ cur' = [cur EXCEPT ![p] = NoSnapshot]
  /\ loaded' = [loaded EXCEPT ![p] = "no"]
  /\ todo' = [todo EXCEPT ![p] = {}]
  /\ view' = [view EXCEPT ![p] = [o \in Offers |-> NoRow]]

(***************************************************************************)
(* quality_gate, parser_quality_counts and the availability rules.         *)
(***************************************************************************)
Lines(s) == {o \in Offers : content[s][o] # "absent"}
Listed(s) == {o \in Offers : content[s][o] = "ok"}
Priced(s) == {o \in Offers : content[s][o] \in {"ok", "review"}}

QualityGate(s) ==
  /\ Listed(s) # {}
  /\ 100 * Cardinality(Priced(s)) >= MinValidPercent * Cardinality(Lines(s))

Applies(s) == s \notin Full \/ QualityGate(s)

DecidesAnyAge(s, o, row) ==   \* mutant: captured_at is not compared
  Applies(s) /\ row.availability # "NONE" /\ (o \in Listed(s) \/ s \in Full)

\* An offer decided by a newer snapshot is left alone; an absent offer is
\* decided by a FULL snapshot only.
Decides(s, o, row) ==
  /\ Applies(s)
  /\ row.availability # "NONE"
  /\ ~(row.at # 0 /\ CapturedAt[s] < row.at)
  /\ o \in Listed(s) \/ s \in Full

SeenRow(s) == [availability |-> "IN_STOCK", missing |-> 0, at |-> CapturedAt[s]]

MissingRowLate(s, row) ==   \* mutant: > for >=
  [availability |-> IF row.missing + 1 > Threshold THEN "OUT_OF_STOCK"
                    ELSE IF row.availability \in {"IN_STOCK", "UNKNOWN"} THEN "SUSPECT_MISSING"
                    ELSE row.availability,
   missing |-> row.missing + 1,
   at |-> CapturedAt[s]]

MissingRow(s, row) ==
  [availability |-> IF row.missing + 1 >= Threshold THEN "OUT_OF_STOCK"
                    ELSE IF row.availability \in {"IN_STOCK", "UNKNOWN"} THEN "SUSPECT_MISSING"
                    ELSE row.availability,
   missing |-> row.missing + 1,
   at |-> CapturedAt[s]]

Decided(s, o, row) ==
  IF ~Decides(s, o, row) THEN row
  ELSE IF o \in Listed(s) THEN SeenRow(s)
  ELSE MissingRow(s, row)

\* The ORM updates the columns whose value differs from the one it read.
Column(read, new, stored) == IF new = read THEN stored ELSE new

Flush(read, new, row) ==
  [availability |-> Column(read.availability, new.availability, row.availability),
   missing |-> Column(read.missing, new.missing, row.missing),
   at |-> Column(read.at, new.at, row.at)]

(***************************************************************************)
(* process_snapshot                                                        *)
(***************************************************************************)
\* An import (collector, price bot, confirmed manual import) has just loaded the
\* snapshot in its session, by create_snapshot; the API request has not.
Request(p, s, caller) ==
  /\ pc[p] = "idle"
  /\ CheckOut(p)
  /\ Goto(p, "locking")
  /\ cur' = [cur EXCEPT ![p] = s]
  /\ loaded' = [loaded EXCEPT ![p] = IF caller = "import" THEN snap[s] ELSE "no"]
  /\ UNCHANGED <<content, snap, items, offer, held, todo, view, faults, history>>

\* SELECT ... FOR UPDATE does not refresh an instance the session has loaded.
StatusRead(p) == IF loaded[p] = "no" THEN snap[cur[p]] ELSE loaded[p]

Lockable(p) == held[cur[p]].conn \in {NoConn, conn[p]}

\* Already processed: read-only, locked and unlocked on the same connection.
Answer(p) ==
  /\ pc[p] = "locking"
  /\ Lockable(p)
  /\ StatusRead(p) \in Processed
  /\ CheckIn(p)
  /\ EndSession(p)
  /\ UNCHANGED <<content, snap, items, offer, held, faults, history>>

EnterAnyStatus(p) ==   \* mutant: a processed snapshot is processed again
  /\ pc[p] = "locking"
  /\ Lockable(p)
  /\ held' = [held EXCEPT ![cur[p]] = [conn |-> conn[p], count |-> @.count + 1]]
  /\ snap' = [snap EXCEPT ![cur[p]] = "PROCESSING"]
  /\ CheckIn(p)
  /\ Goto(p, "parsing")
  /\ UNCHANGED <<content, items, offer, cur, loaded, todo, view, faults, history>>

Enter(p) ==
  /\ pc[p] = "locking"
  /\ Lockable(p)
  /\ StatusRead(p) \notin Processed
  /\ held' = [held EXCEPT ![cur[p]] = [conn |-> conn[p], count |-> @.count + 1]]
  /\ snap' = [snap EXCEPT ![cur[p]] = "PROCESSING"]
  /\ CheckIn(p)
  /\ Goto(p, "parsing")
  /\ UNCHANGED <<content, items, offer, cur, loaded, todo, view, faults, history>>

\* parse_raw_record deletes the parsed lines of the raw record, and with them
\* (ON DELETE CASCADE) the items of every snapshot of that record.
Parse(p) ==
  /\ pc[p] = "parsing"
  /\ Transaction(p)
  /\ items' = [s \in Snapshots |-> IF RecordOf[s] = RecordOf[cur[p]] THEN {} ELSE items[s]]
  /\ todo' = [todo EXCEPT ![p] = Listed(cur[p])]
  /\ Goto(p, "matching")
  /\ UNCHANGED <<content, snap, offer, held, cur, loaded, view, faults, history>>

\* A matched line commits its offer, whatever the gate says of the list later.
Match(p, o) ==
  /\ pc[p] = "matching"
  /\ o \in todo[p]
  /\ Transaction(p)
  /\ todo' = [todo EXCEPT ![p] = @ \ {o}]
  /\ offer' = [offer EXCEPT ![o].availability = IF @ = "NONE" THEN "UNKNOWN" ELSE @]
  /\ UNCHANGED <<content, snap, items, held, pc, cur, loaded, view, faults, history>>

ReadOffers(p) ==
  /\ pc[p] = "matching"
  /\ todo[p] = {}
  /\ CheckOut(p)
  /\ view' = [view EXCEPT ![p] = offer]
  /\ Goto(p, "applying")
  /\ UNCHANGED <<content, snap, items, offer, held, cur, loaded, todo, faults, history>>

Apply(p) ==
  /\ pc[p] = "applying"
  /\ LET s == cur[p]
         read == view[p]
     IN /\ offer' = [o \in Offers |-> Flush(read[o], Decided(s, o, read[o]), offer[o])]
        /\ items' = [items EXCEPT ![s] = Lines(s)]
        /\ snap' = [snap EXCEPT ![s] = IF Applies(s) THEN "COMPLETED" ELSE "REJECTED"]
        /\ applied' = [applied EXCEPT ![s] = @ + 1]
        /\ ledger' = [o \in Offers |->
             IF Decides(s, o, read[o])
               THEN Append(ledger[o], [at |-> CapturedAt[s], seen |-> o \in Listed(s)])
               ELSE ledger[o]]
  /\ CheckIn(p)
  /\ Goto(p, "summarizing")
  /\ UNCHANGED <<content, held, cur, loaded, todo, view, faults, retracted, manual>>

\* The summary of a processed snapshot only reads, in the transaction of the unlock;
\* the unlock does nothing on a connection without the lock.
Unlock(p) ==
  /\ pc[p] \in {"summarizing", "unlocking"}
  /\ Transaction(p)
  /\ LET lock == held[cur[p]] IN
       held' = [held EXCEPT ![cur[p]] =
         IF lock.conn # Head(pool[HostOf[p]]) THEN lock
         ELSE [conn |-> IF lock.count = 1 THEN NoConn ELSE lock.conn,
               count |-> lock.count - 1]]
  /\ Goto(p, "idle")
  /\ cur' = [cur EXCEPT ![p] = NoSnapshot]
  /\ loaded' = [loaded EXCEPT ![p] = "no"]
  /\ view' = [view EXCEPT ![p] = [o \in Offers |-> NoRow]]
  /\ UNCHANGED <<content, snap, items, offer, todo, faults, history>>

Fault == faults < MaxFaults /\ faults' = faults + 1

FailReleasesTwice(p) ==   \* mutant: returns a connection it does not have
  /\ Fault
  /\ pc[p] \in {"parsing", "matching", "applying", "summarizing"}
  /\ CheckIn(p)
  /\ todo' = [todo EXCEPT ![p] = {}]
  /\ Goto(p, "failing")
  /\ UNCHANGED <<content, snap, items, offer, held, cur, loaded, view, history>>

\* Any exception: the open transaction is rolled back.  The decisions may have been
\* committed already: the summary is inside the try too.
Fail(p) ==
  /\ Fault
  /\ \/ pc[p] \in {"parsing", "matching", "summarizing"} /\ Transaction(p)
     \/ pc[p] = "applying" /\ CheckIn(p)
  /\ todo' = [todo EXCEPT ![p] = {}]
  /\ Goto(p, "failing")
  /\ UNCHANGED <<content, snap, items, offer, held, cur, loaded, view, history>>

\* The handler: FAILED, whatever the snapshot was, in a transaction of its own.
MarkFailed(p) ==
  /\ pc[p] = "failing"
  /\ Transaction(p)
  /\ snap' = [snap EXCEPT ![cur[p]] = "FAILED"]
  /\ retracted' = [retracted EXCEPT ![cur[p]] = IF snap[cur[p]] \in Processed THEN @ + 1 ELSE @]
  /\ Goto(p, "unlocking")
  /\ UNCHANGED <<content, items, offer, held, cur, loaded, todo, view, faults,
                 applied, ledger, manual>>

\* The OS process dies: its transactions roll back, its connections close.
Crash(h) ==
  /\ Fault
  /\ LET Dead == {p \in Processes : HostOf[p] = h}
     IN /\ \E p \in Dead : pc[p] # "idle"
        /\ pc' = [p \in Processes |-> IF p \in Dead THEN "idle" ELSE pc[p]]
        /\ cur' = [p \in Processes |-> IF p \in Dead THEN NoSnapshot ELSE cur[p]]
        /\ conn' = [p \in Processes |-> IF p \in Dead THEN NoConn ELSE conn[p]]
        /\ loaded' = [p \in Processes |-> IF p \in Dead THEN "no" ELSE loaded[p]]
        /\ todo' = [p \in Processes |-> IF p \in Dead THEN {} ELSE todo[p]]
        /\ view' = [p \in Processes |-> IF p \in Dead THEN [o \in Offers |-> NoRow] ELSE view[p]]
        /\ held' = [s \in Snapshots |->
             IF held[s].conn \in ConnectionsOf(h) THEN [conn |-> NoConn, count |-> 0] ELSE held[s]]
  /\ pool' = [pool EXCEPT ![h] = IdlePool[h]]
  /\ UNCHANGED <<content, snap, items, offer, history>>

\* POST /supplier-offers: upsert_supplier_offer with an availability.
UpsertOffer(o, status) ==
  /\ offer[o].availability # status
  /\ status = "UNKNOWN" => offer[o].availability = "NONE"
  /\ offer' = [offer EXCEPT ![o].availability = status]
  /\ manual' = manual \cup {o}
  /\ UNCHANGED <<content, snap, items, pool, held, session, faults, applied, retracted, ledger>>

Process(p) ==
  \/ \E s \in Snapshots, caller \in Callers : Request(p, s, caller)
  \/ Answer(p)
  \/ Enter(p)
  \/ Parse(p)
  \/ \E o \in Offers : Match(p, o)
  \/ ReadOffers(p)
  \/ Apply(p)
  \/ Unlock(p)
  \/ Fail(p)
  \/ MarkFailed(p)

Next ==
  \/ \E p \in Processes : Process(p)
  \/ \E h \in Hosts : Crash(h)
  \/ \E o \in Offers, status \in ManualStatuses : UpsertOffer(o, status)

Spec == Init /\ [][Next]_vars

-----------------------------------------------------------------------------
\* Types of every variable.
TypeOK ==
  /\ content \in [Snapshots -> Contents]
  /\ snap \in [Snapshots -> SnapshotStatus]
  /\ items \in [Snapshots -> SUBSET Offers]
  /\ offer \in [Offers -> OfferRow]
  /\ pool \in [Hosts -> Seq(Connections)]
  /\ held \in [Snapshots -> [conn : Connections \cup {NoConn}, count : Nat]]
  /\ pc \in [Processes -> {"idle", "locking", "parsing", "matching", "applying", "summarizing",
                         "failing", "unlocking"}]
  /\ cur \in [Processes -> Snapshots \cup {NoSnapshot}]
  /\ conn \in [Processes -> Connections \cup {NoConn}]
  /\ loaded \in [Processes -> SnapshotStatus \cup {"no"}]
  /\ todo \in [Processes -> SUBSET Offers]
  /\ view \in [Processes -> [Offers -> OfferRow]]
  /\ faults \in 0..MaxFaults
  /\ applied \in [Snapshots -> Nat]
  /\ retracted \in [Snapshots -> Nat]
  /\ manual \subseteq Offers

\* README "Older snapshots do not overwrite newer availability decisions": the
\* decisions about an offer are taken in the order the lists were captured.
LedgerOrdered ==
  \A o \in Offers : \A i \in 2..Len(ledger[o]) : ledger[o][i - 1].at <= ledger[o][i].at

\* The misses of an offer since it was last seen.
Misses(o) ==
  LET n == Len(ledger[o])
      seenAt == {i \in 1..n : ledger[o][i].seen}
  IN IF seenAt = {} THEN n ELSE n - CHOOSE i \in seenAt : \A k \in seenAt : k <= i

\* The missing count of every offer is the misses of its ledger: a user who sets an
\* availability by hand does not begin a new count.  The availability of an offer
\* that no user has touched is what its ledger says: in stock when last seen,
\* suspected from the first miss, out of stock from the Threshold-th, and unknown
\* when no snapshot has decided.
AvailabilityRecounted ==
  \A o \in Offers :
    LET row == offer[o] IN
      /\ row.missing = Misses(o)
      /\ o \notin manual =>
           IF ledger[o] = <<>> THEN row.availability \in {"NONE", "UNKNOWN"}
           ELSE row.availability = IF Misses(o) = 0 THEN "IN_STOCK"
                                   ELSE IF Misses(o) >= Threshold THEN "OUT_OF_STOCK"
                                   ELSE "SUSPECT_MISSING"

\* README "Active processing is serialized by snapshot id": the decisions of a snapshot
\* are committed once.
AppliedOnce == \A s \in Snapshots : applied[s] <= 1

\* Whatever fails, crashes and is requested again, the decisions of a snapshot are
\* committed again only after FAILED was written over the ones committed before,
\* which an exception in the summary does: COMPLETED and REJECTED are final otherwise.
\* So it is while sessions take turns; snapshots_serialized shows two that do not.
DecidedOnce == \A s \in Snapshots : applied[s] <= 1 + retracted[s]
=============================================================================
