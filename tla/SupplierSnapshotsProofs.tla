----------------------- MODULE SupplierSnapshotsProofs -----------------------
(***************************************************************************)
(* Proofs about SupplierSnapshots, for every number of snapshots, offers,  *)
(* processes, hosts, connections and faults.                               *)
(***************************************************************************)
EXTENDS SupplierSnapshots, SequenceTheorems, WellFoundedInduction, NaturalsInduction, TLAPS

\* Each pool holds connections of its own host.
Pools == \A h \in Hosts : pool[h] \in Seq(ConnectionsOf(h))

\* The steps of process_snapshot.
Steps == {"idle", "locking", "parsing", "matching", "applying", "summarizing", "failing",
          "unlocking"}

\* What a session has at each step of process_snapshot.
Sessions ==
  \A p \in Processes :
    /\ pc[p] # "idle" => cur[p] \in Snapshots
    /\ pc[p] \in {"locking", "applying"} => conn[p] \in ConnectionsOf(HostOf[p])

\* A lock that is held is held at least once.
Counted == \A s \in Snapshots : held[s].conn # NoConn => held[s].count > 0

IInv == TypeOK /\ Pools /\ Sessions /\ Counted

\* The operators of the pool keep a host's connections with the host.
LEMMA PoolOperators ==
  ASSUME NEW S, NEW q \in Seq(S)
  PROVE  /\ \A c \in S : Append(q, c) \in Seq(S)
         /\ q # <<>> => /\ Head(q) \in S
                        /\ Tail(q) \in Seq(S)
                        /\ Append(Tail(q), Head(q)) \in Seq(S)
BY HeadTailProperties, AppendProperties

\* A step that checks a connection out, in, or both.
LEMMA PoolStep ==
  ASSUME IInv, NEW p \in Processes,
         \/ CheckOut(p)
         \/ CheckIn(p) /\ pc[p] \in {"locking", "applying"}
         \/ Transaction(p)
  PROVE  /\ pool' \in [Hosts -> Seq(Connections)]
         /\ Pools'
         /\ conn' \in [Processes -> Connections \cup {NoConn}]
         /\ CheckOut(p) => conn'[p] \in ConnectionsOf(HostOf[p])
         /\ \A q \in Processes \ {p} : conn'[q] = conn[q]
<1> DEFINE h == HostOf[p]
<1>1. h \in Hosts /\ pool[h] \in Seq(ConnectionsOf(h)) /\ pool \in [Hosts -> Seq(Connections)]
  BY SnapshotsAssumption DEF IInv, Pools, TypeOK
<1>2. \A g \in Hosts : ConnectionsOf(g) \subseteq Connections
  BY DEF Connections
<1>3. pc[p] \in {"locking", "applying"} => conn[p] \in ConnectionsOf(h)
  BY DEF IInv, Sessions
<1>4. PICK q \in Seq(ConnectionsOf(h)) : pool' = [pool EXCEPT ![h] = q]
  <2>1. CASE CheckOut(p)
    BY <2>1, <1>1, PoolOperators DEF CheckOut
  <2>2. CASE CheckIn(p) /\ pc[p] \in {"locking", "applying"}
    BY <2>2, <1>1, <1>3, PoolOperators DEF CheckIn
  <2>3. CASE Transaction(p)
    BY <2>3, <1>1, PoolOperators DEF Transaction
  <2> QED
    BY <2>1, <2>2, <2>3
<1>5. q \in Seq(Connections)
  BY <1>1, <1>2
<1>6. pool' \in [Hosts -> Seq(Connections)] /\ Pools'
  BY <1>1, <1>4, <1>5 DEF IInv, Pools
<1>7. CheckOut(p) => Head(pool[h]) \in ConnectionsOf(h)
  BY <1>1, PoolOperators DEF CheckOut
<1> QED
  BY <1>1, <1>2, <1>6, <1>7 DEF CheckOut, CheckIn, Transaction, IInv, TypeOK

\* The availability rules and the flush keep offer rows well typed.
LEMMA RowTypes ==
  ASSUME IInv, NEW s \in Snapshots, NEW o \in Offers,
         NEW read \in OfferRow, NEW row \in OfferRow
  PROVE  Flush(read, Decided(s, o, read), row) \in OfferRow
BY SnapshotsAssumption DEF Flush, Column, Decided, SeenRow, MissingRow, OfferRow, Availability

\* So does an upsert of the availability column.
LEMMA RowUpdate ==
  ASSUME NEW row \in OfferRow, NEW a \in Availability \cup {"NONE"}
  PROVE  [row EXCEPT !.availability = a] \in OfferRow
BY DEF OfferRow

\* The session's first transaction opens on a connection of its own host.
LEMMA RequestStep ==
  ASSUME IInv, NEW p \in Processes, NEW s \in Snapshots, NEW caller \in Callers, Request(p, s, caller)
  PROVE  IInv'
<1> USE SnapshotsAssumption DEF IInv, session, history, Request, Goto
<1>1. pool' \in [Hosts -> Seq(Connections)] /\ Pools'
     /\ conn' \in [Processes -> Connections \cup {NoConn}]
     /\ conn'[p] \in ConnectionsOf(HostOf[p])
     /\ (\A q \in Processes \ {p} : conn'[q] = conn[q])
  BY PoolStep
<1>2. TypeOK'
  BY <1>1 DEF TypeOK, SnapshotStatus, Processed
<1>3. Sessions'
  BY <1>1 DEF Sessions, TypeOK
<1>4. Counted'
  BY DEF Counted, TypeOK
<1> QED
  BY <1>1, <1>2, <1>3, <1>4

\* A processed snapshot: the session ends where it began.
LEMMA AnswerStep ==
  ASSUME IInv, NEW p \in Processes, Answer(p)
  PROVE  IInv'
<1> USE SnapshotsAssumption DEF IInv, session, history, Answer, EndSession, Goto
<1>1. pool' \in [Hosts -> Seq(Connections)] /\ Pools'
     /\ conn' \in [Processes -> Connections \cup {NoConn}]
     /\ (\A q \in Processes \ {p} : conn'[q] = conn[q])
  BY PoolStep
<1>2. TypeOK'
  BY <1>1 DEF TypeOK, SnapshotStatus, Processed, OfferRow, NoRow
<1>3. Sessions'
  BY <1>1 DEF Sessions, TypeOK
<1>4. Counted'
  BY DEF Counted, TypeOK
<1> QED
  BY <1>1, <1>2, <1>3, <1>4

\* The lock is taken on the connection of the open transaction.
LEMMA EnterStep ==
  ASSUME IInv, NEW p \in Processes, Enter(p)
  PROVE  IInv'
<1> USE SnapshotsAssumption DEF IInv, session, history, Enter, Lockable, Goto
<1>1. pool' \in [Hosts -> Seq(Connections)] /\ Pools'
     /\ conn' \in [Processes -> Connections \cup {NoConn}]
     /\ (\A q \in Processes \ {p} : conn'[q] = conn[q])
  BY PoolStep
<1>2. cur[p] \in Snapshots /\ conn[p] \in Connections
  BY DEF Sessions, Connections
<1>3. held' \in [Snapshots -> [conn : Connections \cup {NoConn}, count : Nat]]
  BY <1>2 DEF TypeOK
<1>4. TypeOK'
  BY <1>1, <1>3 DEF TypeOK, SnapshotStatus, Processed
<1>5. Sessions'
  BY <1>1 DEF Sessions, TypeOK
<1>6. Counted'
  BY <1>2 DEF Counted, TypeOK
<1> QED
  BY <1>1, <1>4, <1>5, <1>6

\* Deleted evidence is still a set of lines.
LEMMA ParseStep ==
  ASSUME IInv, NEW p \in Processes, Parse(p)
  PROVE  IInv'
<1> USE SnapshotsAssumption DEF IInv, session, history, Parse, Goto
<1>1. pool' \in [Hosts -> Seq(Connections)] /\ Pools'
     /\ conn' \in [Processes -> Connections \cup {NoConn}]
     /\ (\A q \in Processes \ {p} : conn'[q] = conn[q])
  BY PoolStep
<1>2. TypeOK'
  BY <1>1 DEF TypeOK, SnapshotStatus, Processed, Listed
<1>3. Sessions'
  BY <1>1 DEF Sessions, TypeOK
<1>4. Counted'
  BY DEF Counted, TypeOK
<1> QED
  BY <1>1, <1>2, <1>3, <1>4

\* A line creates at most its own offer.
LEMMA MatchStep ==
  ASSUME IInv, NEW p \in Processes, NEW o \in Offers, Match(p, o)
  PROVE  IInv'
<1> USE SnapshotsAssumption DEF IInv, session, history, Match
<1>1. pool' \in [Hosts -> Seq(Connections)] /\ Pools'
     /\ conn' \in [Processes -> Connections \cup {NoConn}]
     /\ (\A q \in Processes \ {p} : conn'[q] = conn[q])
  BY PoolStep
<1>2. offer' \in [Offers -> OfferRow]
  <2> DEFINE a == IF offer[o].availability = "NONE" THEN "UNKNOWN" ELSE offer[o].availability
  <2>1. offer[o] \in OfferRow /\ a \in Availability \cup {"NONE"}
    BY DEF TypeOK, OfferRow, Availability
  <2>2. [offer[o] EXCEPT !.availability = a] \in OfferRow
    BY <2>1, RowUpdate
  <2> QED
    BY <2>2 DEF TypeOK
<1>3. TypeOK'
  BY <1>1, <1>2 DEF TypeOK, SnapshotStatus, Processed
<1>4. Sessions'
  BY <1>1 DEF Sessions, TypeOK
<1>5. Counted'
  BY DEF Counted, TypeOK
<1> QED
  BY <1>1, <1>3, <1>4, <1>5

\* The final transaction opens.
LEMMA ReadOffersStep ==
  ASSUME IInv, NEW p \in Processes, ReadOffers(p)
  PROVE  IInv'
<1> USE SnapshotsAssumption DEF IInv, session, history, ReadOffers, Goto
<1>1. pool' \in [Hosts -> Seq(Connections)] /\ Pools'
     /\ conn' \in [Processes -> Connections \cup {NoConn}]
     /\ conn'[p] \in ConnectionsOf(HostOf[p])
     /\ (\A q \in Processes \ {p} : conn'[q] = conn[q])
  BY PoolStep
<1>2. TypeOK'
  BY <1>1 DEF TypeOK, SnapshotStatus, Processed
<1>3. Sessions'
  BY <1>1 DEF Sessions, TypeOK
<1>4. Counted'
  BY DEF Counted, TypeOK
<1> QED
  BY <1>1, <1>2, <1>3, <1>4

\* The decisions of one snapshot, committed at once.
LEMMA ApplyStep ==
  ASSUME IInv, NEW p \in Processes, Apply(p)
  PROVE  IInv'
<1> USE SnapshotsAssumption DEF IInv, session, history, Apply, Goto
<1>1. pool' \in [Hosts -> Seq(Connections)] /\ Pools'
     /\ conn' \in [Processes -> Connections \cup {NoConn}]
     /\ (\A q \in Processes \ {p} : conn'[q] = conn[q])
  BY PoolStep
<1>2. cur[p] \in Snapshots
  BY DEF Sessions
<1>3. offer' \in [Offers -> OfferRow]
  BY <1>2, RowTypes DEF TypeOK
<1>4. TypeOK'
  <2>1. snap' \in [Snapshots -> SnapshotStatus]
    BY DEF TypeOK, SnapshotStatus, Processed
  <2>2. items' \in [Snapshots -> SUBSET Offers] /\ applied' \in [Snapshots -> Nat]
    BY <1>2 DEF TypeOK, Lines
  <2> QED
    BY <1>1, <1>3, <2>1, <2>2 DEF TypeOK
<1>5. Sessions'
  BY <1>1 DEF Sessions, TypeOK
<1>6. Counted'
  BY DEF Counted, TypeOK
<1> QED
  BY <1>1, <1>2, <1>3, <1>4, <1>5, <1>6

\* A lock is released once, and only by its own connection.
LEMMA UnlockStep ==
  ASSUME IInv, NEW p \in Processes, Unlock(p)
  PROVE  IInv'
<1> USE SnapshotsAssumption DEF IInv, session, history, Unlock, Goto
<1>1. pool' \in [Hosts -> Seq(Connections)] /\ Pools'
     /\ conn' \in [Processes -> Connections \cup {NoConn}]
     /\ (\A q \in Processes \ {p} : conn'[q] = conn[q])
  BY PoolStep
<1>2. cur[p] \in Snapshots
  BY DEF Sessions
<1>3. pool[HostOf[p]] # <<>> /\ Head(pool[HostOf[p]]) \in Connections
  <2>1. HostOf[p] \in Hosts /\ pool[HostOf[p]] \in Seq(Connections)
    BY DEF TypeOK
  <2> QED
    BY <2>1, PoolOperators DEF Transaction
<1>4. held' \in [Snapshots -> [conn : Connections \cup {NoConn}, count : Nat]] /\ Counted'
  BY <1>2, <1>3 DEF TypeOK, Counted
<1>5. TypeOK'
  BY <1>1, <1>4 DEF TypeOK, SnapshotStatus, Processed, OfferRow, NoRow
<1>6. Sessions'
  BY <1>1 DEF Sessions, TypeOK
<1> QED
  BY <1>1, <1>4, <1>5, <1>6

\* An exception returns the connection only when there is one.
LEMMA FailStep ==
  ASSUME IInv, NEW p \in Processes, Fail(p)
  PROVE  IInv'
<1> USE SnapshotsAssumption DEF IInv, session, history, Fail, Fault, Goto
<1>1. pool' \in [Hosts -> Seq(Connections)] /\ Pools'
     /\ conn' \in [Processes -> Connections \cup {NoConn}]
     /\ (\A q \in Processes \ {p} : conn'[q] = conn[q])
  BY PoolStep
<1>2. TypeOK'
  <2>2. faults' \in 0..MaxFaults
    BY DEF TypeOK
  <2>3. /\ pc' \in [Processes -> Steps]
        /\ todo' \in [Processes -> SUBSET Offers]
    BY DEF TypeOK, Steps
  <2> QED
    BY <1>1, <2>2, <2>3 DEF TypeOK, Steps
<1>3. Sessions'
  BY <1>1 DEF Sessions, TypeOK
<1>4. Counted'
  BY DEF Counted, TypeOK
<1> QED
  BY <1>1, <1>2, <1>3, <1>4

\* The handler commits FAILED in a transaction of its own.
LEMMA MarkFailedStep ==
  ASSUME IInv, NEW p \in Processes, MarkFailed(p)
  PROVE  IInv'
<1> USE SnapshotsAssumption DEF IInv, session, history, MarkFailed, Goto
<1>1. pool' \in [Hosts -> Seq(Connections)] /\ Pools'
     /\ conn' \in [Processes -> Connections \cup {NoConn}]
     /\ (\A q \in Processes \ {p} : conn'[q] = conn[q])
  BY PoolStep
<1>2. TypeOK'
  <2>1. snap' \in [Snapshots -> SnapshotStatus] /\ retracted' \in [Snapshots -> Nat]
    BY DEF TypeOK, SnapshotStatus, Sessions
  <2>2. pc' \in [Processes -> Steps]
    BY DEF TypeOK, Steps
  <2> QED
    BY <1>1, <2>1, <2>2 DEF TypeOK, Steps
<1>3. Sessions'
  BY <1>1 DEF Sessions, TypeOK
<1>4. Counted'
  BY DEF Counted, TypeOK
<1> QED
  BY <1>1, <1>2, <1>3, <1>4

\* A restarted host begins with its whole pool, and without locks.
LEMMA CrashStep ==
  ASSUME IInv, NEW h \in Hosts, Crash(h)
  PROVE  IInv'
<1> USE SnapshotsAssumption DEF IInv, session, history, Crash, Fault
<1>1. IdlePool[h] \in Seq(ConnectionsOf(h)) /\ ConnectionsOf(h) \subseteq Connections
  BY DEF Connections
<1>2. IdlePool[h] \in Seq(Connections)
  BY <1>1
<1>3. Pools'
  BY <1>1 DEF Pools, TypeOK
<1>4. TypeOK'
  BY <1>2 DEF TypeOK, SnapshotStatus, Processed, OfferRow, NoRow
<1>5. Sessions'
  BY DEF Sessions, TypeOK
<1>6. Counted'
  BY DEF Counted, TypeOK
<1> QED
  BY <1>3, <1>4, <1>5, <1>6

\* An operator's upsert touches one availability.
LEMMA UpsertOfferStep ==
  ASSUME IInv, NEW o \in Offers, NEW status \in ManualStatuses, UpsertOffer(o, status)
  PROVE  IInv'
<1> USE SnapshotsAssumption DEF IInv, session, history, UpsertOffer
<1>1. offer' \in [Offers -> OfferRow]
  <2>1. offer[o] \in OfferRow /\ status \in Availability
    BY DEF TypeOK
  <2>2. [offer[o] EXCEPT !.availability = status] \in OfferRow
    BY <2>1, RowUpdate
  <2> QED
    BY <2>2 DEF TypeOK
<1>2. TypeOK'
  BY <1>1 DEF TypeOK, SnapshotStatus, Processed
<1>3. Pools' /\ Sessions' /\ Counted'
  BY DEF Pools, Sessions, Counted
<1> QED
  BY <1>2, <1>3

\* Every step preserves the invariant.
THEOREM Inductive == IInv /\ [Next]_vars => IInv'
<1> SUFFICES ASSUME IInv, [Next]_vars PROVE IInv'
  OBVIOUS
<1>1. ASSUME NEW p \in Processes, Process(p) PROVE IInv'
  BY <1>1, RequestStep, AnswerStep, EnterStep, ParseStep, MatchStep, ReadOffersStep,
     ApplyStep, UnlockStep, FailStep, MarkFailedStep DEF Process
<1>2. ASSUME NEW h \in Hosts, Crash(h) PROVE IInv'
  BY <1>2, CrashStep
<1>3. ASSUME NEW o \in Offers, NEW status \in ManualStatuses, UpsertOffer(o, status)
      PROVE  IInv'
  BY <1>3, UpsertOfferStep
<1>4. CASE UNCHANGED vars
  BY <1>4 DEF vars, session, history, IInv, TypeOK, Pools, Sessions, Counted
<1> QED
  BY <1>1, <1>2, <1>3, <1>4 DEF Next

\* The initial state satisfies the invariant.
LEMMA InitIInv == Init => IInv
<1> SUFFICES ASSUME Init PROVE IInv
  OBVIOUS
<1> USE SnapshotsAssumption DEF Init
<1>1. Pools
  BY DEF Pools
<1>2. TypeOK
  BY DEF TypeOK, SnapshotStatus, OfferRow, NoRow
<1>3. Sessions /\ Counted
  BY DEF Sessions, Counted
<1> QED
  BY <1>1, <1>2, <1>3 DEF IInv

\* Every variable keeps its type: no pool holds a foreign connection, no lock
\* count runs below zero.
THEOREM TypeCorrect == Spec => []TypeOK
<1>1. IInv => TypeOK
  BY DEF IInv
<1> QED
  BY <1>1, InitIInv, Inductive, PTL DEF Spec

-----------------------------------------------------------------------------
(***************************************************************************)
(* The advisory lock.  It serializes processing when every process has the *)
(* connections of its host for itself (a worker, a command) and nobody has *)
(* loaded the snapshot before the lock was taken.                          *)
(***************************************************************************)
PrivateSessions ==
  /\ Callers = {"api"}
  /\ \A p, q \in Processes : HostOf[p] = HostOf[q] => p = q

Working(p) == pc[p] \in {"parsing", "matching", "applying"}
Locked(p)  == Working(p) \/ pc[p] \in {"summarizing", "failing", "unlocking"}

\* A process between Enter and Unlock: its host has the lock of its snapshot.
LockHeld == \A p \in Processes : Locked(p) => held[cur[p]].conn \in ConnectionsOf(HostOf[p])

\* Nothing was read before the lock.
Unloaded == \A p \in Processes : loaded[p] = "no"

\* Decisions are committed with the status that makes them final, and that status is
\* lost only where FAILED is written over it.
Standing(s) == applied[s] = retracted[s] + IF snap[s] \in Processed THEN 1 ELSE 0

Committed ==
  /\ \A s \in Snapshots : Standing(s)
  /\ \A p \in Processes : Working(p) => snap[cur[p]] = "PROCESSING"

SInv == IInv /\ LockHeld /\ Unloaded /\ Committed

\* So what is committed exceeds what was retracted by at most one.
LEMMA StandingBound ==
  ASSUME applied \in [Snapshots -> Nat], retracted \in [Snapshots -> Nat],
         NEW s \in Snapshots, Standing(s)
  PROVE  applied[s] <= 1 + retracted[s]
<1>1. applied[s] \in Nat /\ retracted[s] \in Nat
  OBVIOUS
<1>2. applied[s] = retracted[s] \/ applied[s] = retracted[s] + 1
  BY <1>1 DEF Standing
<1> QED
  BY <1>1, <1>2

\* Two processes never hold the lock of one snapshot.
LEMMA Exclusive ==
  ASSUME PrivateSessions, SInv, NEW p \in Processes, NEW q \in Processes,
         Locked(p), Locked(q), cur[p] = cur[q]
  PROVE  p = q
<1>1. held[cur[p]].conn \in ConnectionsOf(HostOf[p]) \cap ConnectionsOf(HostOf[q])
  BY DEF SInv, LockHeld
<1>2. HostOf[p] \in Hosts /\ HostOf[q] \in Hosts
  BY SnapshotsAssumption
<1>3. HostOf[p] = HostOf[q]
  BY <1>1, <1>2, SnapshotsAssumption
<1> QED
  BY <1>3 DEF PrivateSessions

\* A process that takes the lock finds nobody else under it.
LEMMA Admission ==
  ASSUME PrivateSessions, SInv, NEW p \in Processes, pc[p] = "locking", Lockable(p),
         NEW q \in Processes, Locked(q)
  PROVE  cur[q] # cur[p]
<1> SUFFICES ASSUME cur[q] = cur[p] PROVE FALSE
  OBVIOUS
<1>1. HostOf[p] \in Hosts /\ HostOf[q] \in Hosts
  BY SnapshotsAssumption
<1>2. held[cur[p]].conn \in ConnectionsOf(HostOf[q])
  BY DEF SInv, LockHeld
<1>3. NoConn \notin ConnectionsOf(HostOf[q])
  BY <1>1, SnapshotsAssumption DEF Connections
<1>4. conn[p] \in ConnectionsOf(HostOf[p]) \cap ConnectionsOf(HostOf[q])
  BY <1>2, <1>3 DEF Lockable, SInv, IInv, Sessions
<1>5. HostOf[p] = HostOf[q]
  BY <1>1, <1>4, SnapshotsAssumption
<1> QED
  BY <1>5 DEF PrivateSessions, Locked, Working

\* A step of the lock's owner leaves the other processes their snapshots.
LEMMA OwnerStep ==
  ASSUME PrivateSessions, SInv, NEW p \in Processes, Locked(p), cur[p] \in Snapshots,
         NEW status, snap' = [snap EXCEPT ![cur[p]] = status],
         NEW q \in Processes, q # p, Working(q)
  PROVE  snap'[cur[q]] = "PROCESSING"
<1>1. cur[q] # cur[p]
  BY Exclusive DEF Locked
<1> QED
  BY <1>1 DEF SInv, Committed, IInv, TypeOK, Sessions, Working

\* Every step preserves the exclusion.
LEMMA ExclusionStep ==
  ASSUME PrivateSessions, SInv, [Next]_vars
  PROVE  SInv'
<1> USE DEF Locked, Working
<1>0. IInv'
  BY Inductive DEF SInv
<1>t. /\ \A p \in Processes : HostOf[p] \in Hosts
      /\ \A p \in Processes : pc[p] # "idle" => cur[p] \in Snapshots
      /\ held \in [Snapshots -> [conn : Connections \cup {NoConn}, count : Nat]]
      /\ snap \in [Snapshots -> SnapshotStatus]
      /\ applied \in [Snapshots -> Nat]
      /\ retracted \in [Snapshots -> Nat]
      /\ cur \in [Processes -> Snapshots \cup {NoSnapshot}]
      /\ loaded \in [Processes -> SnapshotStatus \cup {"no"}]
      /\ pc \in [Processes -> Steps]
  BY SnapshotsAssumption DEF SInv, IInv, TypeOK, Sessions, Steps
<1>1. ASSUME NEW p \in Processes, NEW s \in Snapshots, NEW caller \in Callers,
             Request(p, s, caller)
      PROVE  LockHeld' /\ Unloaded' /\ Committed'
  BY <1>1, <1>t DEF Request, CheckOut, Goto, history, PrivateSessions, SInv, LockHeld,
     Unloaded, Committed, Standing
<1>2. ASSUME NEW p \in Processes, Answer(p) PROVE LockHeld' /\ Unloaded' /\ Committed'
  BY <1>2, <1>t DEF Answer, EndSession, Goto, history, SInv, LockHeld, Unloaded, Committed, Standing
<1>3. ASSUME NEW p \in Processes, Enter(p) PROVE LockHeld' /\ Unloaded' /\ Committed'
  <2>1. snap[cur[p]] \notin Processed
    BY <1>3 DEF Enter, StatusRead, SInv, Unloaded
  <2>2. \A q \in Processes : Locked(q) => cur[q] # cur[p]
    BY <1>3, Admission DEF Enter
  <2>3. conn[p] \in ConnectionsOf(HostOf[p])
    BY <1>3 DEF Enter, SInv, IInv, Sessions
  <2>4. LockHeld'
    BY <1>3, <2>2, <2>3, <1>t DEF Enter, Goto, SInv, LockHeld
  <2>5. Committed'
    BY <1>3, <2>1, <2>2, <1>t DEF Enter, Goto, history, SInv, Committed, Standing,
          Processed
  <2> QED
    BY <1>3, <2>4, <2>5 DEF Enter, SInv, Unloaded
<1>4. ASSUME NEW p \in Processes, Parse(p) PROVE LockHeld' /\ Unloaded' /\ Committed'
  BY <1>4, <1>t DEF Parse, Goto, history, SInv, LockHeld, Unloaded, Committed, Standing
<1>5. ASSUME NEW p \in Processes, NEW o \in Offers, Match(p, o)
      PROVE  LockHeld' /\ Unloaded' /\ Committed'
  BY <1>5, <1>t DEF Match, history, SInv, LockHeld, Unloaded, Committed, Standing
<1>6. ASSUME NEW p \in Processes, ReadOffers(p) PROVE LockHeld' /\ Unloaded' /\ Committed'
  BY <1>6, <1>t DEF ReadOffers, Goto, history, SInv, LockHeld, Unloaded, Committed, Standing
<1>7. ASSUME NEW p \in Processes, Apply(p) PROVE LockHeld' /\ Unloaded' /\ Committed'
  <2>1. snap[cur[p]] \notin Processed /\ cur[p] \in Snapshots
    BY <1>7, <1>t DEF Apply, SInv, Committed, Processed
  <2>2. \A q \in Processes : q # p /\ Working(q) => snap'[cur[q]] = "PROCESSING"
    BY <1>7, <1>t, OwnerStep DEF Apply
  <2>3. \A s \in Snapshots : Standing(s)'
    BY <1>7, <2>1, <1>t DEF Apply, SInv, Committed, Standing, Processed
  <2>4. \A q \in Processes : Working(q)' => q # p /\ Working(q) /\ cur'[q] = cur[q]
    BY <1>7, <1>t DEF Apply, Goto
  <2>5. Committed'
    BY <2>2, <2>3, <2>4 DEF Committed
  <2> QED
    BY <1>7, <2>5, <1>t DEF Apply, Goto, SInv, LockHeld, Unloaded
<1>8. ASSUME NEW p \in Processes, Unlock(p) PROVE LockHeld' /\ Unloaded' /\ Committed'
  <2>1. \A q \in Processes : q # p /\ Locked(q) => cur[q] # cur[p]
    BY <1>8, Exclusive DEF Unlock
  <2>2. LockHeld'
    BY <1>8, <2>1, <1>t DEF Unlock, Goto, SInv, LockHeld
  <2> QED
    BY <1>8, <2>2, <1>t DEF Unlock, Goto, history, SInv, Unloaded, Committed, Standing
<1>9. ASSUME NEW p \in Processes, Fail(p) PROVE LockHeld' /\ Unloaded' /\ Committed'
  BY <1>9, <1>t DEF Fail, Goto, history, SInv, LockHeld, Unloaded, Committed, Standing
<1>13. ASSUME NEW p \in Processes, MarkFailed(p) PROVE LockHeld' /\ Unloaded' /\ Committed'
  <2>1. cur[p] \in Snapshots /\ Locked(p)
    BY <1>13, <1>t DEF MarkFailed
  <2>2. \A q \in Processes : q # p /\ Working(q) => snap'[cur[q]] = "PROCESSING"
    BY <1>13, <2>1, OwnerStep DEF MarkFailed
  <2>3. \A s \in Snapshots : Standing(s)'
    BY <1>13, <2>1, <1>t DEF MarkFailed, SInv, Committed, Standing, Processed
  <2>4. \A q \in Processes : Working(q)' => q # p /\ Working(q) /\ cur'[q] = cur[q]
    BY <1>13, <1>t DEF MarkFailed, Goto
  <2>5. Committed'
    BY <2>2, <2>3, <2>4 DEF Committed
  <2> QED
    BY <1>13, <2>5, <1>t DEF MarkFailed, Goto, SInv, LockHeld, Unloaded
<1>10. ASSUME NEW h \in Hosts, Crash(h) PROVE LockHeld' /\ Unloaded' /\ Committed'
  BY <1>10, <1>t, SnapshotsAssumption DEF Crash, history, SInv, LockHeld, Unloaded, Committed, Standing
<1>11. ASSUME NEW o \in Offers, NEW status \in ManualStatuses, UpsertOffer(o, status)
       PROVE  LockHeld' /\ Unloaded' /\ Committed'
  BY <1>11 DEF UpsertOffer, session, SInv, LockHeld, Unloaded, Committed, Standing
<1>12. CASE UNCHANGED vars
  BY <1>12, <1>0 DEF vars, session, history, SInv, LockHeld, Unloaded, Committed, Standing
<1> QED
  BY <1>0, <1>1, <1>2, <1>3, <1>4, <1>5, <1>6, <1>7, <1>8, <1>9, <1>10, <1>11, <1>12,
     <1>13 DEF Next, Process, SInv

\* "Active processing is serialized by snapshot id": with private sessions the
\* decisions of a snapshot are committed again only after a failing summary has
\* retracted them, whatever else fails, crashes and is requested again.
THEOREM ProcessedOnce == PrivateSessions => (Spec => []DecidedOnce)
<1> SUFFICES ASSUME PrivateSessions PROVE Spec => []DecidedOnce
  OBVIOUS
<1>1. Init => SInv
  <2> SUFFICES ASSUME Init PROVE SInv
    OBVIOUS
  <2>1. /\ \A p \in Processes : pc[p] = "idle" /\ loaded[p] = "no"
        /\ \A s \in Snapshots : applied[s] = 0 /\ retracted[s] = 0 /\ snap[s] = "PENDING"
    BY DEF Init
  <2>2. IInv
    BY InitIInv
  <2>3. \A p \in Processes : ~Locked(p) /\ ~Working(p)
    BY <2>1 DEF Locked, Working
  <2> QED
    BY <2>1, <2>2, <2>3 DEF SInv, LockHeld, Unloaded, Committed, Standing, Processed
<1>2. SInv /\ [Next]_vars => SInv'
  BY ExclusionStep
<1>3. SInv => DecidedOnce
  BY StandingBound DEF SInv, IInv, TypeOK, Committed, DecidedOnce
<1> QED
  BY <1>1, <1>2, <1>3, PTL DEF Spec

-----------------------------------------------------------------------------
(***************************************************************************)
(* Availability.  Nothing locks the offers of a supplier: a decision rests *)
(* on the rows as they were read, and snapshots_older shows what two lists *)
(* processed at once do to each other.  While the read, the decision and   *)
(* the commit of two lists never overlap, whoever processes them, whatever *)
(* fails and whatever users and matched lines write in between, the rows   *)
(* are what the decisions say.                                             *)
(***************************************************************************)
OneAtATime == \A p, q \in Processes : pc[p] = "applying" /\ pc[q] = "applying" => p = q

Decision == [at : Nat \ {0}, seen : BOOLEAN]

LedgerType == ledger \in [Offers -> Seq(Decision)]

\* captured_at of the last decision about an offer.
Last(o) == IF ledger[o] = <<>> THEN 0 ELSE ledger[o][Len(ledger[o])].at

Latest == \A o \in Offers : offer[o].at = Last(o)

\* What a process is about to decide on is still so: since it read the rows, users
\* have set availabilities and a line may have created one.
FreshRow(o, read) ==
  /\ read.at = offer[o].at
  /\ read.missing = offer[o].missing
  /\ o \notin manual => \/ read.availability = offer[o].availability
                        \/ read.availability = "NONE" /\ offer[o].availability = "UNKNOWN"

Fresh == \A p \in Processes : pc[p] = "applying" => \A o \in Offers : FreshRow(o, view[p][o])

\* AvailabilityRecounted, offer by offer.
Recounted(o) ==
  /\ offer[o].missing = Misses(o)
  /\ o \notin manual =>
       IF ledger[o] = <<>> THEN offer[o].availability \in {"NONE", "UNKNOWN"}
       ELSE offer[o].availability = IF Misses(o) = 0 THEN "IN_STOCK"
                                    ELSE IF Misses(o) >= Threshold THEN "OUT_OF_STOCK"
                                    ELSE "SUSPECT_MISSING"

Rows == \A o \in Offers : Recounted(o)

AInv == IInv /\ LedgerType /\ LedgerOrdered /\ Latest /\ Fresh /\ Rows

\* A nonempty set of positions of a sequence has a last one.
LEMMA LastPosition ==
  ASSUME NEW n \in Nat, NEW S \in SUBSET (1..n), S # {}
  PROVE  \E i \in S : \A k \in S : k <= i
<1> DEFINE T == {t \in 0..n : \E i \in S : t = n - i}
<1>1. T \in SUBSET Nat /\ T # {}
  <2>1. PICK i \in S : i \in 1..n
    OBVIOUS
  <2>2. n - i \in T
    BY <2>1
  <2>3. T \subseteq 0..n
    OBVIOUS
  <2> HIDE DEF T
  <2> QED
    BY <2>2, <2>3
<1>2. PICK t \in T : \A u \in T : ~ (<<u, t>> \in OpToRel(<, Nat))
  BY <1>1, NatLessThanWellFounded, WFMin
<1>3. OpToRel(<, Nat) = {p \in Nat \X Nat : p[1] < p[2]}
  BY DEF OpToRel
<1>4. PICK i \in S : t = n - i
  OBVIOUS
<1>5. ASSUME NEW k \in S, k > i PROVE FALSE
  <2>1. n - k \in T /\ n - k \in Nat /\ t \in Nat /\ n - k < t
    BY <1>4, <1>5
  <2>2. <<n - k, t>> \in {p \in Nat \X Nat : p[1] < p[2]}
    BY <2>1
  <2> QED
    BY <1>2, <1>3, <2>1, <2>2, Zenon
<1> QED
  BY <1>5

\* An offer that is listed begins a new count.
LEMMA MissesSeen ==
  ASSUME NEW o \in Offers, ledger[o] \in Seq(Decision), NEW d \in Decision, d.seen,
         ledger'[o] = Append(ledger[o], d)
  PROVE  Misses(o)' = 0
<1> DEFINE n == Len(ledger[o])
          S == {i \in 1..n + 1 : ledger'[o][i].seen}
<1>1. n \in Nat /\ Len(ledger'[o]) = n + 1 /\ ledger'[o][n + 1] = d
  OBVIOUS
<1>2. n + 1 \in S /\ \A k \in S : k <= n + 1
  BY <1>1
<1>3. PICK i : i = CHOOSE j \in S : \A k \in S : k <= j
  OBVIOUS
<1>4. i \in S /\ \A k \in S : k <= i
  BY <1>2, <1>3
<1>5. i = n + 1
  BY <1>1, <1>2, <1>4
<1>6. Misses(o)' = n + 1 - i
  BY <1>1, <1>2, <1>3 DEF Misses
<1> QED
  BY <1>1, <1>5, <1>6

\* An offer that is absent has missed once more.
LEMMA MissesMissed ==
  ASSUME NEW o \in Offers, ledger[o] \in Seq(Decision), NEW d \in Decision, ~d.seen,
         ledger'[o] = Append(ledger[o], d)
  PROVE  Misses(o)' = Misses(o) + 1
<1> DEFINE n == Len(ledger[o])
          S == {i \in 1..n : ledger[o][i].seen}
          T == {i \in 1..n + 1 : ledger'[o][i].seen}
<1>1. n \in Nat /\ Len(ledger'[o]) = n + 1 /\ ledger'[o][n + 1] = d
      /\ \A i \in 1..n : ledger'[o][i] = ledger[o][i]
  OBVIOUS
<1>2. S = T
  BY <1>1
<1>3. CASE S = {}
  BY <1>1, <1>2, <1>3 DEF Misses
<1>4. CASE S # {}
  <2>1. PICK i : i = CHOOSE j \in S : \A k \in S : k <= j
    OBVIOUS
  <2>2. i \in Nat
    <3>1. S \in SUBSET (1..n) /\ n \in Nat
      BY <1>1
    <3>2. \E j \in S : \A k \in S : k <= j
      BY <1>4, <3>1, LastPosition
    <3>3. i \in S
      BY <2>1, <3>2, Zenon
    <3> QED
      BY <3>1, <3>3
  <2>3. Misses(o) = n - i
    BY <1>4, <2>1 DEF Misses
  <2>4. T # {} /\ i = CHOOSE j \in T : \A k \in T : k <= j
    BY <1>2, <1>4, <2>1, Zenon
  <2>5. T = {j \in 1..Len(ledger'[o]) : ledger'[o][j].seen}
    BY <1>1
  <2>6. Misses(o)' = Len(ledger'[o]) - i
    BY <2>4, <2>5, Zenon DEF Misses
  <2> QED
    BY <1>1, <2>2, <2>3, <2>6
<1> QED
  BY <1>3, <1>4

\* The decision of one list about one offer, committed over the rows it has read.
LEMMA DecisionStep ==
  ASSUME AInv, NEW p \in Processes, Apply(p), NEW o \in Offers
  PROVE  /\ ledger'[o] \in Seq(Decision)
         /\ \A i \in 2..Len(ledger'[o]) : ledger'[o][i - 1].at <= ledger'[o][i].at
         /\ offer'[o].at = Last(o)'
         /\ Recounted(o)'
<1> DEFINE s == cur[p]
          read == view[p][o]
          row == offer[o]
          d == [at |-> CapturedAt[s], seen |-> o \in Listed(s)]
<1>1. /\ s \in Snapshots /\ CapturedAt[s] \in Nat \ {0} /\ Threshold \in Nat \ {0}
      /\ read \in OfferRow /\ row \in OfferRow
      /\ ledger[o] \in Seq(Decision)
      /\ manual' = manual
      /\ offer'[o] = Flush(read, Decided(s, o, read), row)
  <2>1. s \in Snapshots
    BY DEF Apply, AInv, IInv, Sessions
  <2>2. CapturedAt[s] \in Nat \ {0} /\ Threshold \in Nat \ {0}
    BY <2>1, SnapshotsAssumption
  <2>3. read \in OfferRow /\ row \in OfferRow /\ ledger[o] \in Seq(Decision)
    BY DEF AInv, IInv, TypeOK, LedgerType
  <2>4. manual' = manual /\ offer'[o] = Flush(read, Decided(s, o, read), row)
    BY DEF Apply
  <2> QED
    BY <2>1, <2>2, <2>3, <2>4
<1>2. FreshRow(o, read) /\ Recounted(o) /\ row.at = Last(o)
      /\ \A i \in 2..Len(ledger[o]) : ledger[o][i - 1].at <= ledger[o][i].at
  BY DEF Apply, AInv, Fresh, Rows, Latest, LedgerOrdered
<1>3. ledger'[o] = IF Decides(s, o, read) THEN Append(ledger[o], d) ELSE ledger[o]
  BY DEF Apply
<1>4. d \in Decision /\ d.at = CapturedAt[s] /\ (d.seen <=> o \in Listed(s))
  <2>1. PICK b \in BOOLEAN : b = (o \in Listed(s))
    <3>1. (o \in Listed(s)) \in BOOLEAN
      OBVIOUS
    <3> QED
      BY <3>1
  <2>2. d = [at |-> CapturedAt[s], seen |-> b]
    BY <2>1, Zenon
  <2>3. [at |-> CapturedAt[s], seen |-> b] \in Decision
    BY <1>1 DEF Decision
  <2> HIDE DEF d
  <2> QED
    BY <2>1, <2>2, <2>3
<1> HIDE DEF s, read, row, d
<1>5. CASE ~Decides(s, o, read)
  <2>1. ledger'[o] = ledger[o]
    BY <1>3, <1>5
  <2>2. Flush(read, read, row) = row
    BY <1>1 DEF Flush, Column, OfferRow
  <2>3. offer'[o] = offer[o]
    BY <1>1, <1>5, <2>2 DEF Decided, row
  <2>4. Misses(o)' = Misses(o)
    BY <2>1 DEF Misses
  <2> QED
    BY <1>1, <1>2, <2>1, <2>3, <2>4 DEF Recounted, Last, row
<1>6. CASE Decides(s, o, read)
  <2>1. ledger'[o] = Append(ledger[o], d)
    BY <1>3, <1>6
  <2>2. ledger'[o] \in Seq(Decision) /\ ledger'[o] # <<>>
    BY <1>1, <1>4, <2>1
  <2>3. read.availability # "NONE" /\ (read.at = 0 \/ read.at <= CapturedAt[s])
    BY <1>1, <1>6 DEF Decides, OfferRow
  <2>4. \A i \in 2..Len(ledger'[o]) : ledger'[o][i - 1].at <= ledger'[o][i].at
    <3> SUFFICES ASSUME NEW i \in 2..Len(ledger'[o])
                 PROVE  ledger'[o][i - 1].at <= ledger'[o][i].at
      OBVIOUS
    <3>1. /\ Len(ledger[o]) \in Nat /\ Len(ledger'[o]) = Len(ledger[o]) + 1
          /\ ledger'[o][Len(ledger[o]) + 1] = d
          /\ \A k \in 1..Len(ledger[o]) : ledger'[o][k] = ledger[o][k]
      BY <1>1, <2>1
    <3>2. CASE i <= Len(ledger[o])
      BY <1>2, <3>1, <3>2
    <3>3. CASE i = Len(ledger[o]) + 1
      <4>1. ledger[o] # <<>> /\ i - 1 = Len(ledger[o]) /\ i - 1 \in 1..Len(ledger[o])
        BY <1>1, <3>1, <3>3
      <4>2. ledger[o][i - 1] \in Decision
        BY <1>1, <4>1
      <4>3. ledger[o][i - 1].at = row.at /\ row.at # 0
        BY <1>2, <4>1, <4>2 DEF Last, Decision
      <4>4. read.at = row.at
        BY <1>2 DEF FreshRow, row
      <4> QED
        BY <1>4, <2>3, <3>1, <3>3, <4>1, <4>3, <4>4
    <3> QED
      BY <3>1, <3>2, <3>3
  <2>5. Last(o)' = CapturedAt[s]
    BY <1>1, <1>4, <2>1, <2>2 DEF Last
  <2>6. read.at = row.at /\ read.missing = row.missing
        /\ (o \notin manual => read.availability = row.availability)
    BY <1>2, <2>3 DEF FreshRow, row
  <2>7. CASE o \in Listed(s)
    <3>1. Misses(o)' = 0
      BY <1>1, <1>4, <2>1, <2>7, MissesSeen
    <3>2. offer'[o] = Flush(read, SeenRow(s), row)
      BY <1>1, <1>6, <2>7 DEF Decided
    <3>3. /\ offer'[o].at = CapturedAt[s] /\ offer'[o].missing = 0
          /\ o \notin manual => offer'[o].availability = "IN_STOCK"
      BY <1>1, <2>6, <3>2 DEF Flush, Column, SeenRow
    <3> QED
      BY <1>1, <2>2, <2>4, <2>5, <3>1, <3>3 DEF Recounted
  <2>8. CASE o \notin Listed(s)
    <3>1. Misses(o)' = Misses(o) + 1
      BY <1>1, <1>4, <2>1, <2>8, MissesMissed
    <3>2. offer'[o] = Flush(read, MissingRow(s, read), row)
      BY <1>1, <1>6, <2>8 DEF Decided
    <3>3. offer'[o].at = CapturedAt[s] /\ offer'[o].missing = row.missing + 1
      BY <1>1, <2>6, <3>2 DEF Flush, Column, MissingRow, OfferRow
    <3>4. row.missing = Misses(o) /\ row.missing \in Nat
      BY <1>1, <1>2 DEF Recounted, row, OfferRow
    <3>5. o \notin manual =>
            offer'[o].availability = IF row.missing + 1 >= Threshold THEN "OUT_OF_STOCK"
                                     ELSE "SUSPECT_MISSING"
      <4> SUFFICES ASSUME o \notin manual
                   PROVE  offer'[o].availability =
                            IF row.missing + 1 >= Threshold THEN "OUT_OF_STOCK"
                            ELSE "SUSPECT_MISSING"
        OBVIOUS
      <4>1. row.availability \in {"UNKNOWN", "IN_STOCK"}
            \/ (row.missing < Threshold /\ row.availability = "SUSPECT_MISSING")
            \/ row.missing >= Threshold
        BY <1>1, <1>2, <2>3, <2>6, <3>4 DEF Recounted, row
      <4>2. offer'[o].availability = MissingRow(s, read).availability
        BY <2>6, <3>2 DEF Flush, Column
      <4> QED
        BY <1>1, <2>6, <3>4, <4>1, <4>2 DEF MissingRow
    <3> QED
      BY <1>1, <2>2, <2>4, <2>5, <3>1, <3>3, <3>4, <3>5 DEF Recounted
  <2> QED
    BY <2>7, <2>8
<1> QED
  BY <1>5, <1>6

\* A step that decides nothing and leaves the missing counts and dates alone.
LEMMA RowFrame ==
  ASSUME AInv, UNCHANGED <<ledger, manual>>,
         offer' = offer \/ \E o \in Offers : offer' = [offer EXCEPT ![o].availability =
                                                       IF @ = "NONE" THEN "UNKNOWN" ELSE @],
         \A p \in Processes : pc'[p] = "applying" =>
           (pc[p] = "applying" /\ view'[p] = view[p]) \/ (offer' = offer /\ view'[p] = offer)
  PROVE  LedgerType' /\ LedgerOrdered' /\ Latest' /\ Fresh' /\ Rows'
<1> USE DEF AInv
<1>0. offer \in [Offers -> OfferRow]
  BY DEF IInv, TypeOK
<1>1. \A o \in Offers :
        /\ offer'[o].at = offer[o].at /\ offer'[o].missing = offer[o].missing
        /\ \/ offer'[o].availability = offer[o].availability
           \/ offer[o].availability = "NONE" /\ offer'[o].availability = "UNKNOWN"
  BY <1>0 DEF OfferRow
<1>2. LedgerType' /\ LedgerOrdered'
  BY DEF LedgerType, LedgerOrdered
<1>3. Latest'
  BY <1>1 DEF Latest, Last
<1>4. Fresh'
  BY <1>1 DEF Fresh, FreshRow
<1>5. \A o \in Offers : Misses(o)' = Misses(o)
  BY DEF Misses
<1>6. Rows'
  BY <1>1, <1>5 DEF Rows, Recounted
<1> QED
  BY <1>2, <1>3, <1>4, <1>6

\* Every step preserves the account, when no two decisions overlap.
LEMMA AvailabilityStep ==
  ASSUME OneAtATime, AInv, [Next]_vars
  PROVE  AInv'
<1>0. IInv'
  BY Inductive DEF AInv
<1>t. /\ pc \in [Processes -> Steps]
      /\ view \in [Processes -> [Offers -> OfferRow]]
      /\ offer \in [Offers -> OfferRow]
      /\ ledger \in [Offers -> Seq(Decision)]
  BY DEF AInv, IInv, TypeOK, LedgerType, Steps
<1>1. ASSUME NEW p \in Processes,
             \/ \E s \in Snapshots, caller \in Callers : Request(p, s, caller)
             \/ Answer(p) \/ Enter(p) \/ Parse(p) \/ Unlock(p) \/ Fail(p) \/ MarkFailed(p)
      PROVE  AInv'
  <2>1. /\ UNCHANGED <<offer, ledger, manual>>
        /\ \A q \in Processes : pc'[q] = "applying" => pc[q] = "applying" /\ view'[q] = view[q]
    BY <1>1, <1>t DEF Request, Answer, EndSession, Enter, Parse, Unlock, Fail, MarkFailed,
       Goto, history, Steps
  <2> QED
    BY <1>0, <2>1, RowFrame DEF AInv
<1>2. ASSUME NEW p \in Processes, NEW o \in Offers, Match(p, o) PROVE AInv'
  <2>1. /\ UNCHANGED <<pc, view, ledger, manual>>
        /\ offer' = [offer EXCEPT ![o].availability = IF @ = "NONE" THEN "UNKNOWN" ELSE @]
    BY <1>2 DEF Match, history
  <2> QED
    BY <1>0, <2>1, RowFrame DEF AInv
<1>3. ASSUME NEW p \in Processes, ReadOffers(p) PROVE AInv'
  <2>1. /\ UNCHANGED <<offer, ledger, manual>>
        /\ \A q \in Processes : \/ pc'[q] = pc[q] /\ view'[q] = view[q]
                                \/ view'[q] = offer
    BY <1>3, <1>t DEF ReadOffers, Goto, history
  <2> QED
    BY <1>0, <2>1, RowFrame DEF AInv
<1>4. ASSUME NEW p \in Processes, Apply(p) PROVE AInv'
  <2>1. \A q \in Processes : pc'[q] # "applying"
    BY <1>4, <1>t DEF Apply, Goto, OneAtATime
  <2>2. DOMAIN ledger' = Offers /\ ledger' = [o \in Offers |-> ledger'[o]]
    BY <1>4 DEF Apply
  <2>3. LedgerType'
    BY <1>4, <2>2, DecisionStep DEF LedgerType
  <2>4. LedgerOrdered'
    BY <1>4, DecisionStep DEF LedgerOrdered
  <2>5. Latest' /\ Rows'
    BY <1>4, DecisionStep DEF Latest, Rows
  <2> QED
    BY <1>0, <2>1, <2>3, <2>4, <2>5 DEF AInv, Fresh
<1>5. ASSUME NEW h \in Hosts, Crash(h) PROVE AInv'
  <2>1. /\ UNCHANGED <<offer, ledger, manual>>
        /\ \A q \in Processes : pc'[q] = "applying" => pc[q] = "applying" /\ view'[q] = view[q]
    BY <1>5, <1>t DEF Crash, history
  <2> QED
    BY <1>0, <2>1, RowFrame DEF AInv
<1>6. ASSUME NEW o \in Offers, NEW status \in ManualStatuses, UpsertOffer(o, status) PROVE AInv'
  <2>1. /\ UNCHANGED <<pc, view, ledger>> /\ manual' = manual \cup {o}
        /\ \A n \in Offers :
             /\ offer'[n].at = offer[n].at /\ offer'[n].missing = offer[n].missing
             /\ n # o => offer'[n] = offer[n]
    BY <1>6, <1>t DEF UpsertOffer, session, OfferRow
  <2>2. LedgerType' /\ LedgerOrdered' /\ Latest'
    BY <2>1 DEF AInv, LedgerType, LedgerOrdered, Latest, Last
  <2>3. Fresh'
    BY <2>1 DEF AInv, Fresh, FreshRow
  <2>4. \A n \in Offers : Misses(n)' = Misses(n)
    BY <2>1 DEF Misses
  <2>5. Rows'
    BY <2>1, <2>4 DEF AInv, Rows, Recounted
  <2> QED
    BY <1>0, <2>2, <2>3, <2>5 DEF AInv
<1>7. CASE UNCHANGED vars
  <2>1. UNCHANGED <<pc, view, offer, ledger, manual>>
    BY <1>7 DEF vars, session, history
  <2> QED
    BY <1>0, <2>1, RowFrame DEF AInv
<1> QED
  BY <1>1, <1>2, <1>3, <1>4, <1>5, <1>6, <1>7 DEF Next, Process

LEMMA AvailabilityInit == Init => AInv
<1> SUFFICES ASSUME Init PROVE AInv
  OBVIOUS
<1> USE DEF Init
<1>1. IInv
  BY InitIInv
<1>2. LedgerType /\ LedgerOrdered /\ Latest /\ Fresh
  BY DEF LedgerType, LedgerOrdered, Latest, Last, Fresh, NoRow
<1>3. \A o \in Offers : Misses(o) = 0
  BY DEF Misses
<1>4. Rows
  BY <1>3 DEF Rows, Recounted, NoRow
<1> QED
  BY <1>1, <1>2, <1>4 DEF AInv

LEMMA Availabilities == Spec /\ []OneAtATime => []AInv
<1>1. OneAtATime /\ AInv /\ [Next]_vars => AInv'
  BY AvailabilityStep
<1> QED
  BY <1>1, AvailabilityInit, PTL DEF Spec

\* "Older snapshots do not overwrite newer availability decisions", for any number
\* of processes, as long as two lists are not decided at once.
THEOREM NewestDecides == Spec /\ []OneAtATime => []LedgerOrdered
<1>1. AInv => LedgerOrdered
  BY DEF AInv
<1> QED
  BY <1>1, Availabilities, PTL

\* Under the same condition every row is the account of its decisions, through
\* failures, crashes, rejected lists and availabilities set by hand.
THEOREM RowsRecounted == Spec /\ []OneAtATime => []AvailabilityRecounted
<1>1. AInv => AvailabilityRecounted
  BY DEF AInv, Rows, Recounted, AvailabilityRecounted
<1> QED
  BY <1>1, Availabilities, PTL

-----------------------------------------------------------------------------
(***************************************************************************)
(* One session at a time: what a single worker gives, whoever calls and    *)
(* however its connections are shared.  The lock is not needed then, so    *)
(* what the import pages load before it does not matter either.            *)
(***************************************************************************)
Alone == \A p, q \in Processes : pc[p] # "idle" /\ pc[q] # "idle" => p = q

\* A status the session has loaded is still the stored one while it is used.
LoadedCurrent ==
  \A p \in Processes : pc[p] = "locking" => loaded[p] \in {"no", snap[cur[p]]}

SerialInv == IInv /\ LoadedCurrent /\ Committed

\* Every step preserves it, when the other processes are idle.
LEMMA SerialStep ==
  ASSUME Alone, Alone', SerialInv, [Next]_vars
  PROVE  SerialInv'
<1> USE DEF Working
<1>0. IInv'
  BY Inductive DEF SerialInv
<1>t. /\ \A p \in Processes : pc[p] # "idle" => cur[p] \in Snapshots
      /\ snap \in [Snapshots -> SnapshotStatus]
      /\ applied \in [Snapshots -> Nat]
      /\ retracted \in [Snapshots -> Nat]
      /\ cur \in [Processes -> Snapshots \cup {NoSnapshot}]
      /\ loaded \in [Processes -> SnapshotStatus \cup {"no"}]
      /\ pc \in [Processes -> Steps]
  BY DEF SerialInv, IInv, TypeOK, Sessions, Steps
\* Nobody else is at work.
<1>a. ASSUME NEW p \in Processes, pc[p] # "idle", NEW q \in Processes, q # p
      PROVE  pc[q] = "idle"
  BY <1>a, <1>t DEF Alone
<1>1. ASSUME NEW p \in Processes, NEW s \in Snapshots, NEW caller \in Callers,
             Request(p, s, caller)
      PROVE  LoadedCurrent' /\ Committed'
  BY <1>1, <1>t DEF Request, Goto, history, SerialInv, LoadedCurrent, Committed, Standing
<1>2. ASSUME NEW p \in Processes, Answer(p) PROVE LoadedCurrent' /\ Committed'
  BY <1>2, <1>t DEF Answer, EndSession, Goto, history, SerialInv, LoadedCurrent, Committed, Standing
<1>3. ASSUME NEW p \in Processes, Enter(p) PROVE LoadedCurrent' /\ Committed'
  <2>1. snap[cur[p]] \notin Processed
    BY <1>3, <1>t DEF Enter, StatusRead, SerialInv, LoadedCurrent
  <2>2. \A q \in Processes : q # p => pc[q] = "idle"
    BY <1>3, <1>a DEF Enter
  <2>3. LoadedCurrent'
    BY <1>3, <2>2, <1>t DEF Enter, Goto, LoadedCurrent
  <2>4. Committed'
    BY <1>3, <2>1, <2>2, <1>t DEF Enter, Goto, history, SerialInv, Committed, Standing,
          Processed
  <2> QED
    BY <2>3, <2>4
<1>4. ASSUME NEW p \in Processes, \/ Parse(p) \/ ReadOffers(p) \/ Unlock(p) \/ Fail(p)
                                 \/ \E o \in Offers : Match(p, o)
      PROVE  LoadedCurrent' /\ Committed'
  <2>1. /\ UNCHANGED <<snap, applied, retracted>>
        /\ \A q \in Processes : /\ pc'[q] = "locking" => pc[q] = "locking"
                                /\ Working(q)' => Working(q)
                                /\ pc'[q] # "idle" => cur'[q] = cur[q] /\ loaded'[q] = loaded[q]
    BY <1>4, <1>t DEF Parse, ReadOffers, Unlock, Fail, Match, Goto, history
  <2> QED
    BY <2>1, <1>t DEF SerialInv, LoadedCurrent, Committed, Standing
<1>5. ASSUME NEW p \in Processes, Apply(p) \/ MarkFailed(p) PROVE LoadedCurrent' /\ Committed'
  <2>1. pc[p] \in {"applying", "failing"} /\ cur[p] \in Snapshots
    BY <1>5, <1>t DEF Apply, MarkFailed
  <2>2. \A q \in Processes : pc'[q] \in {"idle", "summarizing", "unlocking"}
    BY <1>5, <2>1, <1>a, <1>t DEF Apply, MarkFailed, Goto
  <2>3. ASSUME Apply(p) PROVE \A s \in Snapshots : Standing(s)'
    <3>1. snap[cur[p]] \notin Processed
      BY <2>3 DEF Apply, SerialInv, Committed, Processed
    <3> QED
      BY <2>1, <2>3, <3>1, <1>t DEF Apply, SerialInv, Committed, Standing, Processed
  <2>4. ASSUME MarkFailed(p) PROVE \A s \in Snapshots : Standing(s)'
    BY <2>1, <2>4, <1>t DEF MarkFailed, SerialInv, Committed, Standing, Processed
  <2>5. \A s \in Snapshots : Standing(s)'
    BY <1>5, <2>3, <2>4
  <2> QED
    BY <2>2, <2>5 DEF LoadedCurrent, Committed
<1>6. ASSUME NEW h \in Hosts, Crash(h) PROVE LoadedCurrent' /\ Committed'
  BY <1>6, <1>t DEF Crash, history, SerialInv, LoadedCurrent, Committed, Standing
<1>7. ASSUME NEW o \in Offers, NEW status \in ManualStatuses, UpsertOffer(o, status)
      PROVE  LoadedCurrent' /\ Committed'
  BY <1>7 DEF UpsertOffer, session, SerialInv, LoadedCurrent, Committed, Standing
<1>8. CASE UNCHANGED vars
  BY <1>8, <1>0 DEF vars, session, history, SerialInv, LoadedCurrent, Committed, Standing
<1> QED
  BY <1>0, <1>1, <1>2, <1>3, <1>4, <1>5, <1>6, <1>7, <1>8 DEF Next, Process, SerialInv

\* While sessions do not overlap, the decisions of a snapshot are committed again only
\* after a failing summary has retracted them, by whomever it is requested and whatever
\* lock an earlier session has leaked.
THEOREM SerialOnce == Spec /\ []Alone => []DecidedOnce
<1>1. Init => SerialInv
  <2> SUFFICES ASSUME Init PROVE SerialInv
    OBVIOUS
  <2>1. /\ \A p \in Processes : pc[p] = "idle"
        /\ \A s \in Snapshots : applied[s] = 0 /\ retracted[s] = 0 /\ snap[s] = "PENDING"
    BY DEF Init
  <2> QED
    BY <2>1, InitIInv DEF SerialInv, LoadedCurrent, Committed, Standing, Processed, Working
<1>2. Alone /\ Alone' /\ SerialInv /\ [Next]_vars => SerialInv'
  BY SerialStep
<1>3. SerialInv => DecidedOnce
  BY StandingBound DEF SerialInv, IInv, TypeOK, Committed, DecidedOnce
<1> QED
  BY <1>1, <1>2, <1>3, PTL DEF Spec

\* One worker: the three promises together, for every set of snapshots, offers and
\* lists, every threshold, caller and fault, and any pool.
OneProcess == \A p, q \in Processes : p = q

THEOREM OneWorker ==
  OneProcess => (Spec => [](LedgerOrdered /\ AvailabilityRecounted /\ DecidedOnce))
<1> SUFFICES ASSUME OneProcess
             PROVE  Spec => [](LedgerOrdered /\ AvailabilityRecounted /\ DecidedOnce)
  OBVIOUS
<1>1. OneAtATime /\ Alone
  BY DEF OneProcess, OneAtATime, Alone
<1> QED
  BY <1>1, NewestDecides, RowsRecounted, SerialOnce, PTL
==============================================================================
