----------------------- MODULE TelegramCollectorProofs -----------------------
(***************************************************************************)
(* Proofs about TelegramCollector, for every number of messages, edits and *)
(* faults.                                                                 *)
(***************************************************************************)
EXTENDS TelegramCollector, TLAPS

\* What may lie behind the cursor (NoneSkipped).
Good(m) == Dealt(m) \/ m \in lost \/ m \in cut

\* The session's cursor has passed only what is dealt with.
Covered == \A m \in 1..seen : Good(m)

\* Oldest first: what precedes a message still to be handled is done.
Handled == \A m \in Messages, k \in todo : m < k /\ m \notin todo => Good(m)

\* What the step reached says of the message being handled.
Handling ==
  \A m \in todo : Current(m) =>
    /\ pc \in {"recording", "revising"} => got[m] # Blank
    /\ pc \in {"refreshing", "saved", "created"} => rev[m] # <<>>

Between == pc \in {"idle", "fetching"} => todo = {}

TInv == TypeOK /\ Handling /\ Between

IInv == TInv /\ NoneSkipped /\ Covered /\ Handled

\* At most one message is the oldest.
LEMMA OneCurrent ==
  ASSUME TypeOK, NEW m \in todo, NEW n \in todo, Current(m), Current(n)
  PROVE  m = n
BY DEF TypeOK, Current

LEMMA Counted ==
  ASSUME TypeOK
  PROVE  /\ MaxMessages \in Nat
         /\ posted \in Nat
         /\ posted <= MaxMessages
         /\ \A m \in todo : m \in Messages /\ m \in Nat /\ m <= posted /\ m > 0
BY CollectorAssumption DEF TypeOK, Messages

LEMMA InitTInv == Init => TInv
<1> SUFFICES ASSUME Init PROVE TInv
  OBVIOUS
<1>1. /\ text \in [Messages -> Contents]
      /\ got \in [Messages -> Contents]
      /\ rev \in [Messages -> Seq(Texts)]
      /\ shots \in [Messages -> SUBSET Nat]
  BY DEF Init, Contents
<1>2. /\ posted \in 0..MaxMessages /\ edits \in 0..MaxEdits /\ faults \in 0..MaxFaults
      /\ cursor \in 0..posted /\ seen \in 0..posted
      /\ todo \subseteq 1..posted
  BY CollectorAssumption DEF Init
<1>3. TypeOK
  BY <1>1, <1>2 DEF Init, TypeOK, RunStatus, Steps
<1>4. Handling /\ Between
  BY DEF Init, Handling, Between
<1> QED
  BY <1>3, <1>4 DEF TInv

\* The session after the end of a run.
LEMMA Ended ==
  ASSUME TypeOK, EndRun
  PROVE  /\ pc' \in Steps
         /\ seen' \in 0..posted
         /\ todo' \subseteq 1..posted
         /\ got' \in [Messages -> Contents]
         /\ failed' \in BOOLEAN
         /\ trouble' \in BOOLEAN
<1>1. 0 \in 0..posted
  BY Counted
<1>2. [m \in Messages |-> Blank] \in [Messages -> Contents]
  BY DEF Contents
<1> QED
  BY <1>1, <1>2 DEF EndRun, Steps

LEMMA FaultCounted ==
  ASSUME TypeOK, NEW k, Fault(k)
  PROVE  faults' \in 0..MaxFaults
BY CollectorAssumption DEF TypeOK, Fault

LEMMA TypeStep ==
  ASSUME TInv, [Next]_vars
  PROVE  TInv'
<1> USE CollectorAssumption DEF TInv
<1>0. /\ MaxMessages \in Nat /\ posted \in Nat /\ posted <= MaxMessages
      /\ \A m \in todo : m \in Messages /\ m \in Nat /\ m <= posted /\ m > 0
  BY Counted
<1>1. ASSUME NEW t \in Contents, Post(t) PROVE TInv'
  <2>1. TypeOK'
    BY <1>0, <1>1 DEF Post, TypeOK, saved, session, history, Messages
  <2>2. Handling' /\ Between'
    BY <1>1 DEF Post, Handling, Between, saved, session, history, Current
  <2> QED
    BY <2>1, <2>2
<1>2. ASSUME NEW m \in Messages, NEW t \in Contents, Edit(m, t) PROVE TInv'
  <2>1. TypeOK'
    BY <1>2 DEF Edit, TypeOK, saved, session, history
  <2>2. Handling' /\ Between'
    BY <1>2 DEF Edit, Handling, Between, saved, session, history, Current
  <2> QED
    BY <2>1, <2>2
<1>3. CASE Start
  <2>1. TypeOK'
    BY <1>3 DEF Start, TypeOK, channel, saved, history, RunStatus, Steps
  <2>2. Handling' /\ Between'
    BY <1>3 DEF Start, Handling, Between
  <2> QED
    BY <2>1, <2>2
<1>4. ASSUME NEW mode \in Modes, Fetch(mode) PROVE TInv'
  <2>1. todo' \subseteq 1..posted
    BY <1>0, <1>4 DEF Fetch, Newest, Messages
  <2>2. got' \in [Messages -> Contents]
    BY <1>4 DEF Fetch, TypeOK, Contents
  <2>3. {m \in 1..posted : m \notin Newest} \subseteq Messages
    BY <1>0 DEF Messages
  <2>4. cut \subseteq Messages
    BY DEF TypeOK
  <2>5. cut' \subseteq Messages
    BY <1>4, <2>3, <2>4 DEF Fetch
  <2>6. TypeOK'
    BY <1>4, <2>1, <2>2, <2>5 DEF Fetch, TypeOK, channel, saved, RunStatus, Steps
  <2>7. Handling' /\ Between'
    BY <1>4 DEF Fetch, Handling, Between
  <2> QED
    BY <2>6, <2>7
<1>5. CASE FetchFails
  <2>1. TypeOK'
    BY <1>5, Ended, FaultCounted DEF FetchFails, TypeOK, channel, saved, RunStatus
  <2>2. Handling' /\ Between'
    BY <1>5 DEF FetchFails, EndRun, Handling, Between
  <2> QED
    BY <2>1, <2>2
<1>6. ASSUME NEW m \in Messages, Ignore(m) PROVE TInv'
  <2>1. UpTo(m) \in 0..posted
    BY <1>0, <1>6 DEF Ignore, Current, UpTo, TypeOK
  <2>2. TypeOK'
    BY <1>6, <2>1 DEF Ignore, TypeOK, channel, saved
  <2>3. Handling' /\ Between'
    BY <1>6 DEF Ignore, Handling, Between
  <2> QED
    BY <2>2, <2>3
<1>7. ASSUME NEW m \in Messages, Duplicate(m) PROVE TInv'
  <2>1. UpTo(m) \in 0..posted
    BY <1>0, <1>7 DEF Duplicate, Current, UpTo, TypeOK
  <2>2. TypeOK'
    BY <1>7, <2>1 DEF Duplicate, TypeOK, channel, saved, history
  <2>3. Handling' /\ Between'
    BY <1>7 DEF Duplicate, Handling, Between
  <2> QED
    BY <2>2, <2>3
<1>8. ASSUME NEW m \in Messages, Lookup(m) PROVE TInv'
  <2>1. TypeOK'
    BY <1>8 DEF Lookup, TypeOK, channel, saved, session, history, Steps
  <2>2. \A n \in todo : Current(n) => n = m
    BY <1>8, OneCurrent DEF Lookup, Current
  <2>3. Handling' /\ Between'
    BY <1>8, <2>2 DEF Lookup, Handling, Between, Current, session, saved
  <2> QED
    BY <2>1, <2>3
<1>9. ASSUME NEW m \in Messages, CreateRecord(m) PROVE TInv'
  <2>1. TypeOK'
    BY <1>9 DEF CreateRecord, Commit, TypeOK, channel, session, history, Steps
  <2>2. Handling' /\ Between'
    BY <1>9 DEF CreateRecord, Handling, Between, Current, session
  <2> QED
    BY <2>1, <2>2
<1>10. ASSUME NEW m \in Messages, SaveRevision(m) PROVE TInv'
  <2>2. got[m] \in Texts
    BY <1>10 DEF SaveRevision, Handling, Current, TypeOK, Contents
  <2>3. rev[m] \in Seq(Texts)
    BY DEF TypeOK
  <2>4. Append(rev[m], got[m]) \in Seq(Texts) /\ Append(rev[m], got[m]) # <<>>
    BY <2>2, <2>3
  <2>5. TypeOK'
    BY <1>10, <2>4 DEF SaveRevision, Commit, TypeOK, channel, session, history, Steps
  <2>6. \A n \in todo : Current(n) => n = m
    BY <1>10, OneCurrent DEF SaveRevision, Current
  <2>7. Handling' /\ Between'
    BY <1>10, <2>4, <2>6 DEF SaveRevision, Handling, Between, Current, TypeOK, session
  <2> QED
    BY <2>5, <2>7
<1>20. ASSUME NEW m \in Messages, Refresh(m) PROVE TInv'
  <2>1. UpTo(m) \in 0..posted
    BY <1>0, <1>20 DEF Refresh, Current, UpTo, TypeOK
  <2>2. TypeOK'
    BY <1>20, <2>1 DEF Refresh, TypeOK, channel, saved, history, Steps
  <2>3. Handling' /\ Between'
    BY <1>20 DEF Refresh, Handling, Between, Current, saved
  <2> QED
    BY <2>2, <2>3
<1>11. ASSUME NEW m \in Messages, GiveUp(m), faults' \in 0..MaxFaults, lost' \subseteq Messages,
              shots' = shots, orphans' \subseteq Messages \X Nat
       PROVE  TInv'
  <2>1. TypeOK'
    BY <1>11 DEF GiveUp, Failure, TypeOK, channel, Steps
  <2>2. Handling' /\ Between'
    BY <1>11 DEF GiveUp, Failure, Handling, Between
  <2> QED
    BY <2>1, <2>2
<1>12. ASSUME NEW m \in Messages, RevisionRepeated(m) PROVE TInv'
  BY <1>11, <1>12 DEF RevisionRepeated, TypeOK
<1>13. ASSUME NEW m \in Messages, PersistFails(m) PROVE TInv'
  BY <1>11, <1>13, FaultCounted DEF PersistFails, TypeOK
<1>14. ASSUME NEW m \in Messages, ProcessingFails(m) PROVE TInv'
  BY <1>11, <1>14, FaultCounted DEF ProcessingFails, TypeOK
<1>21. ASSUME NEW m \in Messages, RefreshFails(m) PROVE TInv'
  <2>1. <<m, Len(rev[m])>> \in Messages \X Nat
    BY DEF TypeOK
  <2>2. orphans' \subseteq Messages \X Nat
    BY <1>21, <2>1 DEF RefreshFails, Orphaned, TypeOK
  <2> QED
    BY <1>11, <1>21, <2>2, FaultCounted DEF RefreshFails, TypeOK
<1>15. ASSUME NEW m \in Messages, CreateSnapshot(m) PROVE TInv'
  <2>1. Len(rev[m]) \in Nat
    BY DEF TypeOK
  <2>2. TypeOK'
    BY <1>15, <2>1 DEF CreateSnapshot, Commit, TypeOK, channel, session, history, Steps
  <2>3. Handling' /\ Between'
    BY <1>15 DEF CreateSnapshot, Handling, Between, Current, session
  <2> QED
    BY <2>2, <2>3
<1>16. ASSUME NEW m \in Messages, ProcessSnapshot(m) PROVE TInv'
  <2>1. TypeOK'
    BY <1>16 DEF ProcessSnapshot, TypeOK, channel, saved, history, Steps
  <2>2. Handling' /\ Between'
    BY <1>16 DEF ProcessSnapshot, Handling, Between
  <2> QED
    BY <2>1, <2>2
<1>17. CASE Finish
  <2>1. TypeOK'
    BY <1>17, Ended DEF Finish, Commit, TypeOK, channel, saved, RunStatus
  <2>2. Handling' /\ Between'
    BY <1>17 DEF Finish, EndRun, Handling, Between
  <2> QED
    BY <2>1, <2>2
<1>18. CASE Crash
  <2>1. \A m \in todo : <<m, Len(rev[m])>> \in Messages \X Nat
    BY <1>0 DEF TypeOK
  <2>2. orphans' \subseteq Messages \X Nat
    BY <1>18, <2>1 DEF Crash, Orphaned, TypeOK
  <2>3. TypeOK'
    BY <1>18, <2>2, Ended, FaultCounted DEF Crash, TypeOK, channel, saved
  <2>4. Handling' /\ Between'
    BY <1>18 DEF Crash, EndRun, Handling, Between
  <2> QED
    BY <2>3, <2>4
<1>19. CASE UNCHANGED vars
  BY <1>19 DEF vars, channel, saved, session, history, TypeOK, Handling, Between, Current
<1> QED
  BY <1>1, <1>2, <1>3, <1>4, <1>5, <1>6, <1>7, <1>8, <1>9, <1>10, <1>12, <1>13, <1>14,
     <1>15, <1>16, <1>17, <1>18, <1>19, <1>20, <1>21 DEF Next, Run, Handle

\* TypeOK holds in every reachable state.
THEOREM TypeCorrect == Spec => []TypeOK
<1>1. TInv /\ [Next]_vars => TInv'
  BY TypeStep
<1>2. TInv => TypeOK
  BY DEF TInv
<1> QED
  BY InitTInv, <1>1, <1>2, PTL DEF Spec

\* What is dealt with stays so.
LEMMA Kept ==
  ASSUME TInv, [Next]_vars, NEW m \in Messages, Good(m)
  PROVE  Good(m)'
<1> USE DEF Good, Dealt, TInv
<1>1. ASSUME NEW n \in Messages, SaveRevision(n) PROVE Good(m)'
  <2>1. rev[m] \in Seq(Texts) /\ rev[n] \in Seq(Texts)
    BY DEF TypeOK
  <2>2. Append(rev[n], got[n]) # <<>>
    BY <2>1
  <2> QED
    BY <1>1, <2>2 DEF SaveRevision, history, TypeOK
<1>2. CASE \E n \in Messages : GiveUp(n) /\ lost \subseteq lost'
  BY <1>2 DEF GiveUp
<1>3. CASE \E n \in Messages : \/ PersistFails(n) \/ RefreshFails(n)
                               \/ ProcessingFails(n) \/ RevisionRepeated(n)
  BY <1>2, <1>3 DEF PersistFails, RefreshFails, ProcessingFails, RevisionRepeated
<1>4. CASE \E n \in Messages : \/ Ignore(n) \/ Duplicate(n) \/ Lookup(n)
                               \/ CreateRecord(n) \/ Refresh(n) \/ CreateSnapshot(n)
                               \/ ProcessSnapshot(n)
  BY <1>4 DEF Ignore, Duplicate, Lookup, CreateRecord, Refresh, CreateSnapshot, ProcessSnapshot,
     saved, history
<1>5. CASE Start \/ Finish \/ FetchFails \/ Crash \/ \E mode \in Modes : Fetch(mode)
  BY <1>5 DEF Start, Finish, FetchFails, Crash, Fetch, saved, history
<1>6. CASE \/ \E t \in Contents : Post(t)
           \/ \E n \in Messages, t \in Contents : Edit(n, t)
           \/ UNCHANGED vars
  BY <1>6 DEF Post, Edit, vars, saved, history
<1> QED
  BY <1>1, <1>3, <1>4, <1>5, <1>6 DEF Next, Run, Handle

\* Messages are handled oldest first, so the cursor may move to the current one as
\* soon as that one is dealt with.
LEMMA Advance ==
  ASSUME TInv, Covered, Handled, NEW m \in todo, Current(m), NEW n \in 1..UpTo(m), n # m
  PROVE  n \in Messages /\ Good(n)
<1> USE DEF TInv
<1>1. /\ posted \in Nat /\ posted <= MaxMessages /\ MaxMessages \in Nat
      /\ m \in Messages /\ m \in Nat /\ m <= posted
  BY Counted
<1>2. seen \in Nat /\ seen <= posted
  BY <1>1 DEF TypeOK
<1>3. n \in Messages
  BY <1>1, <1>2 DEF UpTo, Messages
<1>4. CASE n \in 1..seen
  BY <1>3, <1>4 DEF Covered
<1>5. CASE n \notin 1..seen
  <2>1. n < m
    BY <1>1, <1>2, <1>5 DEF UpTo
  <2>2. n \notin todo
    BY <1>1, <2>1 DEF Current
  <2> QED
    BY <1>3, <2>1, <2>2 DEF Handled
<1> QED
  BY <1>4, <1>5

LEMMA CursorStep ==
  ASSUME IInv, [Next]_vars
  PROVE  NoneSkipped' /\ Covered' /\ Handled'
<1> USE CollectorAssumption DEF IInv
<1>1. /\ MaxMessages \in Nat /\ posted \in Nat /\ posted <= MaxMessages
      /\ cursor \in 0..posted /\ seen \in 0..posted
      /\ 1..cursor \subseteq Messages /\ 1..seen \subseteq Messages
      /\ todo \subseteq Messages
  <2>1. TypeOK
    BY DEF TInv
  <2> QED
    BY <2>1, Counted DEF TypeOK, Messages
<1>2. \A m \in Messages : Good(m) => Good(m)'
  BY Kept
\* The four things a step does to the cursor and to the batch.
<1>3. ASSUME cursor' \in {cursor, seen} PROVE NoneSkipped'
  <2>1. \A m \in 1..cursor' : Good(m)
    BY <1>1, <1>3 DEF NoneSkipped, Covered, Good
  <2>2. \A m \in 1..cursor' : Good(m)'
    BY <1>1, <1>2, <1>3, <2>1
  <2> QED
    BY <2>2 DEF NoneSkipped, Good, Dealt
<1>4. ASSUME seen' \in {cursor, seen, 0} PROVE Covered'
  <2>1. \A m \in 1..seen' : m \in Messages /\ Good(m)
    BY <1>1, <1>4 DEF NoneSkipped, Covered, Good
  <2>2. \A m \in 1..seen' : Good(m)'
    BY <1>2, <2>1
  <2> QED
    BY <2>2 DEF Covered
<1>5. ASSUME NEW m \in todo, Current(m), Good(m)', seen' = UpTo(m) PROVE Covered'
  <2>1. \A n \in 1..seen' : n # m => Good(n)'
    BY <1>2, <1>5, Advance
  <2> QED
    BY <1>5, <2>1 DEF Covered
<1>6. ASSUME todo' \in {todo, {}} PROVE Handled'
  BY <1>1, <1>2, <1>6 DEF Handled
<1>7. ASSUME NEW m \in todo, Good(m)', todo' = todo \ {m} PROVE Handled'
  BY <1>1, <1>2, <1>7 DEF Handled
<1>8. \A m \in todo : rev[m] \in Seq(Texts)
  BY <1>1 DEF TInv, TypeOK
\* The steps.
<1>9. CASE \/ \E t \in Contents : Post(t)
           \/ \E m \in Messages, t \in Contents : Edit(m, t)
           \/ Start
           \/ \E m \in Messages : Lookup(m) \/ CreateRecord(m) \/ CreateSnapshot(m)
           \/ UNCHANGED vars
  <2>1. cursor' \in {cursor, seen} /\ seen' \in {cursor, seen, 0} /\ todo' \in {todo, {}}
    BY <1>9 DEF Post, Edit, Start, Lookup, CreateRecord, CreateSnapshot, Commit, session, vars
  <2> QED
    BY <1>3, <1>4, <1>6, <2>1
<1>10. CASE FetchFails \/ Finish \/ Crash
  <2>1. cursor' \in {cursor, seen} /\ seen' \in {cursor, seen, 0} /\ todo' \in {todo, {}}
    BY <1>10 DEF FetchFails, Finish, Crash, EndRun, Commit
  <2> QED
    BY <1>3, <1>4, <1>6, <2>1
<1>11. ASSUME NEW mode \in Modes, Fetch(mode) PROVE NoneSkipped' /\ Covered' /\ Handled'
  <2>1. NoneSkipped' /\ Covered'
    BY <1>3, <1>4, <1>11 DEF Fetch
  <2>2. ASSUME NEW m \in Messages, NEW k \in todo', m < k, m \notin todo' PROVE Good(m)'
    <3>1. m \in 1..posted
      BY <1>1, <1>11, <2>2 DEF Fetch, Newest, Messages
    <3>2. CASE m \notin Newest
      BY <1>11, <3>1, <3>2 DEF Fetch, Good
    <3>3. CASE m \in Newest
      <4>1. m \in 1..seen
        BY <1>1, <1>11, <2>2, <3>1, <3>3 DEF Fetch
      <4> QED
        BY <1>1, <1>2, <4>1 DEF Covered
    <3> QED
      BY <3>2, <3>3
  <2>3. Handled'
    BY <2>2 DEF Handled
  <2> QED
    BY <2>1, <2>3
<1>12. ASSUME NEW m \in Messages, Ignore(m) \/ Duplicate(m) PROVE NoneSkipped' /\ Covered' /\ Handled'
  <2>1. m \in todo /\ Current(m) /\ cursor' = cursor /\ seen' = UpTo(m) /\ todo' = todo \ {m}
    BY <1>12 DEF Ignore, Duplicate, Current
  <2>2. Good(m)'
    BY <1>12, <1>2 DEF Ignore, Duplicate, LastIs, Good, Dealt
  <2> QED
    BY <1>3, <1>5, <1>7, <2>1, <2>2
<1>13. ASSUME NEW m \in Messages, SaveRevision(m) PROVE NoneSkipped' /\ Covered' /\ Handled'
  <2>1. cursor' = seen /\ seen' = seen /\ todo' = todo
    BY <1>13 DEF SaveRevision, Commit, session
  <2> QED
    BY <1>3, <1>4, <1>6, <2>1
<1>19. ASSUME NEW m \in Messages, Refresh(m) PROVE NoneSkipped' /\ Covered' /\ Handled'
  <2>1. m \in todo /\ Current(m) /\ cursor' = cursor /\ seen' = UpTo(m) /\ todo' = todo
    BY <1>19 DEF Refresh, Current
  <2>2. rev[m] # <<>>
    BY <1>19, <2>1 DEF Refresh, TInv, Handling
  <2>3. Good(m)'
    BY <1>2, <1>19, <2>2 DEF Good, Dealt
  <2> QED
    BY <1>3, <1>5, <1>6, <2>1, <2>3
<1>14. ASSUME NEW m \in Messages, ProcessSnapshot(m) PROVE NoneSkipped' /\ Covered' /\ Handled'
  <2>1. m \in todo /\ cursor' = cursor /\ seen' = seen /\ todo' = todo \ {m}
    BY <1>14 DEF ProcessSnapshot, Current
  <2>2. Good(m)
    BY <1>14, <2>1 DEF ProcessSnapshot, TInv, Handling, Good, Dealt
  <2> QED
    BY <1>2, <1>3, <1>4, <1>7, <2>1, <2>2
<1>15. ASSUME NEW m \in Messages, GiveUp(m), Good(m)' PROVE NoneSkipped' /\ Covered' /\ Handled'
  <2>1. m \in todo /\ cursor' = cursor /\ seen' = cursor /\ todo' = todo \ {m}
    BY <1>15 DEF GiveUp, Failure, Current
  <2> QED
    BY <1>3, <1>4, <1>7, <1>15, <2>1
<1>16. ASSUME NEW m \in Messages, RevisionRepeated(m) PROVE GiveUp(m) /\ Good(m)'
  <2>1. m \in todo
    BY <1>16 DEF RevisionRepeated, GiveUp, Current
  <2>2. rev[m] # <<>>
    BY <1>8, <1>16, <2>1 DEF RevisionRepeated, Repeated
  <2> QED
    BY <1>2, <1>16, <2>2 DEF RevisionRepeated, Good, Dealt
<1>17. ASSUME NEW m \in Messages, PersistFails(m) PROVE GiveUp(m) /\ Good(m)'
  BY <1>17 DEF PersistFails, Good
<1>18. ASSUME NEW m \in Messages, ProcessingFails(m) PROVE GiveUp(m) /\ Good(m)'
  <2>1. Good(m)
    BY <1>18 DEF ProcessingFails, GiveUp, Current, TInv, Handling, Good, Dealt
  <2> QED
    BY <1>2, <1>18, <2>1 DEF ProcessingFails
<1>20. ASSUME NEW m \in Messages, RefreshFails(m) PROVE GiveUp(m) /\ Good(m)'
  <2>1. Good(m)
    BY <1>20 DEF RefreshFails, GiveUp, Current, TInv, Handling, Good, Dealt
  <2> QED
    BY <1>2, <1>20, <2>1 DEF RefreshFails
<1> QED
  BY <1>9, <1>10, <1>11, <1>12, <1>13, <1>14, <1>15, <1>16, <1>17, <1>18, <1>19, <1>20
     DEF Next, Run, Handle

\* Whatever the limit, the faults, the edits and the length of the channel, the
\* stored cursor passes only messages dealt with, lost to an exception while they
\* were persisted, or hidden from a fetch by its limit.
THEOREM CursorSafe == Spec => []NoneSkipped
<1>1. Init => IInv
  BY InitTInv DEF Init, IInv, NoneSkipped, Covered, Handled
<1>2. IInv /\ [Next]_vars => IInv'
  BY TypeStep, CursorStep DEF IInv
<1>3. IInv => NoneSkipped
  BY DEF IInv
<1> QED
  BY <1>1, <1>2, <1>3, PTL DEF Spec

-----------------------------------------------------------------------------
(***************************************************************************)
(* What COMPLETED means.  An auxiliary invariant says what each step of a  *)
(* run knows of the messages of its batch.                                 *)
(***************************************************************************)
\* The last revision of a message has its snapshot, or its handling was cut short.
Backed(m) == Len(rev[m]) \in shots[m] \/ <<m, Len(rev[m])>> \in orphans

\* The revision is committed, its snapshot is not.
Waiting == pc \in {"refreshing", "saved"}

\* Only the message being handled may wait for its snapshot.
Evidence ==
  \A m \in Messages : rev[m] # <<>> => Backed(m) \/ (Waiting /\ m \in todo /\ Current(m))

\* The revision just saved is the text that was fetched.
Written ==
  \A m \in todo : Current(m) /\ pc \in {"refreshing", "saved", "created"} => LastIs(m, got[m])

\* Until an exception, the messages handled so far are stored as fetched.
Stored == ~failed => \A m \in Messages : got[m] # Blank => m \in todo \/ LastIs(m, got[m])

\* Exceptions are counted, and a run that goes on has no result yet.
Reported == (trouble => failed) /\ (pc # "idle" => status = "RUNNING")

CInv == TInv /\ Evidence /\ Written /\ Stored /\ Reported

\* Appending the fetched text makes it the last revision.
LEMMA Revised ==
  ASSUME TypeOK, NEW m \in Messages, got[m] \in Texts, rev' = [rev EXCEPT ![m] = Append(@, got[m])],
         got' = got
  PROVE  LastIs(m, got[m])' /\ \A n \in Messages \ {m} : rev'[n] = rev[n]
<1>1. rev \in [Messages -> Seq(Texts)] /\ rev[m] \in Seq(Texts)
  BY DEF TypeOK
<1>2. rev'[m] = Append(rev[m], got[m]) /\ \A n \in Messages \ {m} : rev'[n] = rev[n]
  BY <1>1
<1>3. Append(rev[m], got[m]) # <<>>
      /\ Append(rev[m], got[m])[Len(Append(rev[m], got[m]))] = got[m]
  BY <1>1
<1> QED
  BY <1>2, <1>3 DEF LastIs

\* Every step preserves what the run knows.
LEMMA CoverStep ==
  ASSUME CInv, [Next]_vars
  PROVE  CInv'
<1> USE DEF CInv, Waiting
<1>0. /\ TInv'
      /\ TypeOK
      /\ todo \subseteq Messages
      /\ \A m, n \in todo : Current(m) /\ Current(n) => m = n
      /\ rev \in [Messages -> Seq(Texts)] /\ shots \in [Messages -> SUBSET Nat]
  BY TypeStep, Counted, OneCurrent DEF TInv, TypeOK
<1>1. ASSUME \/ \E t \in Contents : Post(t)
             \/ \E m \in Messages, t \in Contents : Edit(m, t)
             \/ UNCHANGED vars
      PROVE  CInv'
  BY <1>0, <1>1 DEF Post, Edit, vars, saved, session, history, Evidence, Backed, Written, Stored,
     Reported, LastIs, Current
<1>2. CASE Start
  BY <1>0, <1>2 DEF Start, saved, history, TInv, Between, Evidence, Backed, Written, Stored,
     Reported, LastIs, Current
<1>3. ASSUME NEW mode \in Modes, Fetch(mode) PROVE CInv'
  <2>1. Evidence' /\ Written' /\ Reported'
    BY <1>3 DEF Fetch, saved, Evidence, Backed, Written, Reported
  <2>2. Stored'
    BY <1>3 DEF Fetch, Stored
  <2> QED
    BY <1>0, <2>1, <2>2
\* The three ends of a run.
<1>4. ASSUME EndRun, UNCHANGED <<rev, shots>>, orphans \subseteq orphans',
             \A m \in todo : Waiting /\ Current(m) => <<m, Len(rev[m])>> \in orphans'
      PROVE  CInv'
  <2>1. Evidence'
    BY <1>0, <1>4 DEF Evidence, Backed
  <2>2. Written' /\ Stored' /\ Reported'
    BY <1>4 DEF EndRun, Written, Stored, Reported
  <2> QED
    BY <1>0, <2>1, <2>2
<1>5. CASE FetchFails
  BY <1>4, <1>5 DEF FetchFails, saved
<1>6. CASE Finish
  BY <1>4, <1>6 DEF Finish, saved
<1>7. CASE Crash
  <2>1. \A m \in todo : Waiting /\ Current(m) => <<m, Len(rev[m])>> \in orphans'
    BY <1>0, <1>7 DEF Crash, Orphaned
  <2>2. orphans \subseteq orphans'
    BY <1>7 DEF Crash, Orphaned
  <2> QED
    BY <1>4, <1>7, <2>1, <2>2 DEF Crash, saved
\* The messages.
<1>8. ASSUME NEW m \in Messages, Ignore(m) \/ Duplicate(m) PROVE CInv'
  <2>1. /\ m \in todo /\ pc = "messages" /\ pc' = pc /\ todo' = todo \ {m} /\ got' = got
        /\ failed' = failed /\ trouble' = trouble /\ status' = status
        /\ rev' = rev /\ shots' = shots /\ orphans' = orphans
        /\ got[m] = Blank \/ LastIs(m, got[m])
    BY <1>8 DEF Ignore, Duplicate, Current, saved, history
  <2>2. Evidence' /\ Written' /\ Reported'
    BY <2>1 DEF Evidence, Backed, Written, Reported
  <2>3. Stored'
    BY <2>1 DEF Stored, LastIs
  <2> QED
    BY <1>0, <2>2, <2>3
<1>9. ASSUME NEW m \in Messages, Lookup(m) \/ CreateRecord(m) PROVE CInv'
  <2>1. /\ pc \in {"messages", "recording"} /\ pc' \in {"recording", "revising"}
        /\ todo' = todo /\ got' = got /\ failed' = failed /\ trouble' = trouble
        /\ status' = status /\ rev' = rev /\ shots' = shots /\ orphans' = orphans
    BY <1>9 DEF Lookup, CreateRecord, session, saved, history
  <2>2. Evidence' /\ Written' /\ Reported' /\ Stored'
    BY <2>1 DEF Evidence, Backed, Written, Reported, Stored, LastIs
  <2> QED
    BY <1>0, <2>2
<1>10. ASSUME NEW m \in Messages, SaveRevision(m) PROVE CInv'
  <2>1. m \in todo /\ Current(m) /\ pc = "revising" /\ got[m] \in Texts
    BY <1>10 DEF SaveRevision, Current, TInv, Handling, TypeOK, Contents
  <2>2. /\ pc' = "refreshing" /\ todo' = todo /\ got' = got /\ failed' = failed
        /\ trouble' = trouble /\ status' = status /\ shots' = shots /\ orphans' = orphans
        /\ rev' = [rev EXCEPT ![m] = Append(@, got[m])]
    BY <1>10 DEF SaveRevision, session, history
  <2>3. LastIs(m, got[m])' /\ \A n \in Messages \ {m} : rev'[n] = rev[n]
    BY <1>0, <2>1, <2>2, Revised
  <2>4. \A n \in todo : Current(n)' => n = m
    BY <1>0, <2>1, <2>2 DEF Current
  <2>5. Evidence'
    BY <2>1, <2>2, <2>3 DEF Evidence, Backed, Current
  <2>6. Written'
    BY <2>2, <2>3, <2>4 DEF Written
  <2>7. Stored' /\ Reported'
    BY <2>1, <2>2, <2>3 DEF Stored, Reported, LastIs
  <2> QED
    BY <1>0, <2>5, <2>6, <2>7
<1>15. ASSUME NEW m \in Messages, Refresh(m) PROVE CInv'
  <2>1. /\ pc = "refreshing" /\ pc' = "saved" /\ todo' = todo /\ got' = got /\ failed' = failed
        /\ trouble' = trouble /\ status' = status /\ rev' = rev /\ shots' = shots
        /\ orphans' = orphans
    BY <1>15 DEF Refresh, saved, history
  <2>2. Evidence' /\ Written' /\ Stored' /\ Reported'
    BY <2>1 DEF Evidence, Backed, Written, Stored, Reported, LastIs, Current
  <2> QED
    BY <1>0, <2>2
<1>11. ASSUME NEW m \in Messages, GiveUp(m), shots' = shots, orphans \subseteq orphans',
              Waiting => <<m, Len(rev[m])>> \in orphans'
       PROVE  CInv'
  <2>1. /\ pc' = "messages" /\ trouble' /\ failed' /\ status' = status /\ rev' = rev
    BY <1>11 DEF GiveUp, Failure
  <2>2. pc # "idle"
    BY <1>11 DEF GiveUp, Current, TInv, Between
  <2>3. m \in todo /\ Current(m)
    BY <1>11 DEF GiveUp, Current
  <2>4. Evidence'
    BY <1>0, <1>11, <2>1, <2>3 DEF Evidence, Backed
  <2>5. Written' /\ Stored' /\ Reported'
    BY <1>11, <2>1, <2>2 DEF Written, Stored, Reported
  <2> QED
    BY <1>0, <2>4, <2>5
<1>12. ASSUME NEW m \in Messages, RevisionRepeated(m) \/ PersistFails(m) \/ ProcessingFails(m)
       PROVE  CInv'
  BY <1>11, <1>12 DEF RevisionRepeated, PersistFails, ProcessingFails
<1>16. ASSUME NEW m \in Messages, RefreshFails(m) PROVE CInv'
  BY <1>11, <1>16 DEF RefreshFails, Orphaned
<1>13. ASSUME NEW m \in Messages, CreateSnapshot(m) PROVE CInv'
  <2>1. m \in todo /\ Current(m) /\ pc = "saved"
    BY <1>13 DEF CreateSnapshot, Current
  <2>2. /\ pc' = "created" /\ todo' = todo /\ got' = got /\ failed' = failed
        /\ trouble' = trouble /\ status' = status /\ rev' = rev /\ orphans' = orphans
        /\ shots' = [shots EXCEPT ![m] = @ \cup {Len(rev[m])}]
    BY <1>13 DEF CreateSnapshot, session, history
  <2>3. Evidence'
    BY <1>0, <2>1, <2>2 DEF Evidence, Backed
  <2>4. Written' /\ Stored' /\ Reported'
    BY <2>1, <2>2 DEF Written, Stored, Reported, LastIs, Current
  <2> QED
    BY <1>0, <2>3, <2>4
<1>14. ASSUME NEW m \in Messages, ProcessSnapshot(m) PROVE CInv'
  <2>1. m \in todo /\ Current(m) /\ pc = "created" /\ LastIs(m, got[m])
    BY <1>14 DEF ProcessSnapshot, Current, Written
  <2>2. /\ pc' = "messages" /\ todo' = todo \ {m} /\ got' = got /\ failed' = failed
        /\ trouble' = trouble /\ status' = status /\ rev' = rev /\ shots' = shots
        /\ orphans' = orphans
    BY <1>14 DEF ProcessSnapshot, saved, history
  <2>3. Evidence' /\ Written' /\ Reported'
    BY <2>1, <2>2 DEF Evidence, Backed, Written, Reported
  <2>4. Stored'
    BY <2>1, <2>2 DEF Stored, LastIs
  <2> QED
    BY <1>0, <2>3, <2>4
<1> QED
  BY <1>1, <1>2, <1>3, <1>5, <1>6, <1>7, <1>8, <1>9, <1>10, <1>12, <1>13, <1>14,
     <1>15, <1>16 DEF Next, Run, Handle

\* Whatever is posted and edited during the run, and whatever earlier runs died of:
\* COMPLETED means no exception, and each fetched text the last revision, with its
\* snapshot unless the handling of that revision, in an earlier run, was killed or
\* raised between the two commits.
THEOREM CompletedMeans == Spec => CompletedCovers
<1>1. Init => CInv
  BY InitTInv DEF Init, CInv, Evidence, Written, Stored, Reported
<1>2. CInv /\ [Next]_vars => CInv'
  BY CoverStep
<1>3. CInv /\ [Next]_vars =>
        [pc = "messages" /\ pc' = "idle" /\ status' = "COMPLETED" =>
           /\ ~trouble
           /\ \A m \in Messages : got[m] # Blank =>
                /\ LastIs(m, got[m])
                /\ Len(rev[m]) \in shots[m] \/ <<m, Len(rev[m])>> \in orphans]_vars
  <2> SUFFICES ASSUME CInv, Next, pc = "messages", pc' = "idle", status' = "COMPLETED"
               PROVE  /\ ~trouble
                      /\ \A m \in Messages : got[m] # Blank => LastIs(m, got[m]) /\ Backed(m)
    BY DEF Backed
  <2>1. CASE Finish
    <3>1. todo = {} /\ ~failed
      BY <2>1 DEF Finish
    <3>2. \A m \in Messages : got[m] # Blank => LastIs(m, got[m])
      BY <3>1 DEF CInv, Stored
    <3> QED
      BY <3>1, <3>2 DEF CInv, Reported, Evidence, LastIs
  <2>2. CASE Crash
    BY <2>2 DEF Crash, CInv, Reported
  <2>3. Finish \/ Crash
    BY DEF Next, Run, Handle, Post, Edit, Start, Fetch, FetchFails, Ignore, Duplicate, Lookup,
       CreateRecord, SaveRevision, Refresh, RevisionRepeated, PersistFails, RefreshFails, CreateSnapshot,
       ProcessSnapshot, ProcessingFails, GiveUp, Failure
  <2> QED
    BY <2>1, <2>2, <2>3
<1> QED
  BY <1>1, <1>2, <1>3, PTL DEF Spec, CompletedCovers
==============================================================================
