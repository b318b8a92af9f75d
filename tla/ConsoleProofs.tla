---------------------------- MODULE ConsoleProofs ----------------------------
(***************************************************************************)
(* Theorems about Console, for any number of tabs, names, variants,        *)
(* aliases and requests: its types, the supplier table, and that names and *)
(* aliases are doubled only by requests handled at the same time, or names *)
(* by the endpoint that looks nothing up.                                  *)
(***************************************************************************)
EXTENDS Console, FiniteSetTheorems, WellFoundedInduction, TLAPS

(***************************************************************************)
(* The inductive invariant.                                                *)
(***************************************************************************)
Supplying == {"name", "code", "insert"}
Onboarding == {"select", "commit"}
Early == {"sent"} \cup Supplying \cup Onboarding
Forms == {"suppliers", "telegram"}

\* A request is sent once, and what it stores bears its number.
Numbered ==
  /\ \A i \in CallIds : i > sent => call[i].at = "none"
  /\ \A r \in suppliers \cup aliases : r.id <= sent
  /\ \A i \in CallIds : call[i].at \in Early => \A r \in suppliers \cup aliases : r.id # i
  /\ \A r, s \in suppliers : r.id = s.id => r = s

\* A handler is at a step of its operation; its good answer has a row behind it.
Routed ==
  \A i \in CallIds :
    /\ call[i].at \in Supplying => call[i].op = "supplier"
    /\ call[i].at \in Onboarding => call[i].op = "product"
    /\ call[i].at = "answered" /\ call[i].ok /\ call[i].op = "supplier" => i \in Ids

\* Handlers that run together have met,
Met == \A i, j \in Handling : i # j => i \in met[j]

\* and what a select missed is of a request that it has met, or was posted after.
Both(i, j) == i \in met[j] /\ j \in met[i]

Searched ==
  \A i \in CallIds :
    /\ call[i].at \in {"code", "insert"} =>
         \A s \in suppliers : s.name = call[i].name =>
           Both(i, s.id) \/ (s.id \in posted /\ i < s.id)
    /\ call[i].at = "commit" /\ call[i].newAlias =>
         /\ call[i].alias # NoAlias
         /\ \A a \in aliases : a.alias = call[i].alias => Both(i, a.id)

Apart == NamesUnlessOverlap /\ AliasUnlessOverlap

\* A form waits for one request, and the rows it will write back are still its
\* own; only the onboarding form may wait for several.
Waiting ==
  \A i \in CallIds : call[i].open =>
    LET c == call[i]  t == tab[call[i].tab] IN
    /\ \A u \in Tabs : i \notin told[u]
    /\ c.op = "product" => t.view = "onboarding"
    /\ c.op # "product" =>
         t.busy /\ \A j \in CallIds : j # i /\ call[j].open => call[j].tab # c.tab
    /\ c.op = "login" => t.view = "login"
    /\ c.op = "supplier" => t.view \in Forms /\ c.rows = t.rows /\ c.total = t.total

\* Only the supplier forms tell of suppliers.
Telling == \A t \in Tabs : tab[t].view \notin Forms => told[t] = {}

Rows  == Numbered /\ Routed /\ Met /\ Searched /\ Apart
Pages == Waiting /\ Telling /\ TableTrue

IInv == TypeOK /\ Rows /\ Pages

(***************************************************************************)
(* What the updates of one request leave alone.                            *)
(***************************************************************************)
Only(i) == call' \in [CallIds -> CallState] /\ \A j \in CallIds \ {i} : call'[j] = call[j]

\* What the tab that waits knows of it.
Held(i) ==
  /\ call'[i].op = call[i].op /\ call'[i].tab = call[i].tab
  /\ call'[i].rows = call[i].rows /\ call'[i].total = call[i].total

LEMMA NoCallType == NoCall \in CallState
BY ConsoleAssumption DEF NoCall, CallState, Sessions, CallIds, Codes

LEMMA CallType ==
  ASSUME TypeOK, NEW i \in CallIds
  PROVE  call[i] \in CallState
BY DEF TypeOK

LEMMA Answered ==
  ASSUME TypeOK, NEW i \in CallIds, NEW ok \in BOOLEAN, Answer(i, ok)
  PROVE  /\ Only(i) /\ Held(i)
         /\ call'[i].at = "answered" /\ call'[i].ok = ok /\ call'[i].open = call[i].open
<1> DEFINE c == call[i]
           r == [NoCall EXCEPT !.op = c.op, !.tab = c.tab, !.rows = c.rows, !.total = c.total,
                               !.at = "answered", !.ok = ok, !.open = c.open]
<1>1. call' = [call EXCEPT ![i] = r]
  BY DEF Answer
<1>2. /\ r \in CallState /\ r.at = "answered" /\ r.ok = ok /\ r.open = c.open
      /\ r.op = c.op /\ r.tab = c.tab /\ r.rows = c.rows /\ r.total = c.total
  BY NoCallType, CallType DEF CallState
<1> HIDE DEF r
<1> QED
  BY <1>1, <1>2 DEF Only, Held, TypeOK

\* A handler goes from one step to another.
Step(i, step) ==
  /\ Only(i) /\ Held(i)
  /\ call'[i].at = step /\ call'[i].open = call[i].open
  /\ call'[i].name = call[i].name

Stages == {"none", "sent", "name", "code", "insert", "select", "commit", "answered"}

LEMMA Stepped ==
  ASSUME TypeOK, NEW i \in CallIds, NEW step \in Stages,
         call' = [call EXCEPT ![i].at = step]
  PROVE  Step(i, step)
<1> DEFINE r == [call[i] EXCEPT !.at = step]
<1>1. call' = [call EXCEPT ![i] = r]
  OBVIOUS
<1>2. /\ r \in CallState /\ r.at = step /\ r.open = call[i].open /\ r.name = call[i].name
      /\ r.op = call[i].op /\ r.tab = call[i].tab
      /\ r.rows = call[i].rows /\ r.total = call[i].total
  BY CallType DEF CallState, Stages
<1> HIDE DEF r
<1> QED
  BY <1>1, <1>2 DEF Step, Only, Held, TypeOK

\* Nothing a page shows is touched by a handler.
LEMMA PagesFrame ==
  ASSUME TypeOK, Pages, UNCHANGED <<tab, told>>, Ids \subseteq Ids',
         \A j \in CallIds : call'[j].open => call[j].open /\ Held(j)
  PROVE  Pages'
<1>1. Waiting'
  BY DEF Pages, Waiting, Held
<1>2. Telling' /\ TableTrue'
  BY DEF Pages, Telling, TableTrue
<1> QED
  BY <1>1, <1>2 DEF Pages

\* One request goes on and stores nothing.
LEMMA RowsFrame ==
  ASSUME TypeOK, Rows, UNCHANGED <<suppliers, aliases, sent, met, posted>>, NEW i \in CallIds, Only(i),
         LET c == call[i]  d == call'[i] IN
           /\ d.at # "none" => c.at # "none"
           /\ d.at \in Early => c.at \in Early
           /\ d.at \in Early \ {"sent"} => c.at \in Early \ {"sent"}
           /\ d.at \in Supplying => d.op = "supplier"
           /\ d.at \in Onboarding => d.op = "product"
           /\ d.at = "answered" /\ d.ok /\ d.op = "supplier" => i \in Ids
           /\ d.at \in {"code", "insert"} =>
                \/ c.at \in {"code", "insert"} /\ d.name = c.name
                \/ \A s \in suppliers : s.name # d.name
           /\ d.at = "commit" /\ d.newAlias =>
                d.alias # NoAlias /\ \A a \in aliases : a.alias # d.alias
  PROVE  Rows'
<1> USE DEF Rows, Only
<1>1. Numbered'
  BY DEF Numbered
<1>2. Routed'
  BY DEF Routed, Ids
<1>3. Met'
  BY DEF Met, Handling, Early, Supplying, Onboarding
<1>4. Searched'
  BY DEF Searched, Both
<1>5. Apart'
  BY DEF Apart, NamesUnlessOverlap, AliasUnlessOverlap
<1> QED
  BY <1>1, <1>2, <1>3, <1>4, <1>5

LEMMA AnswerKeeps ==
  ASSUME IInv, NEW i \in CallIds, NEW ok \in BOOLEAN, Answer(i, ok), call[i].at # "none",
         ok => call[i].op # "supplier", UNCHANGED <<suppliers, aliases, sent, met, posted, tab, told>>
  PROVE  Only(i) /\ call'[i].at # "none" /\ call'[i].open = call[i].open /\ Rows' /\ Pages'
<1>1. /\ Only(i) /\ Held(i)
      /\ call'[i].at = "answered" /\ call'[i].ok = ok /\ call'[i].open = call[i].open
  BY Answered DEF IInv
<1>2. Rows'
  BY <1>1, RowsFrame DEF IInv, Early, Supplying, Onboarding, Held
<1>3. Pages'
  BY <1>1, PagesFrame DEF IInv, Ids, Only, Held
<1> QED
  BY <1>1, <1>2, <1>3

\* The types, when only the request i changes.
LEMMA TypesFrame ==
  ASSUME TypeOK, NEW i \in CallIds, Only(i), call'[i].open => call[i].open /\ call'[i].at # "none",
         UNCHANGED <<suppliers, aliases, jar, tab, sent, told, posted>>,
         variants' \subseteq Variants, live' \subseteq Sessions,
         others' \in 0..MaxEvents, met' \in [CallIds -> SUBSET CallIds]
  PROVE  TypeOK'
BY DEF TypeOK, Only

(***************************************************************************)
(* The handlers.                                                           *)
(***************************************************************************)
LEMMA AuthenticateStep ==
  ASSUME IInv, NEW i \in CallIds, Authenticate(i)
  PROVE  IInv'
<1> USE DEF IInv, Authenticate
<1>1. CASE call[i].session \in live
  <2> DEFINE step == IF call[i].op = "supplier" THEN "name" ELSE "select"
  <2>1. /\ call' = [call EXCEPT ![i].at = step] /\ step \in Stages
        /\ met' = [j \in CallIds |-> IF j = i THEN Handling
                                     ELSE IF j \in Handling THEN met[j] \cup {i}
                                     ELSE met[j]]
    BY <1>1 DEF Stages
  <2>2. Step(i, step)
    BY <2>1, Stepped
  <2>3. TypeOK'
    BY <2>1, <2>2, TypesFrame DEF Step, TypeOK, Handling, tables
  <2>4. Pages'
    BY <2>2, PagesFrame DEF Ids, tables, Step, Only, Held
  <2>5. Numbered'
    BY <2>2 DEF Rows, Numbered, tables, Step, Only, Early
  <2>6. Routed'
    BY <2>2 DEF Rows, Routed, tables, Ids, Step, Only, Held, Supplying, Onboarding, CallState,
       TypeOK
  <2>7. /\ i \notin Handling /\ Handling' = Handling \cup {i}
        /\ met'[i] = Handling
        /\ \A j \in Handling : i \in met'[j]
        /\ \A j \in CallIds : j # i => met[j] \subseteq met'[j]
    BY <2>1, <2>2 DEF Handling, Step, Only
  <2>8. Met'
    BY <2>7 DEF Rows, Met, Handling
  <2>9. \A r \in suppliers \cup aliases : r.id \in CallIds /\ r.id # i
    BY DEF Rows, Numbered, Early, TypeOK, Supplier, Alias
  <2>10. Searched'
    BY <2>2, <2>7, <2>9 DEF Rows, Searched, Both, tables, Step, Only
  <2>11. Apart'
    BY <2>7, <2>9 DEF Rows, Apart, NamesUnlessOverlap, AliasUnlessOverlap, tables
  <2> QED
    BY <2>3, <2>4, <2>5, <2>6, <2>8, <2>10, <2>11 DEF Rows
<1>2. CASE call[i].session \notin live
  <2>1. Answer(i, FALSE)
    BY <1>2
  <2>2. Only(i) /\ call'[i].at # "none" /\ call'[i].open = call[i].open /\ Rows' /\ Pages'
    BY <1>2, <2>1, AnswerKeeps DEF tables
  <2>3. TypeOK'
    BY <1>2, <2>2, TypesFrame DEF TypeOK, tables
  <2> QED
    BY <2>2, <2>3
<1> QED
  BY <1>1, <1>2

LEMMA LoginStep ==
  ASSUME IInv, NEW i \in CallIds, Login(i)
  PROVE  IInv'
<1>1. PICK ok \in BOOLEAN : Answer(i, ok)
  BY DEF Login
<1>2. Only(i) /\ call'[i].at # "none" /\ call'[i].open = call[i].open /\ Rows' /\ Pages'
  BY <1>1, AnswerKeeps DEF Login, tables
<1>3. live' \subseteq Sessions
  BY DEF IInv, TypeOK, Login, Sessions
<1>4. TypeOK'
  BY <1>2, <1>3, TypesFrame DEF IInv, Login, TypeOK, tables
<1> QED
  BY <1>2, <1>4 DEF IInv

LEMMA FailStep ==
  ASSUME IInv, NEW i \in CallIds, Fail(i)
  PROVE  IInv'
<1>1. Only(i) /\ call'[i].at # "none" /\ call'[i].open = call[i].open /\ Rows' /\ Pages'
  BY AnswerKeeps DEF Fail, tables
<1>2. others' \in 0..MaxEvents
  BY ConsoleAssumption DEF IInv, TypeOK, Fail, Event
<1>3. TypeOK'
  BY <1>1, <1>2, TypesFrame DEF IInv, Fail, TypeOK, tables
<1> QED
  BY <1>1, <1>3 DEF IInv

\* The name of a request that goes on is nobody's.
LEMMA SelectNameStep ==
  ASSUME IInv, NEW i \in CallIds, SelectName(i)
  PROVE  IInv'
<1> USE DEF IInv, SelectName
<1>1. CASE \E s \in suppliers : s.name = call[i].name
  <2>1. Answer(i, FALSE)
    BY <1>1
  <2>2. Only(i) /\ call'[i].at # "none" /\ call'[i].open = call[i].open /\ Rows' /\ Pages'
    BY <2>1, AnswerKeeps DEF tables
  <2>3. TypeOK'
    BY <2>2, TypesFrame DEF TypeOK, tables
  <2> QED
    BY <2>2, <2>3
<1>2. CASE ~\E s \in suppliers : s.name = call[i].name
  <2>1. call' = [call EXCEPT ![i].at = "code"]
    BY <1>2
  <2>2. Step(i, "code")
    BY <2>1, Stepped DEF Stages
  <2>3. TypeOK'
    BY <2>2, TypesFrame DEF Step, TypeOK, tables
  <2>4. Rows'
    BY <1>2, <2>2, RowsFrame DEF tables, Step, Held, Early, Supplying, Onboarding, Rows, Routed
  <2>5. Pages'
    BY <2>2, PagesFrame DEF Ids, tables, Step, Only, Held
  <2> QED
    BY <2>3, <2>4, <2>5
<1> QED
  BY <1>1, <1>2

\* There are more codes than requests, so one is free.
LEMMA CodeFree ==
  ASSUME IInv
  PROVE  FreeCodes # {}
<1> SUFFICES ASSUME FreeCodes = {} PROVE FALSE
  OBVIOUS
<1>1. \A c \in Codes : \E s \in suppliers : s.code = c
  BY DEF FreeCodes
<1>2. /\ IsFiniteSet(CallIds) /\ Cardinality(CallIds) = MaxEvents
      /\ Cardinality(Codes) = MaxEvents + 1
  BY ConsoleAssumption, FS_Interval DEF CallIds, Codes
<1>3. Ids \subseteq CallIds
  BY DEF IInv, TypeOK, Ids, Supplier
<1>4. IsFiniteSet(Ids) /\ Cardinality(Ids) <= MaxEvents
  BY <1>2, <1>3, FS_Subset
<1> DEFINE Row(n) == CHOOSE s \in suppliers : s.id = n
           code == [n \in Ids |-> Row(n).code]
<1>5. \A n \in Ids : Row(n) \in suppliers /\ Row(n).id = n
  BY DEF Ids
<1>6. \A s \in suppliers : s.id \in Ids /\ Row(s.id) = s
  BY <1>5 DEF IInv, Rows, Numbered, Ids
<1> HIDE DEF Row
<1>7. \A n \in Ids : code[n] \in Codes
  BY <1>5 DEF IInv, TypeOK, Supplier
<1>8. \A c \in Codes : \E n \in Ids : code[n] = c
  BY <1>1, <1>6
<1>9. code \in [Ids -> Codes]
  BY <1>7
<1> HIDE DEF code
<1>10. code \in Surjection(Ids, Codes)
  BY <1>8, <1>9 DEF Surjection
<1>11. Cardinality(Codes) <= Cardinality(Ids)
  BY <1>4, <1>10, FS_Surjection
<1>12. Cardinality(Ids) \in Nat
  BY <1>4, FS_CardinalityType
<1> QED
  BY <1>2, <1>4, <1>11, <1>12, ConsoleAssumption

LEMMA CodeTaken ==
  ASSUME NEW c \in CallState, NEW n \in Codes
  PROVE  [c EXCEPT !.at = "insert", !.code = n] \in CallState
BY DEF CallState

LEMMA SelectCodeStep ==
  ASSUME IInv, NEW i \in CallIds, SelectCode(i)
  PROVE  IInv'
<1> USE DEF IInv
<1>1. \E c \in FreeCodes : \A d \in FreeCodes : c <= d
  <2>1. FreeCodes \in SUBSET Nat
    BY DEF FreeCodes, Codes
  <2>2. PICK c \in FreeCodes : \A d \in FreeCodes : ~ (<<d, c>> \in OpToRel(<, Nat))
    BY <2>1, CodeFree, NatLessThanWellFounded, WFMin
  <2>3. OpToRel(<, Nat) = {p \in Nat \X Nat : p[1] < p[2]}
    BY DEF OpToRel
  <2>4. \A d \in FreeCodes : c <= d
    <3>1. SUFFICES ASSUME NEW d \in FreeCodes, d < c PROVE FALSE
      BY <2>1
    <3>2. <<d, c>> \in {p \in Nat \X Nat : p[1] < p[2]}
      BY <2>1, <3>1
    <3> QED
      BY <2>2, <2>3, <3>2, Zenon
  <2> QED
    BY <2>4
<1>2. PICK n \in Codes : n = CHOOSE c \in FreeCodes : \A d \in FreeCodes : c <= d
  BY <1>1 DEF FreeCodes
<1> DEFINE r == [call[i] EXCEPT !.at = "insert", !.code = n]
<1>3. call' = [call EXCEPT ![i] = r]
  <2>1. call' = [call EXCEPT ![i].at = "insert", ![i].code = n]
    BY <1>2, Zenon DEF SelectCode
  <2> QED
    BY <2>1 DEF TypeOK
<1>4. /\ r.at = "insert" /\ r.open = call[i].open
      /\ r.name = call[i].name /\ r.op = call[i].op /\ r.tab = call[i].tab
      /\ r.rows = call[i].rows /\ r.total = call[i].total
  BY CallType DEF CallState
<1>typed. r \in CallState
  BY CallType, CodeTaken
<1> HIDE DEF r
<1>5. Step(i, "insert")
  BY <1>3, <1>4, <1>typed DEF Step, Only, Held, TypeOK
<1>6. TypeOK'
  BY <1>5, TypesFrame DEF Step, TypeOK, SelectCode, tables
<1>7. Rows'
  BY <1>5, RowsFrame DEF tables, Step, Held, Early, Supplying, Onboarding, Rows, Routed, SelectCode
<1>8. Pages'
  BY <1>5, PagesFrame DEF Ids, tables, Step, Only, Held, SelectCode
<1> QED
  BY <1>6, <1>7, <1>8

\* Every supplier of the same name is of a request this one has met.
LEMMA InsertSupplierStep ==
  ASSUME IInv, NEW i \in CallIds, InsertSupplier(i)
  PROVE  IInv'
<1> USE DEF IInv, InsertSupplier
<1>1. CASE call[i].code \in FreeCodes
  <2> DEFINE row == [id |-> i, name |-> call[i].name, code |-> call[i].code]
  <2>1. suppliers' = suppliers \cup {row} /\ Answer(i, TRUE)
    BY <1>1
  <2>2. row.id = i /\ row.name = call[i].name /\ row \in Supplier
    BY CallType DEF CallState, Supplier
  <2> HIDE DEF row
  <2>3. /\ Only(i) /\ Held(i)
        /\ call'[i].at = "answered" /\ call'[i].ok /\ call'[i].open = call[i].open
    BY <2>1, Answered
  <2>4. TypeOK'
    BY <2>1, <2>2, <2>3 DEF TypeOK, Only
  <2>5. Ids' = Ids \cup {i}
    BY <2>1, <2>2 DEF Ids
  <2>6. Pages'
    BY <2>3, <2>5, PagesFrame DEF Only, Held
  <2>7. i <= sent /\ \A r \in suppliers \cup aliases : r.id # i
    BY DEF Rows, Numbered, Early, Supplying, TypeOK, CallIds
  <2>8. Numbered'
    BY <2>1, <2>2, <2>3, <2>7 DEF Rows, Numbered, Only, Early, Supplying, Onboarding
  <2>9. Routed'
    BY <2>3, <2>5 DEF Rows, Routed, Only, Supplying, Onboarding
  <2>10. Met'
    BY <2>3 DEF Rows, Met, Handling, Only
  <2>11. \A j \in CallIds : call[j].at \in {"code", "insert"} /\ j # i => Both(j, i)
    BY DEF Rows, Met, Handling, Both
  <2>12. Searched'
    <3>1. \A j \in CallIds : call'[j].at \in {"code", "insert", "commit"} =>
            j # i /\ call'[j] = call[j]
      BY <2>3 DEF Only
    <3>2. \A j \in CallIds : call'[j].at \in {"code", "insert"} =>
            \A s \in suppliers' : s.name = call'[j].name =>
              Both(j, s.id) \/ (s.id \in posted /\ j < s.id)
      <4> SUFFICES ASSUME NEW j \in CallIds, call'[j].at \in {"code", "insert"},
                          NEW s \in suppliers', s.name = call'[j].name
          PROVE  Both(j, s.id) \/ (s.id \in posted /\ j < s.id)
        OBVIOUS
      <4>1. j # i /\ call[j].at \in {"code", "insert"} /\ s.name = call[j].name
        BY <3>1
      <4>2. CASE s = row
        BY <2>2, <2>11, <4>1, <4>2
      <4>3. CASE s \in suppliers
        BY <4>1, <4>3 DEF Rows, Searched
      <4> QED
        BY <2>1, <4>2, <4>3
    <3>3. \A j \in CallIds : call'[j].at = "commit" /\ call'[j].newAlias =>
            /\ call'[j].alias # NoAlias
            /\ \A a \in aliases : a.alias = call'[j].alias => Both(j, a.id)
      BY <3>1 DEF Rows, Searched
    <3> QED
      BY <3>2, <3>3 DEF Searched, Both
  <2>13. \A s \in suppliers : s.name = row.name =>
           Both(i, s.id) \/ (s.id \in posted /\ i < s.id)
    BY <2>2 DEF Rows, Searched
  <2>14. NamesUnlessOverlap'
    <3>1. \A s \in suppliers : s.id \in Nat
      BY DEF TypeOK, Supplier, CallIds
    <3>2. i \in Nat
      BY DEF CallIds
    <3> QED
      BY <2>1, <2>2, <2>13, <3>1, <3>2 DEF Rows, Apart, NamesUnlessOverlap, Both
  <2>15. AliasUnlessOverlap'
    BY DEF Rows, Apart, AliasUnlessOverlap
  <2> QED
    BY <2>4, <2>6, <2>8, <2>9, <2>10, <2>12, <2>14, <2>15 DEF Rows, Apart
<1>2. CASE call[i].code \notin FreeCodes
  <2>1. Answer(i, FALSE) /\ UNCHANGED tables
    BY <1>2 DEF tables
  <2>2. Only(i) /\ call'[i].at # "none" /\ call'[i].open = call[i].open /\ Rows' /\ Pages'
    BY <2>1, AnswerKeeps DEF tables
  <2>3. TypeOK'
    BY <2>1, <2>2, TypesFrame DEF TypeOK, tables
  <2> QED
    BY <2>2, <2>3
<1> QED
  BY <1>1, <1>2

\* A posted supplier is later than every request sent so far.
LEMMA PostSupplierStep ==
  ASSUME IInv, NEW name \in Names, NEW code \in PostCodes, PostSupplier(name, code)
  PROVE  IInv'
<1> USE DEF IInv
<1> DEFINE n == sent + 1
           row == [id |-> n, name |-> name, code |-> code]
<1>1. /\ n \in CallIds /\ sent' = n /\ n \in 0..MaxEvents
      /\ UNCHANGED <<variants, aliases, live, jar, tab, call, others, told, met>>
  BY ConsoleAssumption DEF PostSupplier, TypeOK, CallIds
<1>2. suppliers' = suppliers \cup {row} /\ posted' = posted \cup {n}
  BY DEF PostSupplier
<1>3. row.id = n /\ row.name = name /\ row \in Supplier
  BY <1>1, ConsoleAssumption DEF Supplier
<1> HIDE DEF row
<1>4. \A r \in suppliers \cup aliases : r.id \in CallIds /\ r.id < n
  BY DEF Rows, Numbered, TypeOK, Supplier, Alias, CallIds
<1>5. \A i \in CallIds : call[i].at # "none" \/ call[i].open => i < n
  BY DEF Rows, Numbered, TypeOK, CallIds
<1>6. n > sent /\ n \in Nat /\ sent \in Nat /\ CallIds \subseteq Nat
  BY DEF TypeOK, CallIds
<1>later. \A r \in suppliers' \cup aliases' :
            r = row \/ (r \in suppliers \cup aliases /\ r.id \in Nat /\ r.id < n)
  <2>1. \A r \in suppliers \cup aliases : r.id \in Nat /\ r.id < n
    BY <1>4, <1>6
  <2> QED
    BY <1>1, <1>2, <2>1
<1> HIDE DEF n
<1>7. TypeOK'
  <2>1. \A i \in CallIds : call'[i].open => i <= sent' /\ call'[i].at # "none"
    BY <1>1, <1>5, <1>6 DEF TypeOK
  <2> QED
    BY <1>1, <1>2, <1>3, <2>1 DEF TypeOK
<1>8. Ids' = Ids \cup {n}
  BY <1>2, <1>3 DEF Ids
<1>9. Pages'
  BY <1>1, <1>8, PagesFrame DEF Held
<1>10. Numbered'
  <2>1. \A i \in CallIds : i > sent' => call'[i].at = "none"
    <3> SUFFICES ASSUME NEW i \in CallIds, i > n PROVE call[i].at = "none"
      BY <1>1
    <3>1. ~(i < n)
      BY <1>6
    <3> QED
      BY <1>5, <3>1
  <2>2. \A r \in suppliers' \cup aliases' : r.id <= sent'
    <3> SUFFICES ASSUME NEW r \in suppliers' \cup aliases' PROVE r.id <= n
      BY <1>1
    <3> QED
      BY <1>3, <1>6, <1>later
  <2>3. \A i \in CallIds : call'[i].at \in Early =>
          \A r \in suppliers' \cup aliases' : r.id # i
    BY <1>1, <1>2, <1>3, <1>5, <1>6 DEF Rows, Numbered, Early, Supplying, Onboarding
  <2>4. \A r, s \in suppliers' : r.id = s.id => r = s
    BY <1>2, <1>3, <1>4, <1>6 DEF Rows, Numbered
  <2> QED
    BY <2>1, <2>2, <2>3, <2>4 DEF Numbered
<1>11. Routed'
  BY <1>1, <1>8 DEF Rows, Routed
<1>12. Met'
  BY <1>1 DEF Rows, Met, Handling
<1>13. Searched'
  BY <1>1, <1>2, <1>3, <1>5 DEF Rows, Searched, Both
<1>14. NamesUnlessOverlap'
  <2> SUFFICES ASSUME NEW a \in suppliers', NEW b \in suppliers', a.name = b.name, a.id < b.id
      PROVE  b.id \in met[a.id] \cup posted'
    BY <1>1 DEF NamesUnlessOverlap
  <2>1. CASE b = row
    BY <1>2, <1>3, <2>1
  <2>2. CASE b # row
    <3>1. b \in suppliers /\ a \in suppliers
      <4>1. b \in suppliers /\ b.id < n /\ b.id \in Nat
        BY <1>2, <1>4, <1>6, <2>2
      <4>2. a # row
        BY <1>3, <1>6, <4>1
      <4> QED
        BY <1>2, <4>1, <4>2
    <3> QED
      BY <1>2, <3>1 DEF Rows, Apart, NamesUnlessOverlap
  <2> QED
    BY <2>1, <2>2
<1>15. AliasUnlessOverlap'
  BY <1>1 DEF Rows, Apart, AliasUnlessOverlap
<1> QED
  BY <1>7, <1>9, <1>10, <1>11, <1>12, <1>13, <1>14, <1>15 DEF Rows, Apart

LEMMA Looked ==
  ASSUME NEW c \in CallState, NEW p \in BOOLEAN, NEW v \in BOOLEAN, NEW n \in BOOLEAN
  PROVE  [c EXCEPT !.at = "commit", !.newProduct = p, !.newVariant = v, !.newAlias = n]
           \in CallState
BY DEF CallState

LEMMA SelectProductStep ==
  ASSUME IInv, NEW i \in CallIds, SelectProduct(i)
  PROVE  IInv'
<1> USE DEF IInv
<1> DEFINE product == variants = {}
           variant == call[i].variant \notin variants
           alias   == call[i].alias # NoAlias /\ \A a \in aliases : a.alias # call[i].alias
<1>1. PICK p \in BOOLEAN, v \in BOOLEAN, n \in BOOLEAN : p = product /\ v = variant /\ n = alias
  BY Zenon
<1> DEFINE r == [call[i] EXCEPT !.at = "commit", !.newProduct = p, !.newVariant = v,
                                !.newAlias = n]
<1>2. call' = [call EXCEPT ![i] = r]
  BY <1>1 DEF SelectProduct
<1>typed. r \in CallState
  BY CallType, Looked
<1>3. /\ r.at = "commit" /\ r.open = call[i].open
      /\ r.name = call[i].name /\ r.op = call[i].op /\ r.tab = call[i].tab
      /\ r.rows = call[i].rows /\ r.total = call[i].total
      /\ r.alias = call[i].alias /\ r.newAlias = n
  BY CallType DEF CallState
<1> HIDE DEF r
<1>4. Step(i, "commit") /\ call'[i].alias = call[i].alias /\ call'[i].newAlias = n
  BY <1>2, <1>3, <1>typed DEF Step, Only, Held, TypeOK
<1>5. call'[i].newAlias => \A a \in aliases : a.alias # call'[i].alias
  BY <1>1, <1>4
<1>named. call'[i].newAlias => call'[i].alias # NoAlias
  BY <1>1, <1>4
<1> HIDE DEF product, variant, alias
<1>6. TypeOK'
  BY <1>4, TypesFrame DEF Step, TypeOK, SelectProduct, tables
<1>7. Rows'
  BY <1>4, <1>5, <1>named, RowsFrame DEF tables, Step, Held, Early, Supplying, Onboarding, Rows, Routed,
     SelectProduct
<1>8. Pages'
  BY <1>4, PagesFrame DEF Ids, tables, Step, Only, Held, SelectProduct
<1> QED
  BY <1>6, <1>7, <1>8

\* Every row of the same alias is of a request this one has met.
LEMMA CommitProductStep ==
  ASSUME IInv, NEW i \in CallIds, CommitProduct(i)
  PROVE  IInv'
<1> USE DEF IInv, CommitProduct
<1>1. CASE ~Conflicts(i) /\ call[i].newAlias
  <2> DEFINE row == [id |-> i, alias |-> call[i].alias, variant |-> call[i].variant]
  <2>1. /\ aliases' = aliases \cup {row} /\ Answer(i, TRUE)
        /\ variants' = variants \cup {call[i].variant}
    BY <1>1
  <2>2. row.id = i /\ row.alias = call[i].alias /\ call[i].variant \in Variants
    BY CallType DEF CallState
  <2>3. row \in Alias
    BY <1>1, <2>2, CallType DEF CallState, Alias, Rows, Searched
  <2> HIDE DEF row
  <2>4. /\ Only(i) /\ Held(i)
        /\ call'[i].at = "answered" /\ call'[i].ok /\ call'[i].open = call[i].open
    BY <2>1, Answered
  <2>5. TypeOK'
    BY <2>1, <2>2, <2>3, <2>4 DEF TypeOK, Only
  <2>6. Pages'
    BY <2>4, PagesFrame DEF Ids, Only, Held
  <2>7. i <= sent /\ \A r \in suppliers \cup aliases : r.id # i
    BY DEF Rows, Numbered, Early, Onboarding, TypeOK, CallIds
  <2>8. Numbered'
    BY <2>1, <2>2, <2>4, <2>7 DEF Rows, Numbered, Only, Early, Supplying, Onboarding
  <2>9. Routed'
    BY <2>4 DEF Rows, Routed, Only, Held, Supplying, Onboarding, Ids
  <2>10. Met'
    BY <2>4 DEF Rows, Met, Handling, Only
  <2>11. \A j \in CallIds : call[j].at = "commit" /\ j # i => Both(j, i)
    BY DEF Rows, Met, Handling, Both
  <2>12. Searched'
    BY <2>1, <2>2, <2>4, <2>11 DEF Rows, Searched, Both, Only
  <2>13. \A a \in aliases : a.alias = row.alias => Both(i, a.id)
    BY <1>1, <2>2 DEF Rows, Searched
  <2>14. AliasUnlessOverlap'
    BY <2>1, <2>2, <2>13 DEF Rows, Apart, AliasUnlessOverlap, Both
  <2>15. NamesUnlessOverlap'
    BY DEF Rows, Apart, NamesUnlessOverlap
  <2> QED
    BY <2>5, <2>6, <2>8, <2>9, <2>10, <2>12, <2>14, <2>15 DEF Rows, Apart
<1>2. CASE Conflicts(i) \/ ~call[i].newAlias
  <2>1. PICK ok \in BOOLEAN : Answer(i, ok)
    BY <1>2
  <2>2. UNCHANGED aliases /\ variants' \subseteq Variants
    <3>1. CASE Conflicts(i)
      BY <3>1 DEF TypeOK
    <3>2. CASE ~Conflicts(i)
      BY <1>2, <3>2, CallType DEF TypeOK, CallState
    <3> QED
      BY <3>1, <3>2
  <2>3. call[i].op = "product"
    BY DEF Rows, Routed, Onboarding
  <2>4. Only(i) /\ call'[i].at # "none" /\ call'[i].open = call[i].open /\ Rows' /\ Pages'
    BY <2>1, <2>2, <2>3, AnswerKeeps
  <2>5. TypeOK'
    BY <2>2, <2>4, TypesFrame DEF TypeOK
  <2> QED
    BY <2>4, <2>5
<1> QED
  BY <1>1, <1>2

(***************************************************************************)
(* The tabs.                                                               *)
(***************************************************************************)

\* The rows are finite in number.
LEMMA FiniteIds ==
  ASSUME TypeOK, NEW S \in SUBSET CallIds
  PROVE  IsFiniteSet(S) /\ Cardinality(S) \in Nat
<1>1. IsFiniteSet(CallIds)
  BY ConsoleAssumption, FS_Interval DEF CallIds
<1>2. IsFiniteSet(S)
  BY <1>1, FS_Subset
<1> QED
  BY <1>2, FS_CardinalityType

LEMMA BlankType ==
  ASSUME NEW view \in Views
  PROVE  /\ Blank(view) \in TabState /\ Blank(view).view = view
         /\ Blank(view).rows = {} /\ Blank(view).chosen = 0
         /\ Blank(view).total = 0 /\ Blank(view).loaded = 0
BY DEF Blank, TabState

\* What a page shows of the suppliers when it is loaded.
LEMMA RenderedTrue ==
  ASSUME IInv, NEW view \in Views
  PROVE  /\ Rendered(view) \in TabState
         /\ Rendered(view).rows \subseteq Ids
         /\ Rendered(view).total = Rendered(view).loaded
         /\ Rendered(view).loaded \in Nat
         /\ Rendered(view).chosen \in {0} \cup Rendered(view).rows
<1>1. Ids \in SUBSET CallIds
  BY DEF IInv, TypeOK, Ids, Supplier
<1>2. Cardinality(Ids) \in Nat
  BY <1>1, FiniteIds DEF IInv
<1>3. CASE \E v \in Views : Rendered(view) = Blank(v)
  BY <1>3, BlankType
<1>4. CASE ~\E v \in Views : Rendered(view) = Blank(v)
  <2> DEFINE one == IF Ids = {} \/ view = "suppliers" THEN 0 ELSE CHOOSE s \in Ids : TRUE
  <2>1. PICK n \in {0} \cup Ids : n = one
    BY Zenon
  <2> DEFINE r == [Blank(view) EXCEPT !.rows = Ids, !.total = Cardinality(Ids),
                                      !.loaded = Cardinality(Ids), !.chosen = n]
  <2>2. Rendered(view) = r
    BY <1>4, <2>1, Zenon DEF Rendered, Views
  <2>3. /\ r \in TabState /\ r.rows = Ids /\ r.total = r.loaded /\ r.loaded \in Nat
        /\ r.chosen = n
    BY <1>1, <1>2, <2>1 DEF TabState, Blank
  <2> HIDE DEF r
  <2> QED
    BY <2>1, <2>2, <2>3
<1> QED
  BY <1>3, <1>4

LEMMA OpenStep ==
  ASSUME IInv, NEW t \in Tabs, NEW view \in Views, Open(t, view)
  PROVE  IInv'
<1> USE DEF IInv, Open
<1> DEFINE r == Rendered(view)
<1>1. /\ r \in TabState /\ r.rows \subseteq Ids /\ r.total = r.loaded /\ r.loaded \in Nat
      /\ r.chosen \in {0} \cup r.rows
  BY RenderedTrue
<1>2. /\ tab' \in [Tabs -> TabState] /\ told' \in [Tabs -> SUBSET CallIds]
      /\ tab'[t] = r /\ told'[t] = {}
      /\ \A u \in Tabs : u # t => tab'[u] = tab[u] /\ told'[u] = told[u]
  BY <1>1 DEF TypeOK
<1> HIDE DEF r
<1>3. TypeOK'
  BY <1>2 DEF TypeOK, tables
<1>4. Rows'
  BY DEF tables, Rows, Numbered, Routed, Ids, Met, Handling, Searched, Both, Apart,
     NamesUnlessOverlap, AliasUnlessOverlap
<1>5. Waiting'
  <2>1. \A i \in CallIds : call[i].tab \in Tabs
    BY CallType DEF CallState
  <2> QED
    BY <1>2, <2>1 DEF Pages, Waiting
<1>6. Telling'
  BY <1>2 DEF Pages, Telling
<1>7. TableTrue'
  BY <1>1, <1>2, FS_EmptySet DEF Pages, TableTrue, tables, Ids
<1> QED
  BY <1>3, <1>4, <1>5, <1>6, <1>7 DEF Pages

\* A form sends a request when it waits for none, and remembers its own rows.
LEMMA PostStep ==
  ASSUME IInv, NEW t \in Tabs, NEW request \in CallState, Post(t, request),
         request.at = "sent", request.open, request.tab = t,
         \/ request.op = "login" /\ tab[t].view = "login" /\ ~tab[t].busy
         \/ /\ request.op = "supplier" /\ tab[t].view \in Forms /\ ~tab[t].busy
            /\ request.rows = tab[t].rows /\ request.total = tab[t].total
         \/ request.op = "product" /\ tab[t].view = "onboarding"
  PROVE  IInv'
<1> USE DEF IInv, Post
<1> DEFINE n == sent + 1
<1>1. n \in CallIds /\ sent' = n /\ sent' \in 0..MaxEvents
  BY ConsoleAssumption DEF TypeOK, CallIds
<1>2. /\ Only(n) /\ call'[n] = request /\ call[n].at = "none" /\ ~call[n].open
      /\ \A j \in CallIds : j # n => call'[j] = call[j]
  BY <1>1 DEF TypeOK, Rows, Numbered, CallIds, Only
<1> DEFINE r == [tab[t] EXCEPT !.busy = TRUE]
<1>3. /\ r \in TabState /\ r.busy /\ r.view = tab[t].view /\ r.rows = tab[t].rows
      /\ r.total = tab[t].total /\ r.loaded = tab[t].loaded /\ r.chosen = tab[t].chosen
  BY DEF TypeOK, TabState
<1>4. tab' = [tab EXCEPT ![t] = r]
  OBVIOUS
<1> HIDE DEF r
<1>5. /\ tab' \in [Tabs -> TabState] /\ tab'[t] = r
      /\ \A u \in Tabs : u # t => tab'[u] = tab[u]
  BY <1>3, <1>4 DEF TypeOK
<1>6. TypeOK'
  <2>1. \A j \in CallIds : call'[j].open => j <= sent' /\ call'[j].at # "none"
    BY <1>1, <1>2 DEF TypeOK, CallIds
  <2> QED
    BY <1>1, <1>2, <1>5, <2>1 DEF TypeOK, tables, Only
<1>7. \A r1 \in suppliers \cup aliases : r1.id <= sent /\ r1.id \in CallIds
  BY DEF Rows, Numbered, TypeOK, Supplier, Alias
<1> HIDE DEF n
<1>8. \A r1 \in suppliers \cup aliases : r1.id # n
  BY <1>7 DEF n, TypeOK, CallIds
<1>9. Numbered'
  <2>1. \A i \in CallIds : i > sent' => i > sent /\ i # n
    BY DEF TypeOK, CallIds, n
  <2>2. \A r1 \in suppliers \cup aliases : r1.id <= sent'
    BY <1>7 DEF TypeOK, CallIds, n
  <2> QED
    BY <1>2, <1>8, <2>1, <2>2 DEF Rows, Numbered, tables
<1>10. Routed'
  BY <1>2 DEF Rows, Routed, tables, Ids, Supplying, Onboarding
<1>11. Met'
  BY <1>2 DEF Rows, Met, Handling
<1>12. Searched'
  BY <1>2 DEF Rows, Searched, Both, tables
<1>13. Apart'
  BY DEF Rows, Apart, NamesUnlessOverlap, AliasUnlessOverlap, tables
<1>14. \A u \in Tabs : n \notin told[u]
  <2>1. \A u \in Tabs : told[u] \subseteq Ids
    BY DEF Pages, TableTrue
  <2> QED
    BY <1>8, <2>1 DEF Ids
<1>15. \A j \in CallIds : call[j].open /\ call[j].tab = t =>
         request.op = "product" /\ call[j].op = "product"
  BY CallType DEF Pages, Waiting, CallState, Forms
<1>16. Waiting'
  <2> SUFFICES ASSUME NEW i \in CallIds, call'[i].open
      PROVE  LET c == call'[i]  u == tab'[call'[i].tab] IN
             /\ \A v \in Tabs : i \notin told[v]
             /\ c.op = "product" => u.view = "onboarding"
             /\ c.op # "product" =>
                  u.busy /\ \A j \in CallIds : j # i /\ call'[j].open => call'[j].tab # c.tab
             /\ c.op = "login" => u.view = "login"
             /\ c.op = "supplier" => u.view \in Forms /\ c.rows = u.rows /\ c.total = u.total
    BY DEF Waiting
  <2>1. CASE i = n
    BY <1>2, <1>3, <1>5, <1>14, <1>15, <2>1
  <2>2. CASE i # n
    <3>1. call'[i] = call[i] /\ call[i].open /\ call[i].tab \in Tabs
      BY <1>2, <2>2, CallType DEF CallState
    <3>2. CASE call[i].tab = t
      BY <1>3, <1>5, <1>15, <3>1, <3>2 DEF Pages, Waiting
    <3>3. CASE call[i].tab # t
      BY <1>2, <1>5, <3>1, <3>3 DEF Pages, Waiting
    <3> QED
      BY <3>2, <3>3
  <2> QED
    BY <2>1, <2>2
<1>17. Telling'
  BY <1>3, <1>5 DEF Pages, Telling
<1>18. TableTrue'
  BY <1>3, <1>5 DEF Pages, TableTrue, tables, Ids
<1> QED
  BY <1>6, <1>9, <1>10, <1>11, <1>12, <1>13, <1>16, <1>17, <1>18 DEF Rows, Pages

\* What a request of tab t holds.
LEMMA RequestType ==
  ASSUME TypeOK, NEW t \in Tabs, NEW op \in {"login", "supplier", "product"}
  PROVE  LET q == Request(t, op) IN
         /\ q \in CallState /\ q.op = op /\ q.tab = t /\ q.at = "sent" /\ q.open
         /\ q.rows = tab[t].rows /\ q.total = tab[t].total
<1>1. tab[t] \in TabState /\ jar \in Sessions
  BY DEF TypeOK
<1> QED
  BY <1>1, NoCallType DEF Request, CallState, TabState

LEMMA ClickStep ==
  ASSUME IInv, NEW t \in Tabs,
         \/ ClickLogin(t)
         \/ \E name \in Names : ClickCreateSupplier(t, name)
         \/ \E variant \in Variants, alias \in Aliases \cup {NoAlias} :
              ClickOnboard(t, variant, alias)
  PROVE  IInv'
<1>1. ASSUME ClickLogin(t) PROVE IInv'
  <2> DEFINE q == Request(t, "login")
  <2>1. q \in CallState /\ q.op = "login" /\ q.tab = t /\ q.at = "sent" /\ q.open
    BY RequestType DEF IInv
  <2>2. Post(t, q) /\ tab[t].view = "login" /\ ~tab[t].busy
    BY <1>1 DEF ClickLogin
  <2> HIDE DEF q
  <2> QED
    BY <2>1, <2>2, PostStep
<1>2. ASSUME NEW name \in Names, ClickCreateSupplier(t, name) PROVE IInv'
  <2> DEFINE p == Request(t, "supplier")
             q == [p EXCEPT !.name = name]
  <2>1. /\ p \in CallState /\ p.op = "supplier" /\ p.tab = t /\ p.at = "sent" /\ p.open
        /\ p.rows = tab[t].rows /\ p.total = tab[t].total
    BY RequestType DEF IInv
  <2>2. Post(t, q) /\ tab[t].view \in Forms /\ ~tab[t].busy
    BY <1>2 DEF ClickCreateSupplier, Forms
  <2> HIDE DEF p
  <2>3. /\ q \in CallState /\ q.op = "supplier" /\ q.tab = t /\ q.at = "sent" /\ q.open
        /\ q.rows = tab[t].rows /\ q.total = tab[t].total
    BY <2>1 DEF CallState
  <2> HIDE DEF q
  <2> QED
    BY <2>2, <2>3, PostStep
<1>3. ASSUME NEW variant \in Variants, NEW alias \in Aliases \cup {NoAlias},
             ClickOnboard(t, variant, alias)
      PROVE  IInv'
  <2> DEFINE p == Request(t, "product")
             q == [p EXCEPT !.variant = variant, !.alias = alias]
  <2>1. p \in CallState /\ p.op = "product" /\ p.tab = t /\ p.at = "sent" /\ p.open
    BY RequestType DEF IInv
  <2>2. Post(t, q) /\ tab[t].view = "onboarding"
    BY <1>3 DEF ClickOnboard
  <2> HIDE DEF p
  <2>3. q \in CallState /\ q.op = "product" /\ q.tab = t /\ q.at = "sent" /\ q.open
    BY <2>1 DEF CallState
  <2> HIDE DEF q
  <2> QED
    BY <2>2, <2>3, PostStep
<1> QED
  BY <1>1, <1>2, <1>3

\* A request that is settled stores nothing and is nobody's any more.
Settled(i) == Only(i) /\ call'[i].at = "none" /\ ~call'[i].open

LEMMA ForgottenRows ==
  ASSUME IInv, NEW i \in CallIds, Settled(i), UNCHANGED <<tables, sent, met, posted>>
  PROVE  Rows'
BY RowsFrame DEF IInv, Settled, tables, Early, Supplying, Onboarding

\* The other requests of the tab, when the answer of i does not change its view.
LEMMA OthersWait ==
  ASSUME IInv, NEW i \in CallIds, call[i].open, Only(i), ~call'[i].open,
         NEW j \in CallIds, call'[j].open
  PROVE  /\ j # i /\ call'[j] = call[j] /\ call[j].open /\ call[j].tab \in Tabs
         /\ call[j].tab = call[i].tab => call[i].op = "product" /\ call[j].op = "product"
<1>1. j # i /\ call'[j] = call[j] /\ call[j].open
  BY DEF Only
<1>2. call[j] \in CallState /\ call[i] \in CallState
  BY CallType DEF IInv
<1> QED
  BY <1>1, <1>2 DEF IInv, Pages, Waiting, CallState

\* The tab of request i is set to r, and told of S.
Set(i, r, S) ==
  LET t == call[i].tab IN
  tab' = [tab EXCEPT ![t] = r] /\ told' = [told EXCEPT ![t] = S]

\* An answer that creates nothing only ends the wait, or leads away.
LEMMA WaitEnds ==
  ASSUME IInv, NEW i \in CallIds, call[i].open, Only(i), ~call'[i].open,
         NEW r \in TabState, Set(i, r, told[call[i].tab]), UNCHANGED tables,
         LET t == tab[call[i].tab] IN
           \/ /\ r.view = t.view /\ r.rows = t.rows /\ r.total = t.total
              /\ r.loaded = t.loaded /\ r.chosen = t.chosen
           \/ /\ call[i].op = "login" /\ r.view \in {"login", "dashboard"}
              /\ r.rows = {} /\ r.chosen = 0
  PROVE  Pages'
<1> USE DEF IInv
<1> DEFINE t == call[i].tab
<1>1. t \in Tabs
  BY CallType DEF CallState
<1>2. /\ tab'[t] = r /\ UNCHANGED told
      /\ \A u \in Tabs : u # t => tab'[u] = tab[u]
  BY <1>1 DEF TypeOK, Set
<1>3. call[i].op = "login" => tab[t].view = "login" /\ told[t] = {}
  BY <1>1 DEF Pages, Waiting, Telling, Forms
<1>4. Waiting'
  <2> SUFFICES ASSUME NEW j \in CallIds, call'[j].open
      PROVE  LET c == call'[j]  u == tab'[call'[j].tab] IN
             /\ \A v \in Tabs : j \notin told'[v]
             /\ c.op = "product" => u.view = "onboarding"
             /\ c.op # "product" =>
                  u.busy /\ \A k \in CallIds : k # j /\ call'[k].open => call'[k].tab # c.tab
             /\ c.op = "login" => u.view = "login"
             /\ c.op = "supplier" => u.view \in Forms /\ c.rows = u.rows /\ c.total = u.total
    BY DEF Waiting
  <2>1. /\ j # i /\ call'[j] = call[j] /\ call[j].open /\ call[j].tab \in Tabs
        /\ call[j].tab = t => call[i].op = "product" /\ call[j].op = "product"
    BY OthersWait
  <2>2. \A k \in CallIds : call'[k].open => call[k].open /\ call'[k] = call[k]
    BY OthersWait
  <2>3. CASE call[j].tab = t
    BY <1>1, <1>2, <2>1, <2>3 DEF Pages, Waiting
  <2>4. CASE call[j].tab # t
    BY <1>1, <1>2, <2>1, <2>2, <2>4 DEF Pages, Waiting
  <2> QED
    BY <2>3, <2>4
<1>5. Telling'
  BY <1>1, <1>2, <1>3 DEF Pages, Telling
<1>6. TableTrue'
  BY <1>1, <1>2, <1>3 DEF Pages, TableTrue, tables, Ids
<1> QED
  BY <1>4, <1>5, <1>6 DEF Pages

\* The tab takes in the supplier created: its rows are those of the click.
LEMMA TakenIn ==
  ASSUME IInv, NEW i \in CallIds, call[i].open, Only(i), ~call'[i].open,
         call[i].op = "supplier", i \in Ids, UNCHANGED tables,
         NEW r \in TabState, Set(i, r, told[call[i].tab] \cup {i}),
         LET c == call[i]  t == tab[call[i].tab] IN
           /\ r.view = t.view /\ r.rows = c.rows \cup {i} /\ r.loaded = t.loaded
           /\ r.view = "suppliers" => r.total = c.total + 1
           /\ r.chosen \in {i, t.chosen}
  PROVE  Pages'
<1> USE DEF IInv
<1> DEFINE t == call[i].tab
<1>1. t \in Tabs
  BY CallType DEF CallState
<1>2. /\ tab'[t] = r /\ told'[t] = told[t] \cup {i}
      /\ \A u \in Tabs : u # t => tab'[u] = tab[u] /\ told'[u] = told[u]
  BY <1>1 DEF TypeOK, Set
<1>3. /\ call[i].rows = tab[t].rows /\ call[i].total = tab[t].total
      /\ i \notin told[t] /\ tab[t].view \in Forms
  BY <1>1 DEF Pages, Waiting
<1>4. Waiting'
  <2> SUFFICES ASSUME NEW j \in CallIds, call'[j].open
      PROVE  LET c == call'[j]  u == tab'[call'[j].tab] IN
             /\ \A v \in Tabs : j \notin told'[v]
             /\ c.op = "product" => u.view = "onboarding"
             /\ c.op # "product" =>
                  u.busy /\ \A k \in CallIds : k # j /\ call'[k].open => call'[k].tab # c.tab
             /\ c.op = "login" => u.view = "login"
             /\ c.op = "supplier" => u.view \in Forms /\ c.rows = u.rows /\ c.total = u.total
    BY DEF Waiting
  <2>1. /\ j # i /\ call'[j] = call[j] /\ call[j].open /\ call[j].tab \in Tabs
        /\ call[j].tab # t
    BY OthersWait
  <2>2. \A k \in CallIds : call'[k].open => call[k].open /\ call'[k] = call[k]
    BY OthersWait
  <2> QED
    BY <1>1, <1>2, <2>1, <2>2 DEF Pages, Waiting
<1>5. Telling'
  BY <1>1, <1>2, <1>3 DEF Pages, Telling
<1>6. IsFiniteSet(told[t]) /\ Cardinality(told[t]) \in Nat
  BY <1>1, FiniteIds DEF TypeOK
<1>7. Cardinality(told'[t]) = Cardinality(told[t]) + 1
  BY <1>2, <1>3, <1>6, FS_AddElement
<1>8. tab[t] \in TabState
  BY <1>1 DEF TypeOK
<1>9. TableTrue'
  <2> SUFFICES ASSUME NEW u \in Tabs
      PROVE  /\ told'[u] \subseteq tab'[u].rows
             /\ tab'[u].rows \subseteq Ids
             /\ tab'[u].view = "suppliers" =>
                  tab'[u].total = tab'[u].loaded + Cardinality(told'[u])
             /\ tab'[u].chosen \in {0} \cup tab'[u].rows
    BY DEF TableTrue, Ids, tables
  <2>1. CASE u = t
    <3>1. /\ told[t] \subseteq tab[t].rows /\ tab[t].rows \subseteq Ids
          /\ tab[t].chosen \in {0} \cup tab[t].rows
          /\ tab[t].view = "suppliers" =>
               tab[t].total = tab[t].loaded + Cardinality(told[t])
      BY <1>1 DEF Pages, TableTrue
    <3>2. tab[t].loaded \in Nat
      BY <1>8 DEF TabState
    <3>3. r.view = "suppliers" => r.total = r.loaded + Cardinality(told'[t])
      BY <1>3, <1>6, <1>7, <3>1, <3>2
    <3>4. /\ told'[t] \subseteq r.rows /\ r.rows \subseteq Ids
          /\ r.chosen \in {0} \cup r.rows
      BY <1>2, <1>3, <3>1
    <3> QED
      BY <1>2, <2>1, <3>3, <3>4, Zenon
  <2>2. CASE u # t
    BY <1>2, <2>2 DEF Pages, TableTrue
  <2> QED
    BY <2>1, <2>2
<1> QED
  BY <1>4, <1>5, <1>9 DEF Pages

LEMMA EnabledType ==
  ASSUME TypeOK, NEW i \in CallIds
  PROVE  LET r == Enabled(i)  t == tab[call[i].tab] IN
         /\ r \in TabState
         /\ r.view = t.view /\ r.rows = t.rows /\ r.total = t.total
         /\ r.loaded = t.loaded /\ r.chosen = t.chosen
<1>1. tab[call[i].tab] \in TabState
  BY CallType DEF CallState, TypeOK
<1> QED
  BY <1>1 DEF Enabled, TabState

\* The types, when a tab is set.
LEMMA SetTypes ==
  ASSUME TypeOK, NEW i \in CallIds, Only(i), call'[i].open => call'[i].at # "none",
         ~call'[i].open, NEW r \in TabState, NEW S \in SUBSET CallIds, Set(i, r, S),
         UNCHANGED <<tables, live, sent, met, posted>>, others' \in 0..MaxEvents, jar' \in Sessions
  PROVE  TypeOK'
<1>1. tab' \in [Tabs -> TabState] /\ told' \in [Tabs -> SUBSET CallIds]
  BY DEF TypeOK, Set
<1>2. call' \in [CallIds -> CallState]
      /\ \A j \in CallIds : call'[j].open => j <= sent' /\ call'[j].at # "none"
  BY DEF TypeOK, Only
<1> QED
  BY <1>1, <1>2 DEF TypeOK, tables

LEMMA ReceiveStep ==
  ASSUME IInv, NEW i \in CallIds, Receive(i)
  PROVE  IInv'
<1> USE DEF IInv
<1> DEFINE c == call[i]  t == c.tab
<1>1. call' = [call EXCEPT ![i] = NoCall] /\ UNCHANGED <<tables, live, sent, others, met, posted>>
  BY DEF Receive
<1>2. NoCall.at = "none" /\ ~NoCall.open
  BY DEF NoCall
<1>3. Settled(i)
  BY <1>1, <1>2, NoCallType DEF TypeOK, Settled, Only
<1>4. Rows'
  BY <1>1, <1>3, ForgottenRows
<1>5. c \in CallState /\ t \in Tabs /\ tab[t] \in TabState /\ told[t] \in SUBSET CallIds
  BY CallType DEF CallState, TypeOK
<1>6. CASE ~c.open
  <2>1. UNCHANGED <<tab, told, jar>>
    BY <1>6 DEF Receive
  <2>2. TypeOK'
    BY <1>1, <1>3, <2>1, TypesFrame DEF TypeOK, tables, Settled
  <2>3. Pages'
    BY <1>1, <1>3, <2>1, PagesFrame DEF Settled, Only, Held, Ids, tables
  <2> QED
    BY <1>4, <2>2, <2>3
<1>7. CASE c.open
  <2>1. Settle(i) /\ jar' \in Sessions
    BY <1>7 DEF Receive, TypeOK, Sessions
  <2>2. CASE c.ok /\ c.op = "login"
    <3> DEFINE r == SignedIn(i)
    <3>1. /\ r \in TabState /\ r.view \in {"login", "dashboard"} /\ r.rows = {}
          /\ r.chosen = 0
      BY BlankType DEF SignedIn, Views
    <3>2. Set(i, r, told[t])
      BY <1>5, <2>1, <2>2 DEF Settle, Set, TypeOK
    <3> HIDE DEF r
    <3>3. Pages'
      BY <1>1, <1>3, <1>7, <2>2, <3>1, <3>2, WaitEnds DEF Settled
    <3>4. TypeOK'
      BY <1>1, <1>3, <1>5, <2>1, <3>1, <3>2, SetTypes DEF Settled, TypeOK
    <3> QED
      BY <1>4, <3>3, <3>4
  <2>3. CASE c.ok /\ c.op = "supplier"
    <3> DEFINE r == IF tab[t].view = "suppliers" THEN Listed(i) ELSE Offered(i)
    <3>1. i \in Ids
      BY <2>3 DEF Receive, Rows, Routed
    <3>2. /\ r \in TabState /\ r.view = tab[t].view /\ r.rows = c.rows \cup {i}
          /\ r.loaded = tab[t].loaded /\ r.chosen \in {i, tab[t].chosen}
          /\ r.view = "suppliers" => r.total = c.total + 1
      <4>1. c.rows \in SUBSET CallIds /\ c.total \in Nat
        BY <1>5 DEF CallState
      <4>2. CASE tab[t].view = "suppliers"
        <5>1. r = [tab[t] EXCEPT !.busy = FALSE, !.rows = c.rows \cup {i}, !.total = c.total + 1]
          BY <4>2 DEF Listed
        <5>2. c.rows \cup {i} \in SUBSET CallIds /\ c.total + 1 \in Nat
          BY <4>1
        <5> QED
          BY <1>5, <5>1, <5>2 DEF TabState
      <4>3. CASE tab[t].view # "suppliers"
        BY <1>5, <4>1, <4>3 DEF Offered, TabState
      <4> QED
        BY <4>2, <4>3
    <3>3. Set(i, r, told[t] \cup {i})
      BY <1>5, <2>1, <2>3 DEF Settle, Set, TypeOK
    <3> HIDE DEF r
    <3>4. Pages'
      BY <1>1, <1>3, <1>7, <2>3, <3>1, <3>2, <3>3, TakenIn DEF Settled
    <3>5. TypeOK'
      BY <1>1, <1>3, <1>5, <2>1, <3>2, <3>3, SetTypes DEF Settled, TypeOK
    <3> QED
      BY <1>4, <3>4, <3>5
  <2>4. CASE ~(c.ok /\ c.op \in {"login", "supplier"})
    <3> DEFINE r == Enabled(i)
    <3>1. /\ r \in TabState
          /\ r.view = tab[t].view /\ r.rows = tab[t].rows /\ r.total = tab[t].total
          /\ r.loaded = tab[t].loaded /\ r.chosen = tab[t].chosen
      BY EnabledType
    <3>2. Set(i, r, told[t])
      BY <1>5, <2>1, <2>4 DEF Settle, Set, TypeOK
    <3> HIDE DEF r
    <3>3. Pages'
      BY <1>1, <1>3, <1>7, <3>1, <3>2, WaitEnds DEF Settled
    <3>4. TypeOK'
      BY <1>1, <1>3, <1>5, <2>1, <3>1, <3>2, SetTypes DEF Settled, TypeOK
    <3> QED
      BY <1>4, <3>3, <3>4
  <2> QED
    BY <2>2, <2>3, <2>4
<1> QED
  BY <1>6, <1>7

LEMMA LoseStep ==
  ASSUME IInv, NEW i \in CallIds, Lose(i)
  PROVE  IInv'
<1> USE DEF IInv
<1> DEFINE c == call[i]  t == c.tab
           d == [c EXCEPT !.open = FALSE]
<1>1. /\ c.open /\ UNCHANGED <<tables, live, jar, sent, told, met, posted>>
      /\ others' \in 0..MaxEvents
  BY ConsoleAssumption DEF Lose, Event, TypeOK
<1>2. call' = [call EXCEPT ![i] = d]
  BY DEF Lose
<1>3. /\ d \in CallState /\ ~d.open /\ d.at = c.at /\ d.op = c.op /\ d.name = c.name
      /\ d.ok = c.ok /\ d.newAlias = c.newAlias /\ d.alias = c.alias
  BY CallType DEF CallState
<1>4. c \in CallState /\ t \in Tabs /\ tab[t] \in TabState /\ told[t] \in SUBSET CallIds
  BY CallType DEF CallState, TypeOK
<1> HIDE DEF d
<1>5. Only(i) /\ call'[i] = d
  BY <1>2, <1>3 DEF TypeOK, Only
<1>6. Rows'
  <2>1. Numbered' /\ Met'
    BY <1>1, <1>3, <1>5 DEF Rows, Numbered, Met, Handling, Only, tables
  <2>2. Routed'
    BY <1>1, <1>3, <1>5 DEF Rows, Routed, Ids, Only, tables
  <2>3. Searched'
    BY <1>1, <1>3, <1>5 DEF Rows, Searched, Both, Only, tables
  <2>4. Apart'
    BY <1>1 DEF Rows, Apart, NamesUnlessOverlap, AliasUnlessOverlap, tables
  <2> QED
    BY <2>1, <2>2, <2>3, <2>4 DEF Rows
<1>7. PICK r \in {tab[t], Enabled(i)} : tab' = [tab EXCEPT ![t] = r]
  BY <1>4 DEF Lose, Enabled, TypeOK
<1>8. /\ r \in TabState
      /\ r.view = tab[t].view /\ r.rows = tab[t].rows /\ r.total = tab[t].total
      /\ r.loaded = tab[t].loaded /\ r.chosen = tab[t].chosen
  BY <1>4, EnabledType
<1>9. Set(i, r, told[t])
  BY <1>1, <1>4, <1>7 DEF Set, TypeOK
<1>10. Pages'
  BY <1>1, <1>3, <1>5, <1>8, <1>9, WaitEnds
<1>11. TypeOK'
  BY <1>1, <1>3, <1>4, <1>5, <1>8, <1>9, SetTypes DEF TypeOK
<1> QED
  BY <1>6, <1>10, <1>11

LEMMA ExpireStep ==
  ASSUME IInv, NEW s \in Sessions, Expire(s)
  PROVE  IInv'
<1> USE DEF IInv, Expire, Event, tables
<1>1. TypeOK'
  BY ConsoleAssumption DEF TypeOK
<1>2. Rows'
  BY DEF Rows, Numbered, Routed, Ids, Met, Handling, Searched, Both, Apart,
     NamesUnlessOverlap, AliasUnlessOverlap
<1>3. Pages'
  BY DEF Pages, Waiting, Telling, TableTrue, Ids
<1> QED
  BY <1>1, <1>2, <1>3

LEMMA InitIInv == Init => IInv
<1> SUFFICES ASSUME Init PROVE IInv
  OBVIOUS
<1> USE DEF Init
<1>1. /\ \A i \in CallIds : call[i].at = "none" /\ ~call[i].open
      /\ call \in [CallIds -> CallState]
  BY NoCallType DEF NoCall
<1>2. Blank("login") \in TabState
  BY BlankType DEF Views
<1>3. TypeOK
  <2>1. suppliers \subseteq Supplier /\ variants \subseteq Variants /\ aliases \subseteq Alias
    OBVIOUS
  <2>2. live \subseteq Sessions /\ jar \in Sessions
    BY DEF Sessions
  <2>3. tab \in [Tabs -> TabState] /\ told \in [Tabs -> SUBSET CallIds]
        /\ met \in [CallIds -> SUBSET CallIds]
    BY <1>2
  <2>4. sent \in 0..MaxEvents /\ others \in 0..MaxEvents
    BY ConsoleAssumption
  <2> QED
    BY <1>1, <2>1, <2>2, <2>3, <2>4 DEF TypeOK
<1>4. Rows
  BY <1>1 DEF Rows, Numbered, Routed, Met, Handling, Searched, Apart, NamesUnlessOverlap,
     AliasUnlessOverlap, Early, Supplying, Onboarding
<1>5. Waiting /\ Telling
  BY <1>1 DEF Waiting, Telling
<1>6. TableTrue
  BY FS_EmptySet, BlankType DEF TableTrue, Views
<1> QED
  BY <1>3, <1>4, <1>5, <1>6 DEF IInv, Pages

THEOREM Inductive == IInv /\ [Next]_vars => IInv'
<1> SUFFICES ASSUME IInv, [Next]_vars PROVE IInv'
  OBVIOUS
<1>1. ASSUME NEW t \in Tabs, NEW view \in Views \ {"error"}, Open(t, view) PROVE IInv'
  BY <1>1, OpenStep
<1>2. ASSUME NEW t \in Tabs,
             \/ ClickLogin(t)
             \/ \E name \in Names : ClickCreateSupplier(t, name)
             \/ \E variant \in Variants, alias \in Aliases \cup {NoAlias} :
                  ClickOnboard(t, variant, alias)
      PROVE  IInv'
  BY <1>2, ClickStep
<1>3. ASSUME NEW i \in CallIds, Handle(i) PROVE IInv'
  BY <1>3, AuthenticateStep, LoginStep, SelectNameStep, SelectCodeStep, InsertSupplierStep,
     SelectProductStep, CommitProductStep DEF Handle
<1>4. ASSUME NEW i \in CallIds, Receive(i) \/ Fail(i) \/ Lose(i) PROVE IInv'
  BY <1>4, ReceiveStep, FailStep, LoseStep
<1>5. ASSUME NEW s \in Sessions, Expire(s) PROVE IInv'
  BY <1>5, ExpireStep
<1>6. ASSUME NEW name \in Names, NEW code \in PostCodes, PostSupplier(name, code)
      PROVE  IInv'
  BY <1>6, PostSupplierStep
<1>7. ASSUME UNCHANGED vars PROVE IInv'
  <2> USE <1>7 DEF vars, tables, IInv
  <2>1. TypeOK'
    BY DEF TypeOK
  <2>2. Rows'
    BY DEF Rows, Numbered, Routed, Ids, Met, Handling, Searched, Both, Apart,
       NamesUnlessOverlap, AliasUnlessOverlap
  <2>3. Pages'
    BY DEF Pages, Waiting, Telling, TableTrue, Ids
  <2> QED
    BY <2>1, <2>2, <2>3
<1> QED
  BY <1>1, <1>2, <1>3, <1>4, <1>5, <1>6, <1>7 DEF Next

THEOREM Invariance == Spec => []IInv
BY InitIInv, Inductive, PTL DEF Spec

\* The types hold for any number of tabs and requests; a request is never without
\* a code to try (unique_supplier_code always ends).
THEOREM ConsoleTypes == Spec => []TypeOK
<1>1. IInv => TypeOK
  BY DEF IInv
<1> QED
  BY <1>1, Invariance, PTL

\* A table and its total are right however the answers of several tabs, lost
\* connections, failures and page loads are interleaved.
THEOREM TablesTrue == Spec => []TableTrue
<1>1. IInv => TableTrue
  BY DEF IInv, Pages
<1> QED
  BY <1>1, Invariance, PTL

\* Suppliers of one name come from requests handled at the same time, or the later
\* one from POST /suppliers, whatever came before: the console doubles no name alone.
THEOREM NamesApart == Spec => []NamesUnlessOverlap
<1>1. IInv => NamesUnlessOverlap
  BY DEF IInv, Rows, Apart
<1> QED
  BY <1>1, Invariance, PTL

\* So do rows of one alias.
THEOREM AliasesApart == Spec => []AliasUnlessOverlap
<1>1. IInv => AliasUnlessOverlap
  BY DEF IInv, Rows, Apart
<1> QED
  BY <1>1, Invariance, PTL
=============================================================================
