------------------------------ MODULE Console -------------------------------
(***************************************************************************)
(* The operator console in one browser: signing in, the supplier table     *)
(* with its form, the supplier form of the Telegram mapping, and the       *)
(* product onboarding form, with the handlers behind them                  *)
(* (services/operator_auth.py, suppliers.py, onboarding.py), and           *)
(* POST /api/v1/suppliers, which any client may call.                      *)
(*                                                                         *)
(* Tabs share the cookies.  A handler is two or three steps: what it has   *)
(* read may be out of date when it commits.  All the names here have one   *)
(* code seed (they differ in what supplier_code_seed drops), and all the   *)
(* variants are of one product: the cases in which requests meet.  The 1C  *)
(* item onboard_product may map is left out, no form sends one; so is      *)
(* accept_match_review, which adds aliases without a source as the         *)
(* onboarding does, after a select.                                        *)
(***************************************************************************)
EXTENDS Naturals, FiniteSets

CONSTANTS
  Tabs,
  Names,      \* supplier names, normalised
  Variants,   \* canonical keys
  Aliases,    \* normalised aliases; the form gives them no source
  PostCodes,  \* codes of the seed that callers of POST /suppliers give
  MaxEvents,  \* bound: requests, sessions that end and faults, together
  NoAlias

CallIds  == 1..MaxEvents
Sessions == {0} \cup CallIds  \* 0: one opened earlier, or no cookie at all
Codes   == 1..MaxEvents + 1   \* the seed, seed-2, seed-3, ...

ASSUME ConsoleAssumption ==
  /\ MaxEvents \in Nat
  /\ Tabs # {} /\ Names # {} /\ Variants # {}
  /\ NoAlias \notin Aliases
  /\ PostCodes \subseteq Codes

VARIABLES
  suppliers,  \* table suppliers; a row is named after the request that inserted it
  variants,   \* table product_variants; the product exists iff one of them does
  aliases,    \* table product_aliases, rows without a source
  live,       \* sessions neither revoked nor expired, named after their login
  jar,        \* session cookie of the browser, with its CSRF cookie
  tab,        \* [Tabs -> TabState]
  call,       \* [CallIds -> CallState]
  sent,       \* requests sent so far
  others,     \* sessions ended and faults so far
  told,       \* history: [Tabs -> suppliers the tab was told it created]
  met,        \* history: [CallIds -> requests handled at the same time]
  posted      \* history: suppliers inserted by POST /suppliers

tables == <<suppliers, variants, aliases>>
vars   == <<tables, live, jar, tab, call, sent, others, told, met, posted>>

Supplier == [id : CallIds, name : Names, code : Codes]
Alias    == [id : CallIds, alias : Aliases, variant : Variants]

Views == {"login", "dashboard", "suppliers", "telegram", "onboarding", "error"}

TabState ==
  [view : Views,
   busy : BOOLEAN,             \* isSubmitting, busy; "Creating..." on /onboarding
   rows : SUBSET CallIds,      \* rows; localSuppliers of the mapping form
   total : Nat, loaded : Nat,  \* total, and what it was when the page was loaded
   chosen : {0} \cup CallIds]  \* supplierId of the mapping form

CallState ==
  [op : {"login", "supplier", "product"}, tab : Tabs,
   session : Sessions,                              \* the cookie it carries
   name : Names, variant : Variants, alias : Aliases \cup {NoAlias},
   rows : SUBSET CallIds, total : Nat,              \* as the click's closure holds them
   code : Codes, newProduct : BOOLEAN, newVariant : BOOLEAN, newAlias : BOOLEAN,
   at : {"none", "sent", "name", "code", "insert", "select", "commit", "answered"},
   ok : BOOLEAN,
   open : BOOLEAN]                                  \* the tab still waits

NoCall ==
  [op |-> "login", tab |-> CHOOSE t \in Tabs : TRUE, session |-> 0,
   name |-> CHOOSE n \in Names : TRUE, variant |-> CHOOSE v \in Variants : TRUE,
   alias |-> NoAlias, rows |-> {}, total |-> 0, code |-> 1,
   newProduct |-> FALSE, newVariant |-> FALSE, newAlias |-> FALSE,
   at |-> "none", ok |-> FALSE, open |-> FALSE]

Blank(view) ==
  [view |-> view, busy |-> FALSE, rows |-> {}, total |-> 0, loaded |-> 0, chosen |-> 0]

Init ==
  /\ suppliers = {}
  /\ variants = {}
  /\ aliases = {}
  /\ live \in {{}, {0}}
  /\ jar = 0
  /\ tab = [t \in Tabs |-> Blank("login")]
  /\ call = [i \in CallIds |-> NoCall]
  /\ sent = 0
  /\ others = 0
  /\ told = [t \in Tabs |-> {}]
  /\ met = [i \in CallIds |-> {}]
  /\ posted = {}

Ids == {s.id : s \in suppliers}

(***************************************************************************)
(* Pages, rendered on the server with the browser's cookies.  apiGet       *)
(* throws on any answer but 2xx; only the dashboard turns 401 and 403 into *)
(* a redirect, the other pages show the error boundary.  /login and        *)
(* /onboarding ask the API nothing.                                        *)
(***************************************************************************)
Static == {"login", "onboarding"}

Rendered(view) ==
  IF view \in Static THEN Blank(view)
  ELSE IF jar \notin live THEN Blank(IF view = "dashboard" THEN "login" ELSE "error")
  ELSE IF view = "dashboard" THEN Blank(view)
  ELSE [Blank(view) EXCEPT !.rows = Ids, !.total = Cardinality(Ids),
                           !.loaded = Cardinality(Ids),
                           !.chosen = IF Ids = {} \/ view = "suppliers" THEN 0
                                      ELSE CHOOSE s \in Ids : TRUE]

\* The operator goes to another page; leaving while a request is under way is a
\* lost connection first.
Open(t, view) ==
  /\ sent + others < MaxEvents
  /\ \A i \in CallIds : call[i].tab = t => ~call[i].open
  /\ tab' = [tab EXCEPT ![t] = Rendered(view)]
  /\ told' = [told EXCEPT ![t] = {}]
  /\ UNCHANGED <<tables, live, jar, call, sent, others, met, posted>>

Post(t, request) ==
  /\ sent + others < MaxEvents
  /\ sent' = sent + 1
  /\ call' = [call EXCEPT ![sent + 1] = request]
  /\ tab' = [tab EXCEPT ![t].busy = TRUE]
  /\ UNCHANGED <<tables, live, jar, others, told, met, posted>>

Request(t, op) ==
  [NoCall EXCEPT !.op = op, !.tab = t, !.session = jar, !.at = "sent", !.open = TRUE,
                 !.rows = tab[t].rows, !.total = tab[t].total]

ClickLogin(t) ==
  /\ tab[t].view = "login"
  /\ ~tab[t].busy
  /\ Post(t, Request(t, "login"))

\* A mutant: the button is not disabled while a creation is under way.
ClickCreateSupplierTwice(t, name) ==
  /\ tab[t].view \in {"suppliers", "telegram"}
  /\ Post(t, [Request(t, "supplier") EXCEPT !.name = name])

\* submit of SupplierManagement, createSupplier of TelegramSourceMapForm.
ClickCreateSupplier(t, name) ==
  /\ tab[t].view \in {"suppliers", "telegram"}
  /\ ~tab[t].busy
  /\ Post(t, [Request(t, "supplier") EXCEPT !.name = name])

\* The onboarding form has no busy guard.
ClickOnboard(t, variant, alias) ==
  /\ tab[t].view = "onboarding"
  /\ Post(t, [Request(t, "product") EXCEPT !.variant = variant, !.alias = alias])

\* What the form that made call i does with a good answer: the login form pushes
\* "/", the supplier page and the mapping form take the new supplier in.
SignedIn(i) == Blank(IF i \in live THEN "dashboard" ELSE "login")

Listed(i) == [tab[call[i].tab] EXCEPT !.busy = FALSE, !.rows = call[i].rows \cup {i},
                                      !.total = call[i].total + 1]

Offered(i) == [tab[call[i].tab] EXCEPT !.busy = FALSE, !.rows = call[i].rows \cup {i},
                                       !.chosen = i]

\* Any other answer only ends the wait.
Enabled(i) == [tab[call[i].tab] EXCEPT !.busy = FALSE]

Settle(i) ==
  LET t == call[i].tab
      created == call[i].ok /\ call[i].op = "supplier"
  IN
  /\ told' = IF created THEN [told EXCEPT ![t] = @ \cup {i}] ELSE told
  /\ tab' = [tab EXCEPT ![t] =
       IF call[i].ok /\ call[i].op = "login" THEN SignedIn(i)
       ELSE IF created THEN IF tab[t].view = "suppliers" THEN Listed(i) ELSE Offered(i)
       ELSE Enabled(i)]

\* A mutant: the tab goes on waiting after the answer.
ReceiveAgain(i) ==
  /\ call[i].at = "answered"
  /\ call' = [call EXCEPT ![i] = [NoCall EXCEPT !.open = TRUE]]
  /\ IF call[i].open
     THEN /\ Settle(i)
          /\ jar' = IF call[i].ok /\ call[i].op = "login" THEN i ELSE jar
     ELSE UNCHANGED <<tab, told, jar>>
  /\ UNCHANGED <<tables, live, sent, others, met, posted>>

\* A login's cookies are set with its answer.
Receive(i) ==
  /\ call[i].at = "answered"
  /\ call' = [call EXCEPT ![i] = NoCall]
  /\ IF call[i].open
     THEN /\ Settle(i)
          /\ jar' = IF call[i].ok /\ call[i].op = "login" THEN i ELSE jar
     ELSE UNCHANGED <<tab, told, jar>>
  /\ UNCHANGED <<tables, live, sent, others, met, posted>>

(***************************************************************************)
(* Handlers.  Every one but the login's needs a live session               *)
(* (get_authenticated_operator) and the CSRF token of the same login,      *)
(* which the tab reads from the cookie beside the session's.               *)
(***************************************************************************)
Handling == {i \in CallIds : call[i].at \in {"name", "code", "insert", "select", "commit"}}

\* Its parameters are of no use any more.
Answer(i, ok) ==
  LET c == call[i]
  IN call' = [call EXCEPT ![i] =
       [NoCall EXCEPT !.op = c.op, !.tab = c.tab, !.rows = c.rows, !.total = c.total,
                      !.at = "answered", !.ok = ok, !.open = c.open]]

Authenticate(i) ==
  /\ call[i].at = "sent"
  /\ call[i].op # "login"
  /\ IF call[i].session \in live
     THEN /\ call' = [call EXCEPT ![i].at =
                        IF call[i].op = "supplier" THEN "name" ELSE "select"]
          /\ met' = [j \in CallIds |-> IF j = i THEN Handling
                                       ELSE IF j \in Handling THEN met[j] \cup {i}
                                       ELSE met[j]]
     ELSE /\ Answer(i, FALSE)
          /\ UNCHANGED met
  /\ UNCHANGED <<tables, live, jar, tab, sent, others, told, posted>>

\* authenticate_operator: a session, or a wrong password (or too many of them).
Login(i) ==
  /\ call[i].at = "sent"
  /\ call[i].op = "login"
  /\ \/ /\ Answer(i, TRUE)
        /\ live' = live \cup {i}
     \/ /\ Answer(i, FALSE)
        /\ UNCHANGED live
  /\ UNCHANGED <<tables, jar, tab, sent, others, told, met, posted>>

\* A mutant: the name is not looked up.
SelectNameSkipped(i) ==
  /\ call[i].at = "name"
  /\ call' = [call EXCEPT ![i].at = "code"]
  /\ UNCHANGED <<tables, live, jar, tab, sent, others, told, met, posted>>

\* create_operator_supplier: the select by name, 409 if there is one.
SelectName(i) ==
  /\ call[i].at = "name"
  /\ IF \E s \in suppliers : s.name = call[i].name
     THEN Answer(i, FALSE)
     ELSE call' = [call EXCEPT ![i].at = "code"]
  /\ UNCHANGED <<tables, live, jar, tab, sent, others, told, met, posted>>

\* unique_supplier_code: the first code that is free.
FreeCodes == {c \in Codes : \A s \in suppliers : s.code # c}

SelectCode(i) ==
  /\ call[i].at = "code"
  /\ call' = [call EXCEPT ![i].at = "insert",
                          ![i].code = CHOOSE c \in FreeCodes : \A d \in FreeCodes : c <= d]
  /\ UNCHANGED <<tables, live, jar, tab, sent, others, told, met, posted>>

\* The insert; suppliers.code is unique, and nothing catches its violation.
InsertSupplier(i) ==
  /\ call[i].at = "insert"
  /\ IF call[i].code \in FreeCodes
     THEN /\ suppliers' = suppliers \cup {[id |-> i, name |-> call[i].name,
                                           code |-> call[i].code]}
          /\ Answer(i, TRUE)
     ELSE /\ Answer(i, FALSE)
          /\ UNCHANGED suppliers
  /\ UNCHANGED <<variants, aliases, live, jar, tab, sent, others, told, met, posted>>

\* POST /suppliers asks for no session and looks nothing up: the caller gives the
\* name and the code.  A code that is taken is an error and changes nothing.
PostSupplier(name, code) ==
  LET i == sent + 1 IN
  /\ sent + others < MaxEvents
  /\ sent' = i
  /\ code \in FreeCodes
  /\ suppliers' = suppliers \cup {[id |-> i, name |-> name, code |-> code]}
  /\ posted' = posted \cup {i}
  /\ UNCHANGED <<variants, aliases, live, jar, tab, call, others, told, met>>

(***************************************************************************)
(* onboard_product, one transaction.  The selects may as well be one step: *)
(* an insert waits for a rival's commit and then fails, and an alias       *)
(* selected after a rival's commit is an onboarding selected after it.     *)
(***************************************************************************)
\* A mutant: the alias is looked up among the variant's own only.
SelectProductOwnAliases(i) ==
  /\ call[i].at = "select"
  /\ call' = [call EXCEPT
       ![i].at = "commit",
       ![i].newProduct = variants = {},
       ![i].newVariant = call[i].variant \notin variants,
       ![i].newAlias = /\ call[i].alias # NoAlias
                       /\ \A a \in aliases :
                            a.alias = call[i].alias => a.variant # call[i].variant]
  /\ UNCHANGED <<tables, live, jar, tab, sent, others, told, met, posted>>

SelectProduct(i) ==
  /\ call[i].at = "select"
  /\ call' = [call EXCEPT
       ![i].at = "commit",
       ![i].newProduct = variants = {},
       ![i].newVariant = call[i].variant \notin variants,
       ![i].newAlias = /\ call[i].alias # NoAlias
                       /\ \A a \in aliases : a.alias # call[i].alias]
  /\ UNCHANGED <<tables, live, jar, tab, sent, others, told, met, posted>>

\* Product and canonical key are unique.  An alias is unique with its source:
\* two rows without one never conflict.
Conflicts(i) ==
  \/ call[i].newProduct /\ variants # {}
  \/ call[i].newVariant /\ call[i].variant \in variants

CommitProduct(i) ==
  /\ call[i].at = "commit"
  /\ IF Conflicts(i)
     THEN /\ Answer(i, FALSE)
          /\ UNCHANGED <<variants, aliases>>
     ELSE /\ Answer(i, TRUE)
          /\ variants' = variants \cup {call[i].variant}
          /\ aliases' = IF call[i].newAlias
                        THEN aliases \cup {[id |-> i, alias |-> call[i].alias,
                                            variant |-> call[i].variant]}
                        ELSE aliases
  /\ UNCHANGED <<suppliers, live, jar, tab, sent, others, told, met, posted>>

Handle(i) ==
  \/ Authenticate(i) \/ Login(i)
  \/ SelectName(i) \/ SelectCode(i) \/ InsertSupplier(i)
  \/ SelectProduct(i) \/ CommitProduct(i)

(***************************************************************************)
(* What may go wrong: a session ends (expires_at, revoked_at, a user       *)
(* deactivated), a handler dies, the connection of a request is lost.      *)
(***************************************************************************)
Event ==
  /\ sent + others < MaxEvents
  /\ others' = others + 1

Expire(s) ==
  /\ Event
  /\ s \in live
  /\ live' = live \ {s}
  /\ UNCHANGED <<tables, jar, tab, call, sent, told, met, posted>>

\* The transaction is rolled back, or it was committed and the answer is an error.
Fail(i) ==
  /\ Event
  /\ call[i].at # "none"
  /\ Answer(i, FALSE)
  /\ UNCHANGED <<tables, live, jar, tab, sent, told, met, posted>>

\* A mutant: finally forgotten in the login form.
LoseWhileSigningIn(i) ==
  /\ Event
  /\ call[i].open
  /\ call' = [call EXCEPT ![i].open = FALSE]
  /\ tab' = IF call[i].op # "supplier" THEN tab
            ELSE [tab EXCEPT ![call[i].tab].busy = FALSE]
  /\ UNCHANGED <<tables, live, jar, sent, told, met, posted>>

\* fetch rejects; the handler goes on.  The onboarding form has no catch.
Lose(i) ==
  /\ Event
  /\ call[i].open
  /\ call' = [call EXCEPT ![i].open = FALSE]
  /\ tab' = IF call[i].op = "product" THEN tab
            ELSE [tab EXCEPT ![call[i].tab].busy = FALSE]
  /\ UNCHANGED <<tables, live, jar, sent, told, met, posted>>

Next ==
  \/ \E t \in Tabs :
       \/ \E view \in Views \ {"error"} : Open(t, view)
       \/ ClickLogin(t)
       \/ \E name \in Names : ClickCreateSupplier(t, name)
       \/ \E variant \in Variants, alias \in Aliases \cup {NoAlias} :
            ClickOnboard(t, variant, alias)
  \/ \E i \in CallIds : Handle(i) \/ Receive(i) \/ Fail(i) \/ Lose(i)
  \/ \E s \in Sessions : Expire(s)
  \/ \E name \in Names, code \in PostCodes : PostSupplier(name, code)

Spec == Init /\ [][Next]_vars

\* The server's event loop runs the handlers, the browser's the callbacks.
FairSpec == Spec /\ \A i \in CallIds : WF_vars(Handle(i)) /\ WF_vars(Receive(i))

(***************************************************************************)
(* Properties.                                                             *)
(***************************************************************************)

\* Every variable has its type; the codes that are taken never run out, and a
\* request whose answer is awaited is one that was sent and not yet settled.
TypeOK ==
  /\ suppliers \subseteq Supplier
  /\ variants \subseteq Variants
  /\ aliases \subseteq Alias
  /\ live \subseteq Sessions
  /\ jar \in Sessions
  /\ tab \in [Tabs -> TabState]
  /\ call \in [CallIds -> CallState]
  /\ sent \in 0..MaxEvents
  /\ others \in 0..MaxEvents
  /\ told \in [Tabs -> SUBSET CallIds]
  /\ met \in [CallIds -> SUBSET CallIds]
  /\ posted \subseteq CallIds
  /\ \A i \in CallIds : call[i].open => i <= sent /\ call[i].at # "none"

\* A supplier table lists every supplier it said it created and no other than
\* stored ones, and its total is the loaded one and those (setRows and setTotal of
\* SupplierManagement compute both from the values at the click); the mapping form
\* has chosen a supplier of its list, and never loses one it created.
TableTrue ==
  \A t \in Tabs :
    /\ told[t] \subseteq tab[t].rows
    /\ tab[t].rows \subseteq Ids
    /\ tab[t].view = "suppliers" => tab[t].total = tab[t].loaded + Cardinality(told[t])
    /\ tab[t].chosen \in {0} \cup tab[t].rows

\* Two suppliers have one name only if their creations were handled at the same
\* time or the later one came by POST /suppliers: create_operator_supplier refuses
\* every name it finds, however that came about, and suppliers.name is not unique.
NamesUnlessOverlap ==
  \A a, b \in suppliers :
    a.name = b.name /\ a.id < b.id => b.id \in met[a.id] \cup posted

\* Two rows hold one alias (of two variants, or of one) only if their onboardings
\* were handled at the same time: uq_product_aliases_normalized_source does not
\* compare rows without a source, so the select in onboard_product is all that keeps
\* its aliases apart.
AliasUnlessOverlap ==
  \A a, b \in aliases : a.alias = b.alias /\ a.id # b.id => b.id \in met[a.id]

\* The login form and both supplier forms are enabled again after every request,
\* whatever happens to it (their finally clauses).
FormsSettle ==
  \A t \in Tabs :
    tab[t].busy /\ tab[t].view # "onboarding" ~> ~tab[t].busy \/ tab[t].view = "onboarding"

=============================================================================
