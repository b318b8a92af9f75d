--------------------------- MODULE PriceBotProofs ---------------------------
(***************************************************************************)
(* Theorems about PriceBot, for every number of updates, channels,         *)
(* suppliers, pages, requests and faults: its types and counts, that it    *)
(* implements PriceIntake, and that revisions only grow.                   *)
(***************************************************************************)
EXTENDS PriceBot, FiniteSetTheorems, TLAPS

(***************************************************************************)
(* The inductive invariant.                                                *)
(***************************************************************************)
Typed == TypeOK /\ revisions \in [Batches -> Seq(Revision)]

\* Everything acknowledged is filed, and filed in a batch of its channel.
Filing ==
  \A u \in Updates :
    /\ u <= cursor => filed[u] # Unseen
    /\ filed[u] \in Batches =>
         /\ origin[u] \in Channels
         /\ batch[filed[u]].channel = origin[u]
         /\ batch[filed[u]].status # "NONE"

\* A poll files its updates in order and moves the offset forward.
Polling ==
  bot.at # "idle" =>
    /\ cursor < bot.now
    /\ cursor < bot.last
    /\ bot.now <= bot.last \/ bot.at = "process"
    /\ bot.at = "process" => bot.now = bot.last + 1
    /\ \A u \in Updates : u < bot.now => filed[u] # Unseen

\* The update in hand is not filed yet, and the batch found for it is of its channel.
Saving ==
  /\ bot.at \in {"find", "save"} =>
       /\ filed[bot.now] = Unseen
       /\ origin[bot.now] \in Channels
       /\ bot.source # NoSource => mapped[origin[bot.now]] # NoSource
  /\ bot.at = "save" =>
       /\ bot.batch \in Batches
       /\ batch[bot.batch].channel = origin[bot.now]
       /\ batch[bot.batch].status # "NONE"

\* Only batches of mapped channels are given to the pipeline: to the bot's loop,
Usable(b) == batch[b].status # "NONE" /\ mapped[batch[b].channel] # NoSource

Touched == \A b \in bot.touched : Usable(b)

\* to a worker, which holds the text of its batch as it was.
Working ==
  \A w \in Workers : job[w].at # "none" =>
    /\ job[w].batch \in Batches
    /\ Usable(job[w].batch)
    /\ job[w].text \subseteq Text(job[w].batch)
    /\ job[w].at = "process" => job[w].seen \in DOMAIN revisions[job[w].batch]

Asked == \A i \in CallIds : call[i].at = "sent" /\ call[i].op # "map" => call[i].batch # 0

\* Two workers at one batch are known.
Alone ==
  \A v, w \in Workers :
    v # w /\ job[v].batch = job[w].batch /\ job[w].batch # 0 => job[w].batch \in overlapped

\* A revision holds messages of its batch; a worker alone at a batch holds as many.
Kept ==
  \A b \in Batches : \A n \in DOMAIN revisions[b] :
    /\ revisions[b][n].text \subseteq Text(b)
    /\ \A w \in Workers : job[w].at # "none" /\ job[w].batch = b /\ b \notin overlapped =>
         revisions[b][n].text \subseteq job[w].text

Intaken == Filing /\ Polling /\ Saving /\ Touched /\ CountedOnce
Pipeline == Asked /\ Working /\ Alone /\ Kept

IInv == Typed /\ Intaken /\ Pipeline

-----------------------------------------------------------------------------
\* What every step keeps: texts, batches in use, mapped channels.
Grows ==
  /\ \A b \in Batches : Text(b) \subseteq Text(b)'
  /\ \A b \in Batches : batch[b].status # "NONE" =>
       batch'[b].status # "NONE" /\ batch'[b].channel = batch[b].channel
  /\ \A c \in Channels : mapped[c] # NoSource => mapped'[c] # NoSource
  /\ overlapped \subseteq overlapped'

\* What a step other than the bot's filing does to what is filed: nothing.
Quiet ==
  /\ UNCHANGED <<origin, cursor, filed>>
  /\ \A b \in Batches : /\ batch'[b].channel = batch[b].channel
                        /\ batch'[b].count = batch[b].count
                        /\ batch[b].status # "NONE" => batch'[b].status # "NONE"
  /\ \A c \in Channels : mapped[c] # NoSource => mapped'[c] # NoSource
  /\ \/ bot'.at = "idle"
     \/ /\ bot'.at = bot.at /\ bot'.now = bot.now /\ bot'.last = bot.last
        /\ bot'.source = bot.source /\ bot'.batch = bot.batch
  /\ bot'.touched \subseteq bot.touched
  /\ overlapped \subseteq overlapped'

LEMMA QuietKept ==
  ASSUME Typed, Intaken, Quiet
  PROVE  Intaken' /\ Grows
<1>1. \A b \in Batches : Text(b)' = Text(b)
  BY DEF Quiet, Text
<1>2. bot \in BotState
  BY DEF Typed, TypeOK
<1>4. Grows
  BY <1>1 DEF Quiet, Grows
<1>5. Filing'
  BY DEF Quiet, Intaken, Filing
<1>6. Polling'
  BY DEF Quiet, Intaken, Polling
<1>7. Saving'
  <2>1. bot.at \in {"find", "save"} => bot.now \in Updates
    BY <1>2, PriceBotAssumption DEF Intaken, Polling, BotState, Typed, TypeOK, Updates
  <2> QED
    BY <2>1 DEF Quiet, Intaken, Saving
<1>8. Touched'
  <2>1. \A b \in Batches : batch[b].channel \in Channels
    BY DEF Typed, TypeOK, BatchState
  <2>2. bot.touched \subseteq Batches
    BY <1>2 DEF BotState
  <2> QED
    BY <2>1, <2>2 DEF Quiet, Intaken, Touched, Usable
<1>9. CountedOnce'
  BY <1>1 DEF Quiet, Intaken, CountedOnce
<1> QED
  BY <1>4, <1>5, <1>6, <1>7, <1>8, <1>9 DEF Intaken

\* The next update, or the batches.
LEMMA ContinueFacts ==
  ASSUME NEW state \in BotState, state.now <= state.last, state.now >= 1
  PROVE  /\ Continue(state) \in BotState
         /\ Continue(state).at = IF state.now < state.last THEN "persist" ELSE "process"
         /\ Continue(state).now = state.now + 1
         /\ Continue(state).last = state.last
         /\ Continue(state).touched = state.touched
<1> DEFINE step == IF state.now < state.last THEN "persist" ELSE "process"
           next == [at |-> step, now |-> state.now + 1, last |-> state.last,
                    source |-> NoSource, batch |-> 0, status |-> "NONE",
                    touched |-> state.touched]
<1>0. Continue(state) = [state EXCEPT !.now = state.now + 1, !.source = NoSource,
                           !.batch = 0, !.status = "NONE", !.at = step]
  BY DEF Continue
<1>1. Continue(state) = next
  <2> HIDE DEF step
  <2> QED
    BY <1>0 DEF BotState
<1>2. next \in BotState
  <2>1. state.now + 1 \in 0..(MaxUpdates + 1)
    BY PriceBotAssumption DEF BotState
  <2>2. step \in {"persist", "process"}
    OBVIOUS
  <2> HIDE DEF step
  <2> QED
    BY <2>1, <2>2 DEF BotState, Status, Receiving
<1> QED
  BY <1>1, <1>2

LEMMA Apart ==
  ASSUME Typed
  PROVE  /\ Updates \subseteq Nat
         /\ 0 \notin Batches
         /\ Unseen \notin Batches /\ Refused \notin Batches
         /\ Refused \notin Channels /\ Unseen # Refused
         /\ IsFiniteSet(Updates) /\ Cardinality(Updates) = MaxUpdates
<1>1. MaxUpdates \in Nat
  BY PriceBotAssumption
<1>2. IsFiniteSet(1..MaxUpdates) /\ Cardinality(1..MaxUpdates) = MaxUpdates
  BY <1>1, FS_Interval
<1> QED
  BY <1>1, <1>2, PriceBotAssumption DEF Updates, Batches

\* The update in hand is one of Updates, and what is known of it.
LEMMA InHand ==
  ASSUME Typed, Intaken, bot.at \in {"persist", "find", "save"}
  PROVE  /\ bot.now \in Updates
         /\ bot.now <= bot.last /\ 1 <= bot.now
         /\ bot \in BotState
         /\ \A u \in Updates : u < bot.now + 1 => filed[u] # Unseen \/ u = bot.now
<1>1. bot \in BotState
  BY DEF Typed, TypeOK
<1>2. bot.now \in Nat /\ bot.last \in 0..MaxUpdates /\ cursor \in Nat
  BY PriceBotAssumption DEF BotState, Typed, TypeOK
<1>3. /\ bot.now \in Updates /\ bot.now <= bot.last /\ 1 <= bot.now
      /\ \A u \in Updates : u < bot.now => filed[u] # Unseen
  BY <1>2, PriceBotAssumption DEF Intaken, Polling, Updates
<1> QED
  BY <1>1, <1>2, <1>3, PriceBotAssumption DEF Updates

LEMMA GetUpdatesKeeps ==
  ASSUME Typed, Intaken, NEW last \in Updates, GetUpdates(last)
  PROVE  Typed' /\ Intaken' /\ Grows
<1> DEFINE next == [at |-> "persist", now |-> cursor + 1, last |-> last,
                    source |-> NoSource, batch |-> 0, status |-> "NONE", touched |-> {}]
<1>1. bot' = next
  BY DEF GetUpdates, Idle
<1>2. cursor \in 0..MaxUpdates /\ last \in 1..MaxUpdates /\ last > cursor /\ MaxUpdates \in Nat
  BY PriceBotAssumption DEF Typed, TypeOK, GetUpdates, Updates
<1>3. next \in BotState
  BY <1>2 DEF BotState, Status, Receiving
<1>4. Typed'
  BY <1>1, <1>3 DEF GetUpdates, Typed, TypeOK, tables, console
<1>5. UNCHANGED <<origin, cursor, filed, batch, mapped, overlapped>>
  BY DEF GetUpdates, tables
<1>6. Polling'
  BY <1>1, <1>2, <1>5 DEF Polling, Intaken, Filing, Updates
<1>7. Saving' /\ Touched'
  BY <1>1 DEF Saving, Touched
<1>8. Filing' /\ CountedOnce' /\ Grows
  BY <1>5 DEF Intaken, Filing, CountedOnce, Grows, Text
<1> QED
  BY <1>4, <1>6, <1>7, <1>8 DEF Intaken

\* What going on to the next update keeps.
LEMMA Continued ==
  ASSUME Typed, Intaken, bot.at \in {"persist", "save"},
         NEW state \in BotState, state.now = bot.now, state.last = bot.last,
         bot' = Continue(state), UNCHANGED cursor,
         filed'[bot.now] # Unseen,
         \A u \in Updates : filed[u] # Unseen => filed'[u] # Unseen
  PROVE  bot' \in BotState /\ Polling' /\ Saving'
<1>1. /\ bot.now \in Updates /\ bot.now <= bot.last /\ 1 <= bot.now
      /\ \A u \in Updates : u < bot.now + 1 => filed[u] # Unseen \/ u = bot.now
  BY InHand
<1>2. /\ bot' \in BotState
      /\ bot'.at = IF bot.now < bot.last THEN "persist" ELSE "process"
      /\ bot'.now = bot.now + 1 /\ bot'.last = bot.last
  BY <1>1, ContinueFacts
<1>3. cursor < bot.now /\ cursor < bot.last
  BY DEF Intaken, Polling
<1>4. /\ cursor \in Nat /\ bot.now \in Nat /\ bot.last \in Nat
  BY <1>1, PriceBotAssumption DEF Typed, TypeOK, Updates, BotState
<1>5. Polling'
  BY <1>1, <1>2, <1>3, <1>4 DEF Polling, Updates
<1>6. Saving'
  BY <1>2 DEF Saving
<1> QED
  BY <1>2, <1>5, <1>6

LEMMA SkipDuplicateKeeps ==
  ASSUME Typed, Intaken, SkipDuplicate
  PROVE  Typed' /\ Intaken' /\ Grows
<1>1. UNCHANGED <<origin, cursor, filed, batch, mapped, overlapped>>
  BY DEF SkipDuplicate, tables
<1>2. bot \in BotState /\ bot'.touched = bot.touched
  BY InHand, ContinueFacts DEF SkipDuplicate
<1>3. bot' \in BotState /\ Polling' /\ Saving'
  BY <1>1, <1>2, Continued DEF SkipDuplicate
<1>4. Typed'
  BY <1>3 DEF SkipDuplicate, Typed, TypeOK, tables, console
<1>5. Touched'
  BY <1>1, <1>2 DEF Touched, Intaken, Usable
<1>6. Filing' /\ CountedOnce' /\ Grows
  BY <1>1 DEF Intaken, Filing, CountedOnce, Grows, Text
<1> QED
  BY <1>3, <1>4, <1>5, <1>6 DEF Intaken

LEMMA FileRefusedKeeps ==
  ASSUME Typed, Intaken, FileRefused
  PROVE  Typed' /\ Intaken' /\ Grows
<1>1. UNCHANGED <<origin, cursor, batch, mapped, overlapped>>
  BY DEF FileRefused
<1>2. bot \in BotState /\ bot'.touched = bot.touched /\ bot.now \in Updates
  BY InHand, ContinueFacts DEF FileRefused
<1>3. /\ filed' \in [Updates -> Batches \cup {Unseen, Refused}]
      /\ filed'[bot.now] = Refused
      /\ \A u \in Updates : u # bot.now => filed'[u] = filed[u]
  BY <1>2 DEF FileRefused, Typed, TypeOK
<1>4. bot' \in BotState /\ Polling' /\ Saving'
  BY <1>1, <1>2, <1>3, Continued, PriceBotAssumption DEF FileRefused
<1>5. Typed'
  BY <1>3, <1>4 DEF FileRefused, Typed, TypeOK, console
<1>6. Touched'
  BY <1>1, <1>2 DEF Touched, Intaken, Usable
<1>7. \A b \in Batches : Text(b)' = Text(b)
  BY <1>2, <1>3, Apart DEF Text, FileRefused
<1>8. Filing'
  BY <1>1, <1>3, Apart DEF Filing, Intaken
<1>9. CountedOnce' /\ Grows
  BY <1>1, <1>7 DEF Intaken, CountedOnce, Grows
<1> QED
  BY <1>4, <1>5, <1>6, <1>8, <1>9 DEF Intaken

LEMMA UpsertSourceKeeps ==
  ASSUME Typed, Intaken, UpsertSource
  PROVE  Typed' /\ Intaken' /\ Grows
<1>1. UNCHANGED <<origin, cursor, filed, batch, overlapped>>
  BY DEF UpsertSource
<1> DEFINE c == origin[bot.now]
<1>2. /\ bot \in BotState /\ bot.now \in Updates /\ c \in Channels
  BY InHand DEF UpsertSource, Typed, TypeOK
<1>3. PICK s \in Adoptable(c) : /\ mapped' = [mapped EXCEPT ![c] = s]
                                /\ bot' = [bot EXCEPT !.at = "find", !.source = s]
  BY DEF UpsertSource
<1>4. s \in sources \cup {NoSource} /\ (mapped[c] # NoSource => s = mapped[c])
  BY <1>2 DEF Adoptable, Typed, TypeOK
<1>5. /\ mapped' \in [Channels -> sources \cup {NoSource}]
      /\ mapped'[c] = s
      /\ \A d \in Channels : mapped[d] # NoSource => mapped'[d] # NoSource
  BY <1>2, <1>3, <1>4 DEF Typed, TypeOK
<1>6. s \in Sources \cup {NoSource}
  BY <1>4 DEF Typed, TypeOK
<1>7. /\ bot' \in BotState /\ bot'.at = "find" /\ bot'.source = s /\ bot'.now = bot.now
      /\ bot'.last = bot.last /\ bot'.touched = bot.touched
  BY <1>2, <1>3, <1>6 DEF BotState
<1>8. Typed'
  BY <1>5, <1>7 DEF UpsertSource, Typed, TypeOK, console
<1>9. Polling'
  BY <1>1, <1>7 DEF Intaken, Polling, UpsertSource
<1>10. Saving'
  BY <1>1, <1>2, <1>5, <1>7 DEF Saving, UpsertSource
<1>11. \A b \in Batches : batch[b].channel \in Channels
  BY DEF Typed, TypeOK, BatchState
<1>12. Touched'
  BY <1>1, <1>2, <1>5, <1>7, <1>11 DEF Intaken, Touched, Usable, BotState
<1>13. Filing' /\ CountedOnce' /\ Grows
  BY <1>1, <1>5 DEF Intaken, Filing, CountedOnce, Grows, Text
<1> QED
  BY <1>8, <1>9, <1>10, <1>12, <1>13 DEF Intaken

LEMMA FindBatchKeeps ==
  ASSUME Typed, Intaken, FindBatch
  PROVE  Typed' /\ Intaken' /\ Grows
<1> DEFINE c == origin[bot.now]
           Open == {b \in Batches : batch[b].status \in Receiving /\ batch[b].channel = c}
<1>1. UNCHANGED <<origin, cursor, filed, mapped, overlapped>>
  BY DEF FindBatch
<1>2. /\ bot \in BotState /\ bot.now \in Updates /\ c \in Channels /\ bot.at = "find"
  BY InHand DEF FindBatch, Intaken, Saving
<1>3. ReceivedStatus \in Status /\ ReceivedStatus # "NONE"
  BY DEF ReceivedStatus, Status, Receiving
\* One batch is found; if it is a new one, it is the only one changed.
<1> DEFINE Found(b, status) ==
             /\ bot' = [bot EXCEPT !.at = "save", !.batch = b, !.status = status]
             /\ \/ b \in Open /\ UNCHANGED batch
                \/ /\ batch[b].status = "NONE"
                   /\ batch' = [batch EXCEPT
                        ![b] = [channel |-> c, status |-> ReceivedStatus, count |-> 0]]
<1>4. PICK b \in Batches, status \in Status : Found(b, status)
  <2>1. ASSUME NEW b \in Open, UNCHANGED batch,
               bot' = [bot EXCEPT !.at = "save", !.batch = b, !.status = batch[b].status]
        PROVE  \E d \in Batches, status \in Status : Found(d, status)
    <3>1. batch[b].status \in Status /\ b \in Batches
      BY DEF Typed, TypeOK, BatchState
    <3>2. Found(b, batch[b].status)
      BY <2>1
    <3> HIDE DEF Found
    <3> QED
      BY <3>1, <3>2
  <2>2. ASSUME NEW b \in Batches, batch[b].status = "NONE",
               batch' = [batch EXCEPT
                          ![b] = [channel |-> c, status |-> ReceivedStatus, count |-> 0]],
               bot' = [bot EXCEPT !.at = "save", !.batch = b, !.status = ReceivedStatus]
        PROVE  \E d \in Batches, status \in Status : Found(d, status)
    <3>1. Found(b, ReceivedStatus)
      BY <2>2
    <3> HIDE DEF Found
    <3> QED
      BY <1>3, <3>1
  <2> HIDE DEF Found
  <2>3. \/ \E b \in Open :
             /\ bot' = [bot EXCEPT !.at = "save", !.batch = b, !.status = batch[b].status]
             /\ UNCHANGED batch
        \/ \E b \in {d \in Batches : batch[d].status = "NONE"} :
             /\ batch' = [batch EXCEPT
                  ![b] = [channel |-> c, status |-> ReceivedStatus, count |-> 0]]
             /\ bot' = [bot EXCEPT !.at = "save", !.batch = b, !.status = ReceivedStatus]
    BY DEF FindBatch
  <2> QED
    BY <2>1, <2>2, <2>3
<1>5. /\ bot' \in BotState /\ bot'.at = "save" /\ bot'.batch = b /\ bot'.now = bot.now
      /\ bot'.last = bot.last /\ bot'.source = bot.source /\ bot'.touched = bot.touched
  BY <1>2, <1>4 DEF BotState
<1> DEFINE new == [channel |-> c, status |-> ReceivedStatus, count |-> 0]
<1>6. new \in BatchState
  BY <1>2, <1>3, PriceBotAssumption DEF BatchState
<1>7. /\ batch' \in [Batches -> BatchState]
      /\ \A d \in Batches : batch'[d] = batch[d] \/ (d = b /\ batch[b].status = "NONE" /\ batch'[b] = new)
      /\ batch'[b].channel = c /\ batch'[b].status # "NONE"
  <2>1. batch \in [Batches -> BatchState]
    BY DEF Typed, TypeOK
  <2>2. CASE b \in Open /\ UNCHANGED batch
    BY <2>1, <2>2 DEF Receiving
  <2>3. CASE batch[b].status = "NONE" /\ batch' = [batch EXCEPT ![b] = new]
    <3> HIDE DEF new
    <3>1. batch'[b] = new /\ batch' \in [Batches -> BatchState]
          /\ \A d \in Batches : d # b => batch'[d] = batch[d]
      BY <1>6, <2>1, <2>3
    <3>2. new.channel = c /\ new.status # "NONE"
      BY <1>3 DEF new
    <3> QED
      BY <2>3, <3>1, <3>2
  <2> QED
    BY <1>4, <2>2, <2>3
<1>8. \A d \in Batches : batch[d].status # "NONE" => batch'[d] = batch[d]
  BY <1>7
<1>9. Typed'
  BY <1>5, <1>7 DEF FindBatch, Typed, TypeOK, console
<1>10. \A d \in Batches : batch[d].channel \in Channels
  BY DEF Typed, TypeOK, BatchState
<1>11. Polling'
  BY <1>1, <1>2, <1>5 DEF Intaken, Polling
<1>12. Saving'
  BY <1>1, <1>2, <1>5, <1>7 DEF Intaken, Saving
<1>13. Touched'
  BY <1>1, <1>2, <1>5, <1>8, <1>10 DEF Intaken, Touched, Usable, BotState
<1>14. Filing'
  BY <1>1, <1>8 DEF Intaken, Filing
<1>15. Text(b) = {} \/ batch'[b] = batch[b]
  BY <1>7 DEF Text, Intaken, Filing
<1>16. CountedOnce'
  <2>1. \A d \in Batches : Text(d)' = Text(d)
    BY <1>1 DEF Text
  <2>2. \A d \in Batches : batch'[d].count = batch[d].count \/ (Text(d) = {} /\ batch'[d].count = 0)
    BY <1>7, <1>15
  <2>3. Cardinality({}) = 0
    BY FS_EmptySet
  <2> QED
    BY <2>1, <2>2, <2>3 DEF Intaken, CountedOnce
<1>17. Grows
  BY <1>1, <1>8 DEF Grows, Text
<1> QED
  BY <1>9, <1>11, <1>12, <1>13, <1>14, <1>16, <1>17 DEF Intaken

LEMMA Counted ==
  ASSUME NEW r \in BatchState, NEW n \in 0..MaxUpdates, NEW status \in Status
  PROVE  [r EXCEPT !.count = n, !.status = status] =
           [channel |-> r.channel, status |-> status, count |-> n]
<1> DEFINE q == [channel |-> r.channel, status |-> r.status, count |-> n]
<1>1. [r EXCEPT !.count = n] = q /\ q \in BatchState
  BY DEF BatchState
<1>2. q.channel = r.channel /\ q.count = n
  OBVIOUS
<1>3. \A p \in BatchState :
        [p EXCEPT !.status = status] =
          [channel |-> p.channel, status |-> status, count |-> p.count]
  BY DEF BatchState
<1>4. [r EXCEPT !.count = n, !.status = status] = [[r EXCEPT !.count = n] EXCEPT !.status = status]
  OBVIOUS
<1> HIDE DEF q
<1> QED
  BY <1>1, <1>2, <1>3, <1>4

LEMMA SaveMessageKeeps ==
  ASSUME Typed, Intaken, SaveMessage
  PROVE  Typed' /\ Intaken' /\ Grows
<1>0. PICK u \in Updates, b \in Batches : u = bot.now /\ b = bot.batch
  BY InHand DEF SaveMessage, Intaken, Saving
<1>1. UNCHANGED <<origin, cursor, mapped, overlapped>>
  BY DEF SaveMessage
<1>2. /\ bot \in BotState /\ bot.at = "save"
      /\ filed[u] = Unseen /\ batch[b].status # "NONE" /\ batch[b].channel = origin[u]
      /\ origin[u] \in Channels /\ (bot.source # NoSource => mapped[origin[u]] # NoSource)
  BY <1>0, InHand DEF SaveMessage, Intaken, Saving
<1>3. /\ filed' \in [Updates -> Batches \cup {Unseen, Refused}]
      /\ filed'[u] = b
      /\ \A v \in Updates : v # u => filed'[v] = filed[v]
  BY <1>0, <1>2 DEF SaveMessage, Typed, TypeOK
<1>4. \A d \in Batches : Text(d)' = IF d = b THEN Text(d) \cup {u} ELSE Text(d)
  BY <1>2, <1>3, Apart DEF Text
<1>5. u \notin Text(b)
  BY <1>2, Apart DEF Text
<1>6. /\ IsFiniteSet(Text(b)) /\ Cardinality(Text(b)) \in Nat
      /\ Cardinality(Text(b)') = Cardinality(Text(b)) + 1
      /\ Cardinality(Text(b)') <= MaxUpdates
  <2>1. IsFiniteSet(Text(b)) /\ IsFiniteSet(Text(b)')
    BY Apart, FS_Subset DEF Text
  <2>2. Cardinality(Text(b)') <= MaxUpdates
    BY Apart, FS_Subset DEF Text
  <2> QED
    BY <1>2, <1>4, <1>5, <2>1, <2>2, FS_AddElement, FS_CardinalityType
<1> DEFINE status == IF bot.status = ReceivedStatus THEN batch[b].status ELSE ReceivedStatus
           new == [channel |-> batch[b].channel, status |-> status, count |-> batch[b].count + 1]
<1>7. batch[b] \in BatchState /\ batch \in [Batches -> BatchState]
  BY <1>2 DEF Typed, TypeOK
<1>8. status \in Status /\ status # "NONE"
  BY <1>2, <1>7 DEF ReceivedStatus, Receiving, Status, BatchState
<1>9. batch[b].count = Cardinality(Text(b))
  BY <1>2 DEF Intaken, CountedOnce
<1>10. new \in BatchState
  <2> HIDE DEF status
  <2> QED
    BY <1>6, <1>7, <1>8, <1>9, PriceBotAssumption DEF BatchState
<1>11. batch' = [batch EXCEPT ![b] = new]
  <2>1. batch' = [batch EXCEPT ![b].count = batch[b].count + 1, ![b].status = status]
    BY <1>0, <1>2, <1>7 DEF SaveMessage, BatchState
  <2> HIDE DEF status
  <2>2. [batch[b] EXCEPT !.count = batch[b].count + 1, !.status = status] = new
    <3>1. batch[b].count + 1 \in 0..MaxUpdates
      BY <1>6, <1>9, PriceBotAssumption
    <3> QED
      BY <3>1, <1>6, <1>7, <1>8, <1>9, Counted
  <2>3. batch' = [batch EXCEPT ![b] =
                    [batch[b] EXCEPT !.count = batch[b].count + 1, !.status = status]]
    BY <1>7, <2>1
  <2> HIDE DEF new
  <2> QED
    BY <2>2, <2>3
<1>12. /\ batch' \in [Batches -> BatchState] /\ batch'[b] = new
       /\ \A d \in Batches : d # b => batch'[d] = batch[d]
  <2> HIDE DEF new
  <2> QED
    BY <1>2, <1>7, <1>10, <1>11
<1>13. batch'[b].channel = batch[b].channel /\ batch'[b].count = batch[b].count + 1
       /\ batch'[b].status # "NONE"
  BY <1>8, <1>12
<1> HIDE DEF new, status
<1>14. PICK touched \in SUBSET Batches :
         /\ touched \subseteq bot.touched \cup {b}
         /\ bot.source = NoSource => touched \subseteq bot.touched
         /\ bot' = Continue([bot EXCEPT !.touched = touched])
  BY <1>0, <1>2 DEF SaveMessage, BotState
<1>15. [bot EXCEPT !.touched = touched] \in BotState
  BY <1>2 DEF BotState
<1>16. bot' \in BotState /\ Polling' /\ Saving' /\ bot'.touched = touched
  <2> DEFINE state == [bot EXCEPT !.touched = touched]
  <2>1. state.now = bot.now /\ state.last = bot.last /\ state.touched = touched
    BY <1>2 DEF BotState
  <2>2. \A v \in Updates : filed[v] # Unseen => filed'[v] # Unseen
    BY <1>2, <1>3
  <2>3. filed'[u] # Unseen
    BY <1>2, <1>3, Apart
  <2>4. state \in BotState /\ bot' = Continue(state)
    BY <1>14, <1>15
  <2> HIDE DEF state
  <2>5. bot' \in BotState /\ Polling' /\ Saving'
    BY <1>0, <1>1, <1>2, <2>1, <2>2, <2>3, <2>4, Continued
  <2>6. bot'.touched = touched
    BY <1>2, <2>1, <2>4, InHand, ContinueFacts
  <2> QED
    BY <2>5, <2>6
<1>17. Typed'
  BY <1>3, <1>12, <1>16 DEF SaveMessage, Typed, TypeOK, console
<1>18. Touched'
  <2>1. \A d \in bot.touched : Usable(d)'
    BY <1>1, <1>2, <1>12, <1>13 DEF Intaken, Touched, Usable, BotState
  <2>2. bot.source # NoSource => Usable(b)'
    BY <1>1, <1>2, <1>13 DEF Usable
  <2> QED
    BY <1>14, <1>16, <2>1, <2>2 DEF Touched
<1>19. Filing'
  <2> SUFFICES ASSUME NEW v \in Updates
               PROVE  /\ v <= cursor => filed'[v] # Unseen
                      /\ filed'[v] \in Batches =>
                           /\ origin[v] \in Channels
                           /\ batch'[filed'[v]].channel = origin[v]
                           /\ batch'[filed'[v]].status # "NONE"
    BY <1>1 DEF Filing
  <2>1. CASE v = u
    BY <1>2, <1>3, <1>13, <2>1, Apart
  <2>2. CASE v # u
    BY <1>3, <1>12, <1>13, <2>2 DEF Intaken, Filing
  <2> QED
    BY <2>1, <2>2
<1>20. CountedOnce'
  BY <1>4, <1>6, <1>9, <1>12, <1>13 DEF Intaken, CountedOnce
<1>21. Grows
  BY <1>1, <1>4, <1>12, <1>13 DEF Grows
<1> QED
  BY <1>16, <1>17, <1>18, <1>19, <1>20, <1>21 DEF Intaken

LEMMA AcknowledgeKeeps ==
  ASSUME Typed, Intaken, Acknowledge
  PROVE  Typed' /\ Intaken' /\ Grows
<1>1. UNCHANGED <<origin, filed, batch, mapped, overlapped>>
  BY DEF Acknowledge
<1>2. bot \in BotState /\ bot.last \in 0..MaxUpdates /\ cursor' = bot.last
  BY DEF Acknowledge, Typed, TypeOK, BotState
<1>3. bot' = Idle /\ Idle \in BotState /\ Idle.at = "idle" /\ Idle.touched = {}
  BY PriceBotAssumption DEF Acknowledge, Idle, BotState, Status
<1>4. Typed'
  BY <1>2, <1>3 DEF Acknowledge, Typed, TypeOK, console
<1>5. \A u \in Updates : u <= bot.last => filed[u] # Unseen
  BY <1>2, PriceBotAssumption DEF Acknowledge, Intaken, Polling, Updates
<1>6. Filing' /\ CountedOnce' /\ Grows
  BY <1>1, <1>2, <1>5 DEF Intaken, Filing, CountedOnce, Grows, Text
<1>7. Polling' /\ Saving' /\ Touched'
  BY <1>3 DEF Polling, Saving, Touched
<1> QED
  BY <1>4, <1>6, <1>7 DEF Intaken

-----------------------------------------------------------------------------
LEMMA Idling ==
  /\ NoJob \in JobState /\ NoJob.at = "none" /\ NoJob.batch = 0
  /\ Idle \in BotState /\ Idle.at = "idle" /\ Idle.touched = {}
  /\ NoCall \in CallState /\ NoCall.at = "none"
<1>1. NoJob \in JobState /\ NoJob.at = "none" /\ NoJob.batch = 0
  BY DEF NoJob, JobState
<1>2. Idle \in BotState /\ Idle.at = "idle" /\ Idle.touched = {}
  BY PriceBotAssumption DEF Idle, BotState, Status
<1>3. PICK p \in Pages, c \in Channels, s \in Suppliers :
        NoCall = [op |-> "map", page |-> p, channel |-> c, supplier |-> s, batch |-> 0,
                  at |-> "none", source |-> NoSource, ok |-> FALSE, open |-> FALSE]
  BY PriceBotAssumption DEF NoCall
<1>4. NoCall \in CallState /\ NoCall.at = "none"
  BY <1>3 DEF CallState
<1> QED
  BY <1>1, <1>2, <1>4

\* A step that starts no worker: workers go on or end, revisions are added.
LEMMA PipelineAdvances ==
  ASSUME Typed, Pipeline, Grows, Asked', batch' \in [Batches -> BatchState],
         \A w \in Workers :
           \/ job'[w].at = "none" /\ job'[w].batch = 0
           \/ job'[w] = job[w]
           \/ /\ job[w].at # "none"
              /\ job'[w].batch = job[w].batch
              /\ job'[w].text = job[w].text
              /\ job'[w].at = "process" => job'[w].seen \in DOMAIN revisions'[job[w].batch],
         \A b \in Batches :
           /\ DOMAIN revisions[b] \subseteq DOMAIN revisions'[b]
           /\ \A n \in DOMAIN revisions'[b] :
                \/ n \in DOMAIN revisions[b] /\ revisions'[b][n].text = revisions[b][n].text
                \/ \E w \in Workers : /\ job[w].at # "none" /\ job[w].batch = b
                                      /\ revisions'[b][n].text = job[w].text
  PROVE  Pipeline'
<1>1. \A w \in Workers : job'[w].at # "none" =>
        job[w].at # "none" /\ job'[w].batch = job[w].batch /\ job'[w].text = job[w].text
  OBVIOUS
<1>2. \A b \in Batches : batch[b].channel \in Channels
  BY DEF Typed, TypeOK, BatchState
<1>3. \A b \in Batches : Usable(b) => Usable(b)'
  BY <1>2 DEF Grows, Usable
<1>4. Working'
  <2> SUFFICES ASSUME NEW w \in Workers, job'[w].at # "none"
               PROVE  /\ job'[w].batch \in Batches
                      /\ Usable(job[w].batch)'
                      /\ job'[w].batch = job[w].batch
                      /\ job'[w].text \subseteq Text(job[w].batch)'
                      /\ job'[w].at = "process" =>
                           job'[w].seen \in DOMAIN revisions'[job'[w].batch]
    BY DEF Working
  <2> QED
    BY <1>1, <1>3 DEF Pipeline, Working, Grows
<1>5. Alone'
  <2>1. \A w \in Workers : job'[w].batch # 0 => job'[w].batch = job[w].batch
    OBVIOUS
  <2> QED
    BY <2>1 DEF Pipeline, Alone, Grows
<1>6. Kept'
  <2> SUFFICES ASSUME NEW b \in Batches, NEW n \in DOMAIN revisions'[b]
               PROVE  /\ revisions'[b][n].text \subseteq Text(b)'
                      /\ \A w \in Workers :
                           job'[w].at # "none" /\ job'[w].batch = b /\ b \notin overlapped' =>
                             revisions'[b][n].text \subseteq job'[w].text
    BY DEF Kept
  <2>1. CASE n \in DOMAIN revisions[b] /\ revisions'[b][n].text = revisions[b][n].text
    BY <1>1, <2>1 DEF Pipeline, Kept, Grows
  <2>2. ASSUME NEW w \in Workers, job[w].at # "none", job[w].batch = b,
               revisions'[b][n].text = job[w].text
        PROVE  /\ revisions'[b][n].text \subseteq Text(b)'
               /\ \A v \in Workers :
                    job'[v].at # "none" /\ job'[v].batch = b /\ b \notin overlapped' =>
                      revisions'[b][n].text \subseteq job'[v].text
    <3>1. job[w].text \subseteq Text(b)'
      BY <2>2 DEF Pipeline, Working, Grows
    <3>2. ASSUME NEW v \in Workers, job'[v].at # "none", job'[v].batch = b, b \notin overlapped'
          PROVE  v = w
      BY <1>1, <2>2, <3>2, Apart DEF Pipeline, Alone, Grows
    <3> QED
      BY <1>1, <2>2, <3>1, <3>2
  <2> QED
    BY <2>1, <2>2
<1> QED
  BY <1>4, <1>5, <1>6 DEF Pipeline

\* A step that leaves jobs and revisions alone.
LEMMA PipelineRests ==
  ASSUME Typed, Pipeline, Grows, Asked', batch' \in [Batches -> BatchState],
         UNCHANGED <<job, revisions>>
  PROVE  Pipeline'
<1>1. \A w \in Workers : job'[w] = job[w]
  OBVIOUS
<1>2. \A b \in Batches :
        /\ DOMAIN revisions[b] \subseteq DOMAIN revisions'[b]
        /\ \A n \in DOMAIN revisions'[b] :
             n \in DOMAIN revisions[b] /\ revisions'[b][n].text = revisions[b][n].text
  OBVIOUS
<1> QED
  BY <1>1, <1>2, PipelineAdvances

\* A worker ends: nothing but its job changes.
LEMMA PipelineReleases ==
  ASSUME Typed, Pipeline, Grows, Asked', batch' \in [Batches -> BatchState],
         UNCHANGED revisions, NEW w \in Workers, job' = [job EXCEPT ![w] = NoJob]
  PROVE  Pipeline'
<1>1. \A v \in Workers : (job'[v].at = "none" /\ job'[v].batch = 0) \/ job'[v] = job[v]
  BY Idling DEF Typed, TypeOK
<1>2. \A b \in Batches :
        /\ DOMAIN revisions[b] \subseteq DOMAIN revisions'[b]
        /\ \A n \in DOMAIN revisions'[b] :
             n \in DOMAIN revisions[b] /\ revisions'[b][n].text = revisions[b][n].text
  OBVIOUS
<1> QED
  BY <1>1, <1>2, PipelineAdvances

\* One request moves on.
LEMMA CallMoves ==
  ASSUME Typed, Asked, NEW i \in CallIds, NEW c \in CallState,
         call' = [call EXCEPT ![i] = c],
         c.at = "sent" /\ c.op # "map" => c.batch # 0
  PROVE  call' \in [CallIds -> CallState] /\ Asked'
<1>1. call \in [CallIds -> CallState]
  BY DEF Typed, TypeOK
<1>2. /\ call' \in [CallIds -> CallState] /\ call'[i] = c
      /\ \A k \in CallIds : k # i => call'[k] = call[k]
  BY <1>1
<1> QED
  BY <1>2 DEF Asked

LEMMA Answering ==
  ASSUME Typed, Asked, NEW i \in CallIds, NEW ok \in BOOLEAN,
         call' = [call EXCEPT ![i].at = "answered", ![i].ok = ok]
  PROVE  call' \in [CallIds -> CallState] /\ Asked'
<1> DEFINE c == [call[i] EXCEPT !.at = "answered", !.ok = ok]
<1>1. call \in [CallIds -> CallState] /\ call[i] \in CallState
  BY DEF Typed, TypeOK
<1>2. c \in CallState /\ c.at = "answered"
  BY <1>1 DEF CallState
<1>3. call' = [call EXCEPT ![i] = c]
  BY <1>1
<1> HIDE DEF c
<1> QED
  BY <1>2, <1>3, CallMoves

\* A worker ends, well or not.
LEMMA Ending ==
  ASSUME Typed, Asked, NEW w \in Workers, Done(w) \/ Abort(w)
  PROVE  /\ call' \in [CallIds -> CallState] /\ Asked'
         /\ bot' \in BotState /\ bot' \in {bot, Idle}
         /\ job' = [job EXCEPT ![w] = NoJob]
         /\ job' \in [Workers -> JobState]
<1>1. bot \in BotState /\ job \in [Workers -> JobState] /\ call \in [CallIds -> CallState]
  BY DEF Typed, TypeOK
<1>2. job' = [job EXCEPT ![w] = NoJob] /\ bot' \in {bot, Idle}
  BY DEF Done, Abort
<1>3. w = Bot \/ w \in CallIds
  BY DEF Workers
<1>4. call' \in [CallIds -> CallState] /\ Asked'
  <2>1. CASE call' = call
    BY <1>1, <2>1 DEF Asked
  <2>2. CASE \E ok \in BOOLEAN : call' = [call EXCEPT ![w].at = "answered", ![w].ok = ok]
             /\ w \in CallIds
    BY <2>2, Answering
  <2> QED
    BY <1>3, <2>1, <2>2 DEF Done, Abort
<1> QED
  BY <1>1, <1>2, <1>4, Idling

\* A step that moves no batch and files nothing.
LEMMA Quietly ==
  ASSUME Typed, bot' \in {bot, Idle}, UNCHANGED <<origin, cursor, filed, batch>>,
         \A c \in Channels : mapped[c] # NoSource => mapped'[c] # NoSource,
         overlapped \subseteq overlapped'
  PROVE  Quiet
BY Idling DEF Quiet

\* Such steps, as the lemmas below conclude.
Sound == Typed' /\ Intaken' /\ Pipeline' /\ Grows

\* A worker goes on to another step of its own.
LEMMA Stepping ==
  ASSUME Typed, Intaken, Pipeline, NEW w \in Workers, NEW at \in {"raw", "rawInsert", "revision"},
         JobStep(w, at), NEW r \in JobState, job' = [job EXCEPT ![w] = r],
         r.at # "none", r.batch = job[w].batch, r.text = job[w].text,
         r.at = "process" => r.seen \in DOMAIN revisions[job[w].batch],
         raws' \subseteq Batches, UNCHANGED <<batch, revisions, bot, call>>
  PROVE  Sound
<1>1. Typed'
  BY DEF Typed, TypeOK, JobStep
<1>2. Quiet
  BY Quietly DEF JobStep
<1>3. Intaken' /\ Grows
  BY <1>2, QuietKept
<1>4. /\ job'[w] = r /\ \A v \in Workers : v # w => job'[v] = job[v]
  BY DEF Typed, TypeOK
<1>5. job[w].at # "none"
  BY DEF JobStep
<1>6. Asked'
  BY DEF Pipeline, Asked
<1>7. \A b \in Batches :
        /\ DOMAIN revisions[b] \subseteq DOMAIN revisions'[b]
        /\ \A n \in DOMAIN revisions'[b] :
             n \in DOMAIN revisions[b] /\ revisions'[b][n].text = revisions[b][n].text
  OBVIOUS
<1>8. batch' \in [Batches -> BatchState]
  BY DEF Typed, TypeOK
<1>9. \A v \in Workers :
        \/ job'[v] = job[v]
        \/ /\ job[v].at # "none"
           /\ job'[v].batch = job[v].batch
           /\ job'[v].text = job[v].text
           /\ job'[v].at = "process" => job'[v].seen \in DOMAIN revisions'[job[v].batch]
  BY <1>4, <1>5
<1> QED
  BY <1>1, <1>3, <1>6, <1>7, <1>8, <1>9, PipelineAdvances DEF Sound

\* A worker ends without a revision.
LEMMA Stopping ==
  ASSUME Typed, Intaken, Pipeline, NEW w \in Workers,
         NEW at \in {"rawInsert", "insert", "process"}, JobStep(w, at),
         Done(w) \/ Abort(w), raws' \subseteq Batches, UNCHANGED <<batch, revisions>>
  PROVE  Sound
<1>1. /\ call' \in [CallIds -> CallState] /\ Asked'
      /\ bot' \in BotState /\ bot' \in {bot, Idle}
      /\ job' = [job EXCEPT ![w] = NoJob]
      /\ job' \in [Workers -> JobState]
  BY Ending DEF Pipeline
<1>2. Typed'
  BY <1>1 DEF Typed, TypeOK, JobStep
<1>3. Quiet
  BY <1>1, Quietly DEF JobStep
<1>4. Intaken' /\ Grows
  BY <1>3, QuietKept
<1>5. batch' \in [Batches -> BatchState]
  BY DEF Typed, TypeOK
<1> QED
  BY <1>1, <1>2, <1>4, <1>5, PipelineReleases DEF Sound

\* What a worker knows of its batch.
LEMMA AtWork ==
  ASSUME Typed, Pipeline, NEW w \in Workers, job[w].at # "none"
  PROVE  /\ job[w] \in JobState /\ job[w].batch \in Batches
         /\ revisions[job[w].batch] \in Seq(Revision)
         /\ Latest(job[w].batch) \in Nat
         /\ DOMAIN revisions[job[w].batch] = 1..Latest(job[w].batch)
<1>1. job[w] \in JobState /\ job[w].batch \in Batches
  BY DEF Typed, TypeOK, Pipeline, Working
<1>2. revisions[job[w].batch] \in Seq(Revision)
  BY <1>1 DEF Typed
<1> QED
  BY <1>1, <1>2 DEF Latest

LEMMA SelectRawKeeps ==
  ASSUME Typed, Intaken, Pipeline, NEW w \in Workers, SelectRaw(w)
  PROVE  Sound
<1> DEFINE step == IF job[w].batch \in raws THEN "revision" ELSE "rawInsert"
           r == [job[w] EXCEPT !.at = step]
<1>1. JobStep(w, "raw") /\ job[w].at # "none"
  BY DEF SelectRaw, JobStep
<1>2. step \in {"revision", "rawInsert"}
  OBVIOUS
<1>3. r \in JobState /\ r.at = step /\ r.batch = job[w].batch /\ r.text = job[w].text
  <2> HIDE DEF step
  <2> QED
    BY <1>1, <1>2, AtWork DEF JobState
<1>4. job' = [job EXCEPT ![w] = r]
  BY DEF SelectRaw, Typed, TypeOK
<1>5. raws' \subseteq Batches /\ UNCHANGED <<batch, revisions, bot, call>>
  BY DEF SelectRaw, Typed, TypeOK
<1> HIDE DEF r, step
<1> QED
  BY <1>1, <1>2, <1>3, <1>4, <1>5, Stepping

LEMMA InsertRawKeeps ==
  ASSUME Typed, Intaken, Pipeline, NEW w \in Workers, InsertRaw(w)
  PROVE  Sound
<1>1. JobStep(w, "rawInsert") /\ job[w].at # "none" /\ UNCHANGED <<batch, revisions>>
  BY DEF InsertRaw, JobStep
<1>2. raws' \subseteq Batches
  BY <1>1, AtWork DEF InsertRaw, Typed, TypeOK
<1>3. CASE job[w].batch \in raws
  BY <1>1, <1>2, <1>3, Stopping DEF InsertRaw
<1>4. CASE job[w].batch \notin raws
  <2> DEFINE r == [job[w] EXCEPT !.at = "revision"]
  <2>1. r \in JobState /\ r.at = "revision" /\ r.batch = job[w].batch /\ r.text = job[w].text
    BY <1>1, AtWork DEF JobState
  <2>2. job' = [job EXCEPT ![w] = r] /\ UNCHANGED <<bot, call>>
    BY <1>4 DEF InsertRaw, Typed, TypeOK
  <2> HIDE DEF r
  <2> QED
    BY <1>1, <1>2, <2>1, <2>2, Stepping
<1> QED
  BY <1>3, <1>4

LEMMA SelectRevisionKeeps ==
  ASSUME Typed, Intaken, Pipeline, NEW w \in Workers, SelectRevision(w)
  PROVE  Sound
<1> DEFINE b == job[w].batch
           same == Latest(b) > 0 /\ revisions[b][Latest(b)].text = job[w].text
           step == IF same THEN "process" ELSE "insert"
           r == [job[w] EXCEPT !.seen = Latest(b), !.at = step]
<1>1. JobStep(w, "revision") /\ job[w].at # "none"
  BY DEF SelectRevision, JobStep
<1>2. step \in {"process", "insert"} /\ (step = "process" => Latest(b) > 0)
  OBVIOUS
<1>3. /\ r \in JobState /\ r.at = step /\ r.seen = Latest(b)
      /\ r.batch = job[w].batch /\ r.text = job[w].text
  <2> HIDE DEF step
  <2> QED
    BY <1>1, <1>2, AtWork DEF JobState
<1>4. job' = [job EXCEPT ![w] = r]
  <2>1. job' = [job EXCEPT ![w].seen = Latest(b), ![w].at = step]
    BY DEF SelectRevision
  <2> HIDE DEF step
  <2> QED
    BY <2>1 DEF Typed, TypeOK
<1>5. raws' \subseteq Batches /\ UNCHANGED <<batch, revisions, bot, call>>
  BY DEF SelectRevision, Typed, TypeOK
<1>6. r.at = "process" => r.seen \in DOMAIN revisions[b]
  BY <1>1, <1>2, <1>3, AtWork
<1> HIDE DEF r, step
<1> QED
  BY <1>1, <1>2, <1>3, <1>4, <1>5, <1>6, Stepping

LEMMA InsertRevisionKeeps ==
  ASSUME Typed, Intaken, Pipeline, NEW w \in Workers, InsertRevision(w)
  PROVE  Sound
<1>1. JobStep(w, "insert") /\ job[w].at # "none" /\ UNCHANGED <<batch, raws>>
  BY DEF InsertRevision, JobStep
<1>2. PICK b \in Batches : b = job[w].batch
  BY <1>1, AtWork
<1>3. CASE Abort(w) /\ UNCHANGED revisions
  BY <1>1, <1>3, Stopping DEF Typed, TypeOK
<1> DEFINE new == [text |-> job[w].text, processed |-> FALSE]
           r == [job[w] EXCEPT !.seen = Latest(b) + 1, !.at = "process"]
<1>4. CASE /\ revisions' = [revisions EXCEPT ![b] = Append(@, new)]
           /\ job' = [job EXCEPT ![w].seen = Latest(b) + 1, ![w].at = "process"]
           /\ UNCHANGED <<bot, call>>
  <2>1. /\ job[w] \in JobState /\ revisions[b] \in Seq(Revision) /\ Latest(b) \in Nat
        /\ DOMAIN revisions[b] = 1..Latest(b) /\ Latest(b) = Len(revisions[b])
    BY <1>1, <1>2, AtWork DEF Latest
  <2>2. /\ r \in JobState /\ r.at = "process" /\ r.seen = Latest(b) + 1
        /\ r.batch = b /\ r.text = job[w].text
    <3>1. PICK n \in Nat : n = Latest(b) + 1
      BY <2>1
    <3>2. r = [job[w] EXCEPT !.seen = n, !.at = "process"]
      BY <3>1
    <3> HIDE DEF r
    <3>3. job[w] \in JobState
      BY <2>1
    <3> QED
      BY <1>2, <3>1, <3>2, <3>3 DEF JobState
  <2>3. job' = [job EXCEPT ![w] = r]
    BY <1>4 DEF Typed, TypeOK
  <2>4. new \in Revision /\ new.text = job[w].text
    BY <2>1 DEF JobState, Revision
  <2> HIDE DEF r, new
  <2>5. /\ job' \in [Workers -> JobState] /\ job'[w] = r
        /\ \A v \in Workers : v # w => job'[v] = job[v]
    BY <2>2, <2>3 DEF Typed, TypeOK
  <2>6. /\ revisions' \in [Batches -> Seq(Revision)]
        /\ revisions'[b] = Append(revisions[b], new)
        /\ \A d \in Batches : d # b => revisions'[d] = revisions[d]
    BY <1>4, <2>1, <2>4 DEF Typed
  <2>7. /\ DOMAIN revisions'[b] = 1..(Latest(b) + 1)
        /\ revisions'[b][Latest(b) + 1] = new
        /\ \A n \in 1..Latest(b) : revisions'[b][n] = revisions[b][n]
    BY <2>1, <2>4, <2>6
  <2>8. \A d \in Batches : \A n \in DOMAIN revisions'[d] : revisions'[d][n] \in Revision
    <3> SUFFICES ASSUME NEW d \in Batches, NEW n \in DOMAIN revisions'[d]
                 PROVE  revisions'[d][n] \in Revision
      OBVIOUS
    <3>1. revisions'[d] \in Seq(Revision)
      BY <2>6
    <3> QED
      BY <3>1
  <2>9. Typed'
    BY <1>1, <1>4, <2>5, <2>6, <2>8 DEF Typed, TypeOK, JobStep
  <2>10. Quiet
    BY <1>1, <1>4, Quietly DEF JobStep
  <2>11. Intaken' /\ Grows
    BY <2>10, QuietKept
  <2>12. Asked'
    BY <1>4 DEF Pipeline, Asked
  <2> DEFINE Extends(d) ==
               /\ DOMAIN revisions[d] \subseteq DOMAIN revisions'[d]
               /\ \A n \in DOMAIN revisions'[d] :
                    \/ n \in DOMAIN revisions[d] /\ revisions'[d][n].text = revisions[d][n].text
                    \/ \E v \in Workers : /\ job[v].at # "none" /\ job[v].batch = d
                                          /\ revisions'[d][n].text = job[v].text
  <2>13. \A d \in Batches : Extends(d)
    <3> SUFFICES ASSUME NEW d \in Batches
                 PROVE  Extends(d)
      OBVIOUS
    <3>1. CASE d # b
      BY <2>6, <3>1
    <3>2. CASE d = b
      BY <1>1, <1>2, <2>1, <2>4, <2>7, <3>2
    <3> QED
      BY <3>1, <3>2
  <2>14. \A v \in Workers :
           \/ job'[v] = job[v]
           \/ /\ job[v].at # "none"
              /\ job'[v].batch = job[v].batch
              /\ job'[v].text = job[v].text
              /\ job'[v].at = "process" => job'[v].seen \in DOMAIN revisions'[job[v].batch]
    BY <1>1, <1>2, <2>1, <2>2, <2>5, <2>7
  <2>15. batch' \in [Batches -> BatchState]
    BY <1>1 DEF Typed, TypeOK
  <2> QED
    BY <2>9, <2>11, <2>12, <2>13, <2>14, <2>15, PipelineAdvances DEF Sound
<1> QED
  BY <1>2, <1>3, <1>4 DEF InsertRevision

LEMMA FinishKeeps ==
  ASSUME Typed, Intaken, Pipeline, NEW w \in Workers, Finish(w)
  PROVE  Sound
<1>1. JobStep(w, "process") /\ job[w].at = "process" /\ Done(w) /\ UNCHANGED raws
  BY DEF Finish, JobStep
<1>2. PICK b \in Batches, n \in Nat : b = job[w].batch /\ n = job[w].seen
  BY <1>1, AtWork DEF JobState
<1>3. /\ revisions' = [revisions EXCEPT ![b][n].processed = TRUE]
      /\ batch' = [batch EXCEPT ![b].status = "PROCESSED"]
  BY <1>2 DEF Finish
<1>4. /\ revisions[b] \in Seq(Revision) /\ n \in DOMAIN revisions[b]
  BY <1>1, <1>2, AtWork DEF Pipeline, Working
<1> DEFINE r == [revisions[b][n] EXCEPT !.processed = TRUE]
           list == [revisions[b] EXCEPT ![n] = r]
<1>5. r \in Revision /\ r.text = revisions[b][n].text
  <2>1. revisions[b][n] \in Revision
    BY <1>4
  <2>2. \A q \in Revision, yes \in BOOLEAN :
          [q EXCEPT !.processed = yes] \in Revision /\ [q EXCEPT !.processed = yes].text = q.text
    BY DEF Revision
  <2> QED
    BY <2>1, <2>2
<1> HIDE DEF r
<1>6. /\ list \in Seq(Revision) /\ DOMAIN list = DOMAIN revisions[b]
      /\ \A m \in DOMAIN list : list[m] \in Revision /\ list[m].text = revisions[b][m].text
  BY <1>4, <1>5
<1>7. revisions' = [revisions EXCEPT ![b] = list]
  BY <1>3, <1>4 DEF Typed, r
<1> HIDE DEF list
<1>8. /\ revisions' \in [Batches -> Seq(Revision)] /\ revisions'[b] = list
      /\ \A d \in Batches : d # b => revisions'[d] = revisions[d]
  BY <1>6, <1>7 DEF Typed
<1>9. \A d \in Batches :
        /\ DOMAIN revisions[d] \subseteq DOMAIN revisions'[d]
        /\ \A m \in DOMAIN revisions'[d] :
             m \in DOMAIN revisions[d] /\ revisions'[d][m].text = revisions[d][m].text
  BY <1>6, <1>8
<1>10. \A d \in Batches : \A m \in DOMAIN revisions'[d] : revisions'[d][m] \in Revision
  BY <1>6, <1>8 DEF Typed, TypeOK
<1>11. /\ batch' \in [Batches -> BatchState]
       /\ \A d \in Batches : /\ batch'[d].channel = batch[d].channel
                             /\ batch'[d].count = batch[d].count
                             /\ batch'[d].status \in {batch[d].status, "PROCESSED"}
  BY <1>3 DEF Typed, TypeOK, BatchState, Status
<1>12. /\ call' \in [CallIds -> CallState] /\ Asked'
       /\ job' = [job EXCEPT ![w] = NoJob]
       /\ job' \in [Workers -> JobState]
       /\ UNCHANGED bot
  BY <1>1, Ending DEF Pipeline, Done
<1>13. Typed'
  BY <1>1, <1>8, <1>10, <1>11, <1>12 DEF Typed, TypeOK, JobStep
<1>14. Quiet
  BY <1>1, <1>11, <1>12 DEF Quiet, JobStep
<1>15. Intaken' /\ Grows
  BY <1>14, QuietKept
<1>16. \A v \in Workers : (job'[v].at = "none" /\ job'[v].batch = 0) \/ job'[v] = job[v]
  BY <1>12, Idling DEF Typed, TypeOK
<1> QED
  BY <1>9, <1>11, <1>12, <1>13, <1>15, <1>16, PipelineAdvances DEF Sound

LEMMA WorkerKeeps ==
  ASSUME Typed, Intaken, Pipeline, NEW w \in Workers, JobSteps(w)
  PROVE  Sound
<1>1. CASE Break(w)
  BY <1>1, Stopping DEF Break, Typed, TypeOK
<1> QED
  BY <1>1, SelectRawKeeps, InsertRawKeeps, SelectRevisionKeeps, InsertRevisionKeeps,
     FinishKeeps DEF JobSteps

\* What starting a reprocessing does to the pipeline.
LEMMA Beginning ==
  ASSUME Typed, Intaken, Pipeline, NEW w \in Workers, NEW b \in Batches, Begin(w, b),
         mapped[batch[b].channel] # NoSource,
         UNCHANGED <<origin, cursor, filed, sources, mapped, raws, revisions, faults>>,
         UNCHANGED <<sent, shown, form, button>>,
         call' \in [CallIds -> CallState], Asked',
         bot' \in BotState, bot'.touched \subseteq bot.touched,
         bot'.at = bot.at, bot'.now = bot.now, bot'.last = bot.last,
         bot'.source = bot.source, bot'.batch = bot.batch
  PROVE  Sound
<1> DEFINE new == [at |-> "raw", batch |-> b, text |-> Text(b), seen |-> 0]
<1>1. new \in JobState
  BY DEF JobState, Text
<1>2. /\ job' \in [Workers -> JobState] /\ job'[w] = new
      /\ \A v \in Workers : v # w => job'[v] = job[v]
  BY <1>1 DEF Begin, Typed, TypeOK
<1>3. /\ batch' \in [Batches -> BatchState]
      /\ batch'[b].status = "REPROCESSING"
      /\ \A d \in Batches : /\ batch'[d].channel = batch[d].channel
                            /\ batch'[d].count = batch[d].count
                            /\ batch'[d].status \in {batch[d].status, "REPROCESSING"}
  BY DEF Begin, Typed, TypeOK, BatchState, Status
<1>4. /\ overlapped' \subseteq Batches /\ overlapped \subseteq overlapped'
      /\ \A v \in Workers \ {w} : job[v].batch = b => b \in overlapped'
  BY DEF Begin, Typed, TypeOK
<1>5. Typed'
  BY <1>2, <1>3, <1>4 DEF Typed, TypeOK
<1>6. Quiet
  BY <1>3, <1>4 DEF Quiet
<1>7. Intaken' /\ Grows
  BY <1>6, QuietKept
<1>8. \A d \in Batches : Text(d)' = Text(d)
  BY DEF Text
<1>9. \A d \in Batches : batch[d].channel \in Channels
  BY DEF Typed, TypeOK, BatchState
<1>10. Usable(b)' /\ \A d \in Batches : Usable(d) => Usable(d)'
  BY <1>3, <1>9 DEF Usable
<1>11. /\ new.at = "raw" /\ new.batch = b /\ new.text = Text(b)
  OBVIOUS
<1> HIDE DEF new
<1>12. Working'
  BY <1>2, <1>8, <1>10, <1>11 DEF Pipeline, Working
<1>13. Alone'
  BY <1>2, <1>4, <1>11 DEF Pipeline, Alone
<1>14. Kept'
  <2> SUFFICES ASSUME NEW d \in Batches, NEW n \in DOMAIN revisions[d]
               PROVE  /\ revisions[d][n].text \subseteq Text(d)
                      /\ \A v \in Workers :
                           job'[v].at # "none" /\ job'[v].batch = d /\ d \notin overlapped' =>
                             revisions[d][n].text \subseteq job'[v].text
    BY <1>8 DEF Kept
  <2> QED
    BY <1>2, <1>4, <1>11 DEF Pipeline, Kept
<1> QED
  BY <1>5, <1>7, <1>12, <1>13, <1>14 DEF Sound, Pipeline

LEMMA ProcessTouchedKeeps ==
  ASSUME Typed, Intaken, Pipeline, NEW b \in Batches, ProcessTouched(b)
  PROVE  Sound
<1>1. bot \in BotState /\ bot' = [bot EXCEPT !.touched = bot.touched \ {b}] /\ b \in bot.touched
  BY DEF ProcessTouched, Typed, TypeOK
<1>2. /\ bot' \in BotState /\ bot'.touched \subseteq bot.touched
      /\ bot'.at = bot.at /\ bot'.now = bot.now /\ bot'.last = bot.last
      /\ bot'.source = bot.source /\ bot'.batch = bot.batch
  BY <1>1 DEF BotState
<1>3. /\ UNCHANGED <<origin, cursor, filed, sources, mapped, raws, revisions, faults>>
      /\ UNCHANGED <<call, sent, shown, form, button>>
  BY DEF ProcessTouched, console
<1>4. call' \in [CallIds -> CallState] /\ Asked'
  BY <1>3 DEF Pipeline, Asked, Typed, TypeOK
<1>5. CASE Begin(Bot, b)
  <2>1. mapped[batch[b].channel] # NoSource /\ Bot \in Workers
    BY <1>1 DEF Intaken, Touched, Usable, Workers
  <2> QED
    BY <1>2, <1>3, <1>4, <1>5, <2>1, Beginning
<1>6. CASE UNCHANGED <<batch, job, overlapped>>
  <2>1. Typed'
    BY <1>2, <1>3, <1>6 DEF Typed, TypeOK
  <2>2. Quiet
    BY <1>2, <1>3, <1>6 DEF Quiet
  <2>3. Intaken' /\ Grows
    BY <2>2, QuietKept
  <2>4. batch' \in [Batches -> BatchState]
    BY <2>1 DEF Typed, TypeOK
  <2> QED
    BY <1>3, <1>4, <1>6, <2>1, <2>3, <2>4, PipelineRests DEF Sound
<1> QED
  BY <1>5, <1>6 DEF ProcessTouched

LEMMA ReprocessKeeps ==
  ASSUME Typed, Intaken, Pipeline, NEW i \in CallIds, Reprocess(i)
  PROVE  Sound
<1>1. i \in Workers
  BY DEF Workers
<1>2. call[i] \in CallState /\ call[i].batch \in {0} \cup Batches /\ call[i].batch # 0
  BY DEF Typed, TypeOK, CallState, Pipeline, Asked, Reprocess
<1>3. PICK b \in Batches : b = call[i].batch
  BY <1>2
<1>4. /\ UNCHANGED <<origin, cursor, filed, sources, mapped, raws, revisions, faults>>
      /\ UNCHANGED <<sent, shown, form, button>>
  BY DEF Reprocess
<1>5. bot \in BotState
  BY DEF Typed, TypeOK
<1>6. CASE mapped[batch[b].channel] = NoSource
  <2>1. /\ batch' = [batch EXCEPT ![b].status = "PENDING_MAPPING"]
        /\ Done(i) /\ UNCHANGED overlapped
    BY <1>3, <1>6 DEF Reprocess
  <2>2. /\ batch' \in [Batches -> BatchState]
        /\ \A d \in Batches : /\ batch'[d].channel = batch[d].channel
                              /\ batch'[d].count = batch[d].count
                              /\ batch'[d].status \in {batch[d].status, "PENDING_MAPPING"}
    BY <2>1 DEF Typed, TypeOK, BatchState, Status, Receiving
  <2>3. /\ call' \in [CallIds -> CallState] /\ Asked'
        /\ job' = [job EXCEPT ![i] = NoJob]
        /\ job' \in [Workers -> JobState] /\ UNCHANGED bot
    BY <1>1, <2>1, Ending DEF Pipeline, Done
  <2>4. Typed'
    BY <1>4, <2>1, <2>2, <2>3 DEF Typed, TypeOK
  <2>5. Quiet
    BY <1>4, <2>1, <2>2, <2>3 DEF Quiet
  <2>6. Intaken' /\ Grows
    BY <2>5, QuietKept
  <2> QED
    BY <1>1, <1>4, <2>2, <2>3, <2>4, <2>6, PipelineReleases DEF Sound
<1>7. CASE mapped[batch[b].channel] # NoSource
  <2>1. Begin(i, b) /\ call' = [call EXCEPT ![i].at = "run"] /\ UNCHANGED bot
    BY <1>3, <1>7 DEF Reprocess
  <2> DEFINE c == [call[i] EXCEPT !.at = "run"]
  <2>2. c \in CallState /\ c.at = "run"
    BY <1>2 DEF CallState
  <2>3. call' = [call EXCEPT ![i] = c]
    BY <2>1 DEF Typed, TypeOK
  <2> HIDE DEF c
  <2>4. call' \in [CallIds -> CallState] /\ Asked'
    BY <2>2, <2>3, CallMoves DEF Pipeline
  <2> QED
    BY <1>1, <1>4, <1>5, <1>7, <2>1, <2>4, Beginning
<1> QED
  BY <1>6, <1>7

-----------------------------------------------------------------------------
\* A step of a page or of a request that reaches no table.
LEMMA ConsoleStep ==
  ASSUME Typed, Intaken, Pipeline, UNCHANGED <<origin, tables, bot, job, overlapped>>,
         call' \in [CallIds -> CallState], Asked',
         sent' \in 0..MaxEvents, faults' \in 0..MaxEvents,
         shown' \in [Pages -> PageData],
         form' \in [Pages -> [Channels -> FormState]],
         button' \in [Pages -> [Batches -> BOOLEAN]]
  PROVE  Sound
<1>1. Typed'
  BY DEF Typed, TypeOK, tables
<1>2. Quiet
  BY Quietly DEF tables
<1>3. Intaken' /\ Grows
  BY <1>2, QuietKept
<1>4. batch' \in [Batches -> BatchState]
  BY <1>1 DEF Typed, TypeOK
<1> QED
  BY <1>1, <1>3, <1>4, PipelineRests DEF Sound, tables

LEMMA MapKeeps ==
  ASSUME Typed, Intaken, Pipeline, NEW i \in CallIds, Map(i)
  PROVE  Sound
<1> DEFINE c == call[i].channel
           Candidates == IF mapped[c] # NoSource THEN {mapped[c]}
                         ELSE {s \in sources : s.channel = c}
<1>1. call[i] \in CallState /\ c \in Channels
  BY DEF Typed, TypeOK, CallState
<1>2. PICK s \in IF Candidates = {} THEN {NoSource} ELSE Candidates :
        call' = [call EXCEPT ![i] =
          IF s # NoSource /\ s.supplier # call[i].supplier
          THEN [call[i] EXCEPT !.at = "answered", !.ok = FALSE]
          ELSE [call[i] EXCEPT !.at = "insert", !.source = s]]
  BY DEF Map, Typed, TypeOK
<1>3. s \in Sources \cup {NoSource}
  BY <1>1, <1>2 DEF Typed, TypeOK
<1>4. \A ok \in BOOLEAN : [call[i] EXCEPT !.at = "answered", !.ok = ok] \in CallState
                         /\ [call[i] EXCEPT !.at = "answered", !.ok = ok].at = "answered"
  BY <1>1 DEF CallState
<1>5. /\ [call[i] EXCEPT !.at = "insert", !.source = s] \in CallState
      /\ [call[i] EXCEPT !.at = "insert", !.source = s].at = "insert"
  BY <1>1, <1>3 DEF CallState
<1>6. PICK r \in CallState : r.at # "sent" /\ call' = [call EXCEPT ![i] = r]
  BY <1>2, <1>4, <1>5
<1>7. call' \in [CallIds -> CallState] /\ Asked'
  BY <1>6, CallMoves DEF Pipeline
<1> QED
  BY <1>7, ConsoleStep DEF Map, Typed, TypeOK

LEMMA CommitMappingKeeps ==
  ASSUME Typed, Intaken, Pipeline, NEW i \in CallIds, CommitMapping(i)
  PROVE  Sound
<1> DEFINE row == IF call[i].source # NoSource THEN call[i].source
                  ELSE [channel |-> call[i].channel, supplier |-> call[i].supplier, made |-> i]
<1>1. call[i] \in CallState
  BY DEF Typed, TypeOK
<1>2. row \in Sources
  <2>1. [channel |-> call[i].channel, supplier |-> call[i].supplier, made |-> i] \in Sources
    BY <1>1 DEF CallState, Sources
  <2>2. call[i].source \in Sources \cup {NoSource}
    BY <1>1 DEF CallState
  <2> QED
    BY <2>1, <2>2
<1>3. PICK c \in Channels : c = call[i].channel
  BY <1>1 DEF CallState
<1>4. sources' = sources \cup {row} /\ mapped' = [mapped EXCEPT ![c] = row]
  BY <1>3 DEF CommitMapping
<1>5. row # NoSource
  BY <1>2, PriceBotAssumption
<1> HIDE DEF row
<1>6. /\ sources' \subseteq Sources
      /\ mapped' \in [Channels -> sources' \cup {NoSource}]
      /\ \A d \in Channels : mapped[d] # NoSource => mapped'[d] # NoSource
  BY <1>2, <1>4, <1>5 DEF Typed, TypeOK
<1>7. call' \in [CallIds -> CallState] /\ Asked'
  BY Answering DEF CommitMapping, Pipeline
<1>8. Typed'
  BY <1>6, <1>7 DEF CommitMapping, Typed, TypeOK
<1>9. Quiet
  BY <1>6, Quietly DEF CommitMapping
<1>10. Intaken' /\ Grows
  BY <1>9, QuietKept
<1>11. batch' \in [Batches -> BatchState] /\ UNCHANGED <<job, revisions>>
  BY DEF CommitMapping, Typed, TypeOK
<1> QED
  BY <1>7, <1>8, <1>10, <1>11, PipelineRests DEF Sound

LEMMA Posting ==
  ASSUME Typed, Pipeline, NEW op \in {"map", "reprocess", "row"}, NEW p \in Pages,
         NEW c \in Channels, NEW s \in Suppliers, NEW b \in {0} \cup Batches,
         op # "map" => b # 0, Post(op, p, c, s, b)
  PROVE  /\ call' \in [CallIds -> CallState] /\ Asked'
         /\ sent' \in 0..MaxEvents /\ faults' \in 0..MaxEvents
         /\ shown' \in [Pages -> PageData]
         /\ UNCHANGED <<origin, tables, bot, job, overlapped>>
<1> DEFINE r == [op |-> op, page |-> p, channel |-> c, supplier |-> s, batch |-> b,
                 at |-> "sent", source |-> NoSource, ok |-> FALSE, open |-> TRUE]
<1>1. r \in CallState /\ r.op = op /\ r.batch = b
  BY DEF CallState
<1>2. sent + 1 \in CallIds /\ sent' = sent + 1 /\ sent' \in 0..MaxEvents
  BY PriceBotAssumption DEF Post, Typed, TypeOK, CallIds
<1>3. call' = [call EXCEPT ![sent + 1] = r]
  BY DEF Post
<1> HIDE DEF r
<1>4. call' \in [CallIds -> CallState] /\ Asked'
  BY <1>1, <1>2, <1>3, CallMoves DEF Pipeline
<1> QED
  BY <1>2, <1>4 DEF Post, Typed, TypeOK

LEMMA RenderedTypes == Rendered \in PageData
BY DEF Rendered, PageData

\* A form is set to a state of its own.
LEMMA FormMoves ==
  ASSUME Typed, NEW p \in Pages, NEW c \in Channels, NEW f \in FormState,
         form' = [form EXCEPT ![p][c] = f]
  PROVE  form' \in [Pages -> [Channels -> FormState]]
BY DEF Typed, TypeOK

LEMMA FormBusy ==
  ASSUME Typed, NEW p \in Pages, NEW c \in Channels,
         form' = [form EXCEPT ![p][c].busy = TRUE]
  PROVE  form' \in [Pages -> [Channels -> FormState]]
<1>1. PICK yes \in BOOLEAN : yes = TRUE
  OBVIOUS
<1>2. form[p][c] \in FormState
  BY DEF Typed, TypeOK
<1>3. [form[p][c] EXCEPT !.busy = yes] \in FormState
  BY <1>2 DEF FormState
<1>4. form' = [form EXCEPT ![p][c] = [form[p][c] EXCEPT !.busy = yes]]
  BY <1>1 DEF Typed, TypeOK
<1> QED
  BY <1>3, <1>4, FormMoves

LEMMA OperatorKeeps ==
  ASSUME Typed, Intaken, Pipeline, NEW p \in Pages, Operator(p)
  PROVE  Sound
<1>1. ASSUME NEW c \in Channels, NEW s \in Suppliers, ClickMap(p, c, s)
      PROVE  Sound
  <2>1. form' \in [Pages -> [Channels -> FormState]]
    BY <1>1, FormBusy DEF ClickMap
  <2>2. Post("map", p, c, s, 0) /\ UNCHANGED button
    BY <1>1 DEF ClickMap
  <2>3. button' \in [Pages -> [Batches -> BOOLEAN]]
    BY <2>2 DEF Typed, TypeOK
  <2> QED
    BY <2>1, <2>2, <2>3, Posting, ConsoleStep
<1>2. ASSUME NEW b \in Batches, ClickReprocess(p, b)
      PROVE  Sound
  <2>1. PICK c \in Channels : c = batch[b].channel
    BY DEF Typed, TypeOK, BatchState
  <2>2. form' \in [Pages -> [Channels -> FormState]]
    BY <1>2, <2>1, FormBusy DEF ClickReprocess
  <2>3. PICK s \in Suppliers : Post("reprocess", p, c, s, b)
    BY <1>2, <2>1 DEF ClickReprocess
  <2>4. button' \in [Pages -> [Batches -> BOOLEAN]]
    BY <1>2 DEF ClickReprocess, Typed, TypeOK
  <2> QED
    BY <2>2, <2>3, <2>4, Posting, ConsoleStep, Apart
<1>3. ASSUME NEW b \in Batches, ClickRow(p, b)
      PROVE  Sound
  <2>1. PICK c \in Channels : c = batch[b].channel
    BY DEF Typed, TypeOK, BatchState
  <2>2. button' \in [Pages -> [Batches -> BOOLEAN]]
    BY <1>3 DEF ClickRow, Typed, TypeOK
  <2>3. PICK s \in Suppliers : Post("row", p, c, s, b)
    BY <1>3, <2>1 DEF ClickRow
  <2>4. form' \in [Pages -> [Channels -> FormState]]
    BY <1>3 DEF ClickRow, Typed, TypeOK
  <2> QED
    BY <2>2, <2>3, <2>4, Posting, ConsoleStep, Apart
<1>4. CASE Load(p)
  <2>1. form' \in [Pages -> [Channels -> FormState]]
    BY <1>4 DEF Load, Typed, TypeOK, FormState
  <2>2. button' \in [Pages -> [Batches -> BOOLEAN]]
    BY <1>4 DEF Load, Typed, TypeOK
  <2>3. shown' \in [Pages -> PageData]
    BY <1>4, RenderedTypes DEF Load, Typed, TypeOK
  <2>4. UNCHANGED <<origin, tables, bot, job, overlapped>> /\ UNCHANGED <<call, sent, faults>>
    BY <1>4 DEF Load
  <2> QED
    BY <2>1, <2>2, <2>3, <2>4, ConsoleStep DEF Typed, TypeOK, Pipeline, Asked
<1> QED
  BY <1>1, <1>2, <1>3, <1>4 DEF Operator

LEMMA RefreshKeeps ==
  ASSUME Typed, Intaken, Pipeline, NEW p \in Pages, Refresh(p)
  PROVE  Sound
<1>1. shown' \in [Pages -> PageData]
  BY RenderedTypes DEF Refresh, Typed, TypeOK
<1>2. UNCHANGED <<origin, tables, bot, job, overlapped>> /\ UNCHANGED <<call, sent, faults, form, button>>
  BY DEF Refresh
<1> QED
  BY <1>1, <1>2, ConsoleStep DEF Typed, TypeOK, Pipeline, Asked

LEMMA Settling ==
  ASSUME Typed, NEW i \in CallIds, NEW ok \in BOOLEAN, Settle(i, ok)
  PROVE  /\ shown' \in [Pages -> PageData]
         /\ form' \in [Pages -> [Channels -> FormState]]
         /\ button' \in [Pages -> [Batches -> BOOLEAN]]
<1>1. PICK p \in Pages, c \in Channels : p = call[i].page /\ c = call[i].channel
  BY DEF Typed, TypeOK, CallState
<1>2. shown' \in [Pages -> PageData]
  <2>1. PICK yes \in BOOLEAN : yes = (shown[p].stale \/ ok)
    BY Zenon
  <2>2. shown[p] \in PageData /\ shown \in [Pages -> PageData]
    BY DEF Typed, TypeOK
  <2>3. [shown[p] EXCEPT !.stale = yes] \in PageData
    BY <2>2 DEF PageData
  <2>4. shown' = [shown EXCEPT ![p] = [shown[p] EXCEPT !.stale = yes]]
    BY <1>1, <2>1, <2>2 DEF Settle
  <2> QED
    BY <2>2, <2>3, <2>4
<1>3. button' \in [Pages -> [Batches -> BOOLEAN]]
  <2>1. button \in [Pages -> [Batches -> BOOLEAN]]
    BY DEF Typed, TypeOK
  <2>2. PICK no \in BOOLEAN : no = FALSE
    OBVIOUS
  <2>3. button' = button \/ button' = [button EXCEPT ![p][call[i].batch] = no]
    BY <1>1, <2>2 DEF Settle
  <2> QED
    BY <2>1, <2>3
<1>4. form' \in [Pages -> [Channels -> FormState]]
  <2>1. PICK yes \in BOOLEAN, no \in BOOLEAN :
          yes = (form[p][c].mapped \/ (ok /\ call[i].op = "map")) /\ no = FALSE
    BY Zenon
  <2>2. form' = form \/ form' = [form EXCEPT ![p][c] = [mapped |-> yes, busy |-> no]]
    BY <1>1, <2>1 DEF Settle, Typed, TypeOK
  <2>3. [mapped |-> yes, busy |-> no] \in FormState
    BY DEF FormState
  <2> QED
    BY <2>2, <2>3, FormMoves DEF Typed, TypeOK
<1> QED
  BY <1>2, <1>3, <1>4

LEMMA ReceiveKeeps ==
  ASSUME Typed, Intaken, Pipeline, NEW i \in CallIds, Receive(i)
  PROVE  Sound
<1>1. call' \in [CallIds -> CallState] /\ Asked'
  BY Idling, CallMoves DEF Receive, Pipeline
<1>2. /\ shown' \in [Pages -> PageData]
      /\ form' \in [Pages -> [Channels -> FormState]]
      /\ button' \in [Pages -> [Batches -> BOOLEAN]]
  <2>1. call[i].ok \in BOOLEAN
    BY DEF Typed, TypeOK, CallState
  <2>2. CASE UNCHANGED <<form, button, shown>>
    BY <2>2 DEF Typed, TypeOK
  <2> QED
    BY <2>1, <2>2, Settling DEF Receive
<1> QED
  BY <1>1, <1>2, ConsoleStep DEF Receive, Typed, TypeOK

LEMMA LoseKeeps ==
  ASSUME Typed, Intaken, Pipeline, NEW i \in CallIds, Lose(i)
  PROVE  Sound
<1> DEFINE c == [call[i] EXCEPT !.open = FALSE]
<1>1. call[i] \in CallState /\ call \in [CallIds -> CallState]
  BY DEF Typed, TypeOK
<1>2. c \in CallState /\ c.at = call[i].at /\ c.op = call[i].op /\ c.batch = call[i].batch
  BY <1>1 DEF CallState
<1>3. call' = [call EXCEPT ![i] = c]
  BY <1>1 DEF Lose
<1> HIDE DEF c
<1>4. call' \in [CallIds -> CallState] /\ Asked'
  BY <1>2, <1>3, CallMoves DEF Pipeline, Asked
<1>5. faults' \in 0..MaxEvents
  BY PriceBotAssumption DEF Lose, Fault, Typed, TypeOK
<1> QED
  BY <1>4, <1>5, Settling, ConsoleStep DEF Lose, Typed, TypeOK

LEMMA FailKeeps ==
  ASSUME Typed, Intaken, Pipeline, NEW i \in CallIds, Fail(i)
  PROVE  Sound
<1>1. i \in Workers /\ Abort(i)
  BY DEF Workers, Fail
<1>2. /\ call' \in [CallIds -> CallState] /\ Asked'
      /\ bot' \in BotState /\ bot' \in {bot, Idle}
      /\ job' = [job EXCEPT ![i] = NoJob]
      /\ job' \in [Workers -> JobState]
  BY <1>1, Ending DEF Pipeline
<1>3. faults' \in 0..MaxEvents
  BY PriceBotAssumption DEF Fail, Fault, Typed, TypeOK
<1>4. Typed'
  BY <1>2, <1>3 DEF Fail, Typed, TypeOK, tables
<1>5. Quiet
  BY <1>2, Quietly DEF Fail, tables
<1>6. Intaken' /\ Grows
  BY <1>5, QuietKept
<1>7. batch' \in [Batches -> BatchState] /\ UNCHANGED revisions
  BY DEF Fail, Typed, TypeOK, tables
<1> QED
  BY <1>1, <1>2, <1>4, <1>6, <1>7, PipelineReleases DEF Sound

LEMMA CrashKeeps ==
  ASSUME Typed, Intaken, Pipeline, Crash
  PROVE  Sound
<1>1. Bot \in Workers
  BY DEF Workers
<1>2. bot' = Idle /\ job' = [job EXCEPT ![Bot] = NoJob]
  BY DEF Crash
<1>3. job' \in [Workers -> JobState]
  BY <1>1, <1>2, Idling DEF Typed, TypeOK
<1>4. faults' \in 0..MaxEvents
  BY PriceBotAssumption DEF Crash, Fault, Typed, TypeOK
<1>5. Typed' /\ Asked'
  BY <1>2, <1>3, <1>4, Idling DEF Crash, Typed, TypeOK, tables, console, Pipeline, Asked
<1>6. Quiet
  BY <1>2, Quietly DEF Crash, tables
<1>7. Intaken' /\ Grows
  BY <1>6, QuietKept
<1>8. batch' \in [Batches -> BatchState] /\ UNCHANGED revisions
  BY DEF Crash, Typed, TypeOK, tables
<1> QED
  BY <1>1, <1>2, <1>5, <1>7, <1>8, PipelineReleases DEF Sound

\* The bot's filing leaves the pipeline alone.
LEMMA FilingKeeps ==
  ASSUME Typed, Intaken, Pipeline,
         \/ \E last \in Updates : GetUpdates(last)
         \/ SkipDuplicate \/ FileRefused \/ UpsertSource \/ FindBatch \/ SaveMessage
         \/ Acknowledge
  PROVE  Sound
<1>1. Typed' /\ Intaken' /\ Grows
  BY GetUpdatesKeeps, SkipDuplicateKeeps, FileRefusedKeeps, UpsertSourceKeeps,
     FindBatchKeeps, SaveMessageKeeps, AcknowledgeKeeps
<1>2. UNCHANGED <<job, revisions, call>>
  BY DEF GetUpdates, SkipDuplicate, FileRefused, UpsertSource, FindBatch, SaveMessage,
         Acknowledge, tables, console
<1>3. Asked' /\ batch' \in [Batches -> BatchState]
  BY <1>1, <1>2 DEF Pipeline, Asked, Typed, TypeOK
<1> QED
  BY <1>1, <1>2, <1>3, PipelineRests DEF Sound

LEMMA StutterKeeps ==
  ASSUME Typed, Intaken, Pipeline, UNCHANGED vars
  PROVE  Sound
BY ConsoleStep DEF vars, console, Typed, TypeOK, Pipeline, Asked

LEMMA StepKeeps == Typed /\ Intaken /\ Pipeline /\ [Next]_vars => Sound
<1> SUFFICES ASSUME Typed, Intaken, Pipeline, [Next]_vars
             PROVE  Sound
  OBVIOUS
<1>1. CASE Poll
  <2>1. CASE JobSteps(Bot)
    BY <2>1, WorkerKeeps DEF Workers
  <2> QED
    BY <1>1, <2>1, FilingKeeps, ProcessTouchedKeeps DEF Poll
<1>2. ASSUME NEW i \in CallIds, Handler(i)
      PROVE  Sound
  <2>1. i \in Workers
    BY DEF Workers
  <2> QED
    BY <1>2, <2>1, ReprocessKeeps, WorkerKeeps, MapKeeps, CommitMappingKeeps DEF Handler
<1> QED
  BY <1>1, <1>2, ReceiveKeeps, FailKeeps, LoseKeeps, OperatorKeeps, RefreshKeeps,
     CrashKeeps, StutterKeeps DEF Next

LEMMA InitSound == Init => IInv
<1> SUFFICES ASSUME Init PROVE IInv
  OBVIOUS
<1>1. PICK c0 \in Channels : c0 = CHOOSE c \in Channels : TRUE
  BY PriceBotAssumption
<1>2. /\ batch \in [Batches -> BatchState]
      /\ \A b \in Batches : batch[b].status = "NONE" /\ batch[b].count = 0
  BY <1>1, PriceBotAssumption DEF Init, BatchState, Status
<1>3. /\ origin \in [Updates -> Channels \cup {Refused}]
      /\ cursor = 0 /\ sent = 0 /\ faults = 0 /\ raws = {} /\ overlapped = {}
      /\ filed = [u \in Updates |-> Unseen]
      /\ mapped = [c \in Channels |-> NoSource]
      /\ revisions = [b \in Batches |-> <<>>]
      /\ bot = Idle
      /\ job = [w \in Workers |-> NoJob]
      /\ call = [i \in CallIds |-> NoCall]
  BY DEF Init
<1>4. sources \subseteq Sources
  BY DEF Init
<1>5. shown \in [Pages -> PageData]
  BY RenderedTypes DEF Init
<1>6. /\ form \in [Pages -> [Channels -> FormState]]
      /\ button \in [Pages -> [Batches -> BOOLEAN]]
  <2>1. PICK no \in BOOLEAN : no = FALSE
    OBVIOUS
  <2>2. /\ form = [p \in Pages |-> [c \in Channels |-> [mapped |-> no, busy |-> no]]]
        /\ button = [p \in Pages |-> [b \in Batches |-> no]]
    BY <2>1 DEF Init
  <2>3. [mapped |-> no, busy |-> no] \in FormState
    BY DEF FormState
  <2> QED
    BY <2>2, <2>3
<1>7. /\ revisions \in [Batches -> Seq(Revision)]
      /\ \A b \in Batches : DOMAIN revisions[b] = {}
  BY <1>3
<1>8. Typed
  BY <1>2, <1>3, <1>4, <1>5, <1>6, <1>7, Idling, PriceBotAssumption DEF Typed, TypeOK
<1>9. \A b \in Batches : Text(b) = {}
  BY <1>3, <1>8, Apart DEF Text
<1>10. Filing /\ CountedOnce
  <2>1. \A u \in Updates : u > 0 /\ filed[u] = Unseen
    BY <1>3, PriceBotAssumption DEF Updates
  <2>2. Filing
    BY <1>3, <1>8, <2>1, Apart DEF Filing, Updates
  <2> QED
    BY <1>2, <1>9, <2>2, FS_EmptySet DEF CountedOnce
<1>11. Polling /\ Saving /\ Touched
  BY <1>3, Idling DEF Polling, Saving, Touched
<1>12. Pipeline
  BY <1>3, <1>7, Idling DEF Pipeline, Asked, Working, Alone, Kept
<1> QED
  BY <1>8, <1>10, <1>11, <1>12 DEF IInv, Intaken

LEMMA Invariance == Spec => []IInv
<1>1. IInv /\ [Next]_vars => IInv'
  BY StepKeeps DEF IInv, Sound
<1> QED
  BY InitSound, <1>1, PTL DEF Spec

-----------------------------------------------------------------------------
\* Every variable of the bot and its console keeps its type, whatever is polled
\* again after a crash: no count passes the number of updates.
THEOREM PriceBotTypes == Spec => []TypeOK
<1>1. IInv => TypeOK
  BY DEF IInv, Typed
<1> QED
  BY Invariance, <1>1, PTL

\* A message is counted in its batch once.
THEOREM MessagesCountedOnce == Spec => []CountedOnce
<1>1. IInv => CountedOnce
  BY DEF IInv, Intaken
<1> QED
  BY Invariance, <1>1, PTL

\* The only step that adds a revision holds at least what the last one holds.
LEMMA RevisionStep ==
  ASSUME Typed, Pipeline, NEW w \in Workers, InsertRevision(w),
         NEW b \in Batches \ overlapped', Latest(b) > 0
  PROVE  revisions[b][Latest(b)].text \subseteq revisions'[b][Len(revisions'[b])].text
<1>1. /\ job[w].at = "insert" /\ overlapped' = overlapped
  BY DEF InsertRevision, JobStep
<1>2. PICK d \in Batches : d = job[w].batch
  BY <1>1, AtWork
<1>3. /\ revisions[b] \in Seq(Revision) /\ Latest(b) \in DOMAIN revisions[b]
      /\ Latest(b) = Len(revisions[b])
  BY DEF Typed, Latest
<1>4. CASE b # d \/ UNCHANGED revisions
  <2>1. revisions'[b] = revisions[b]
    BY <1>2, <1>4 DEF InsertRevision, Typed
  <2> QED
    BY <1>3, <2>1
<1> DEFINE new == [text |-> job[w].text, processed |-> FALSE]
<1>5. CASE b = d /\ revisions' = [revisions EXCEPT ![d] = Append(@, new)]
  <2>1. new \in Revision
    BY <1>1, <1>2, AtWork DEF JobState, Revision
  <2>2. new.text = job[w].text
    OBVIOUS
  <2> HIDE DEF new
  <2>3. revisions'[b] = Append(revisions[b], new)
    BY <1>5 DEF Typed
  <2>4. revisions'[b][Len(revisions'[b])] = new
    BY <1>3, <2>1, <2>3
  <2>5. revisions[b][Latest(b)].text \subseteq job[w].text
    BY <1>1, <1>2, <1>3, <1>5 DEF Pipeline, Kept
  <2> QED
    BY <2>2, <2>4, <2>5
<1> QED
  BY <1>2, <1>4, <1>5 DEF InsertRevision

\* Nothing a revision holds is dropped from the next one, unless two workers were
\* at the batch at a time.
THEOREM RevisionsOnlyGrow == Spec => RevisionsGrow
<1> DEFINE Growing ==
      \A b \in Batches \ overlapped' :
        Latest(b) > 0 =>
          revisions[b][Latest(b)].text \subseteq revisions'[b][Len(revisions'[b])].text
<1>1. IInv /\ [Next]_vars => Growing
  <2> SUFFICES ASSUME IInv, [Next]_vars PROVE Growing
    OBVIOUS
  <2>1. Typed /\ Pipeline
    BY DEF IInv
  <2>2. CASE \E w \in Workers : InsertRevision(w)
    BY <2>1, <2>2, RevisionStep
  <2>3. CASE UNCHANGED revisions
    BY <2>3 DEF Latest
  <2>4. CASE \E w \in Workers : Finish(w)
    <3>1. PICK w \in Workers : Finish(w)
      BY <2>4
    <3>2. job[w].at = "process"
      BY <3>1 DEF Finish, JobStep
    <3>3. PICK d \in Batches, n \in Nat : d = job[w].batch /\ n = job[w].seen
      BY <2>1, <3>2, AtWork DEF JobState
    <3>4. revisions' = [revisions EXCEPT ![d][n].processed = TRUE]
      BY <3>1, <3>3 DEF Finish
    <3>5. revisions[d] \in Seq(Revision) /\ revisions[d][n] \in Revision
      BY <2>1, <3>2, <3>3, AtWork DEF Pipeline, Working
    <3>6. \A q \in Revision : [q EXCEPT !.processed = TRUE].text = q.text
      BY DEF Revision
    <3>7. \A b \in Batches : /\ Len(revisions'[b]) = Len(revisions[b])
                            /\ \A m \in DOMAIN revisions[b] :
                                 revisions'[b][m].text = revisions[b][m].text
      BY <2>1, <3>4, <3>5, <3>6 DEF Typed
    <3>8. \A b \in Batches : Latest(b) > 0 => Latest(b) \in DOMAIN revisions[b]
      BY <2>1 DEF Typed, Latest
    <3> QED
      BY <3>7, <3>8 DEF Latest
  <2>5. ASSUME NEW w \in Workers, JobSteps(w) PROVE Growing
    <3>1. CASE UNCHANGED revisions
      BY <2>3, <3>1
    <3> QED
      BY <2>2, <2>4, <2>5, <3>1 DEF JobSteps, SelectRaw, InsertRaw, SelectRevision, Break
  <2>6. CASE Poll
    <3>1. CASE JobSteps(Bot)
      BY <2>5, <3>1 DEF Workers
    <3> QED
      BY <2>3, <2>6, <3>1 DEF Poll, GetUpdates, SkipDuplicate, FileRefused, UpsertSource,
         FindBatch, SaveMessage, ProcessTouched, Acknowledge, tables
  <2>7. ASSUME NEW i \in CallIds, Handler(i) PROVE Growing
    <3>1. CASE JobSteps(i)
      BY <2>5, <3>1 DEF Workers
    <3> QED
      BY <2>3, <2>7, <3>1 DEF Handler, Reprocess, Map, CommitMapping, tables
  <2>8. CASE \/ \E i \in CallIds : Receive(i) \/ Fail(i) \/ Lose(i)
             \/ \E p \in Pages : Operator(p) \/ Refresh(p)
             \/ Crash \/ UNCHANGED vars
    BY <2>3, <2>8 DEF Receive, Fail, Lose, Operator, ClickMap, ClickReprocess, ClickRow,
       Post, Load, Refresh, Crash, vars, tables
  <2> HIDE DEF Growing
  <2> QED
    BY <2>6, <2>7, <2>8 DEF Next
<1>2. Growing <=> (\A b \in Batches \ overlapped' :
        Latest(b) > 0 =>
          revisions[b][Latest(b)].text \subseteq revisions'[b][Len(revisions'[b])].text)
  OBVIOUS
<1> HIDE DEF Growing
<1> QED
  BY <1>1, <1>2, Invariance, PTL DEF Spec, RevisionsGrow

-----------------------------------------------------------------------------
(***************************************************************************)
(* The refinement: filing an update is File, moving the offset is          *)
(* Acknowledge, a mapping is Bind, a new revision is Read.                 *)
(***************************************************************************)
Filed == {u \in Updates : filed[u] # Unseen}
Bound == {c \in Channels : mapped[c] # NoSource}

intake == <<origin, cursor, Filed, Bound, ReadUpdates>>

IntakeStep == [Intake!Next]_intake

\* What one step of the bot or of a handler is in the eyes of PriceIntake.
LEMMA FileStep ==
  ASSUME NEW u \in Updates, filed[u] = Unseen, filed' \in [Updates -> Batches \cup {Unseen, Refused}],
         filed'[u] # Unseen, \A v \in Updates : v # u => filed'[v] = filed[v],
         UNCHANGED <<origin, cursor, mapped, revisions>>
  PROVE  IntakeStep
<1>1. Filed' = Filed \cup {u} /\ u \notin Filed
  BY DEF Filed
<1>2. UNCHANGED <<Bound, ReadUpdates>>
  BY DEF Bound, ReadUpdates
<1>3. Intake!File(u)
  BY <1>1, <1>2 DEF Intake!File, Filed, Bound
<1> QED
  BY <1>3 DEF IntakeStep, Intake!Next

LEMMA BindStep ==
  ASSUME NEW c \in Channels, \A d \in Channels : d # c => mapped'[d] = mapped[d],
         mapped[c] # NoSource => mapped'[c] # NoSource,
         UNCHANGED <<origin, cursor, filed, revisions>>
  PROVE  IntakeStep
<1>1. Bound' = Bound \cup {c} \/ Bound' = Bound
  BY DEF Bound
<1>2. UNCHANGED <<Filed, ReadUpdates>>
  BY DEF Filed, ReadUpdates
<1>3. CASE Bound' = Bound \cup {c}
  BY <1>2, <1>3 DEF IntakeStep, Intake!Next, Intake!Bind, Filed, Bound
<1>4. CASE Bound' = Bound
  BY <1>2, <1>4 DEF IntakeStep, intake
<1> QED
  BY <1>1, <1>3, <1>4

LEMMA AcknowledgeStep ==
  ASSUME Typed, Intaken, Acknowledge
  PROVE  IntakeStep
<1>1. /\ UNCHANGED <<origin, filed, mapped, revisions>> /\ cursor' = bot.last
      /\ bot.at = "process"
  BY DEF Acknowledge
<1>2. PICK n \in Updates : n = bot.last /\ n > cursor
  BY <1>1, PriceBotAssumption DEF Intaken, Polling, Typed, TypeOK, BotState, Updates
<1>3. \A u \in Updates : u <= n => filed[u] # Unseen
  BY <1>1, <1>2, PriceBotAssumption DEF Intaken, Polling, Typed, TypeOK, BotState, Updates
<1>4. UNCHANGED <<Filed, Bound, ReadUpdates>>
  BY <1>1 DEF Filed, Bound, ReadUpdates
<1>5. Intake!Acknowledge(n)
  BY <1>1, <1>2, <1>3, <1>4 DEF Intake!Acknowledge, Filed, Bound
<1> QED
  BY <1>5 DEF IntakeStep, Intake!Next

LEMMA ReadStep ==
  ASSUME Typed, Pipeline, Intaken, NEW w \in Workers, InsertRevision(w)
  PROVE  IntakeStep
<1>1. /\ job[w].at = "insert" /\ UNCHANGED <<origin, cursor, filed, mapped>>
  BY DEF InsertRevision, JobStep
<1>2. PICK b \in Batches : b = job[w].batch
  BY <1>1, AtWork
<1>3. UNCHANGED <<Filed, Bound>>
  BY <1>1 DEF Filed, Bound
<1>4. CASE UNCHANGED revisions
  BY <1>1, <1>3, <1>4 DEF IntakeStep, intake, ReadUpdates
<1> DEFINE new == [text |-> job[w].text, processed |-> FALSE]
<1>5. CASE revisions' = [revisions EXCEPT ![b] = Append(@, new)]
  <2>1. /\ revisions[b] \in Seq(Revision) /\ new \in Revision /\ new.text = job[w].text
    BY <1>1, <1>2, AtWork DEF JobState, Revision
  <2> HIDE DEF new
  <2>2. /\ revisions'[b] = Append(revisions[b], new)
        /\ \A d \in Batches : d # b => revisions'[d] = revisions[d]
    BY <1>5 DEF Typed
  <2>3. /\ DOMAIN revisions'[b] = DOMAIN revisions[b] \cup {Len(revisions[b]) + 1}
        /\ revisions'[b][Len(revisions[b]) + 1] = new
        /\ \A n \in DOMAIN revisions[b] : revisions'[b][n] = revisions[b][n]
    BY <2>1, <2>2
  <2>4. job[w].text \subseteq Text(b)
    BY <1>1, <1>2 DEF Pipeline, Working
  <2>5. ReadUpdates' = ReadUpdates \cup job[w].text
    <3>1. \A u \in Updates :
            (\E n \in DOMAIN revisions'[b] : u \in revisions'[b][n].text)
              <=> ((\E n \in DOMAIN revisions[b] : u \in revisions[b][n].text)
                   \/ u \in job[w].text)
      BY <2>1, <2>3
    <3>2. \A u \in Updates : u \in ReadUpdates' <=> u \in ReadUpdates \/ u \in job[w].text
      BY <2>2, <3>1 DEF ReadUpdates
    <3> QED
      BY <2>4, <3>2 DEF ReadUpdates, Text
  <2>6. /\ job[w].text \in SUBSET Updates
        /\ \A u \in job[w].text : filed[u] = b
    BY <2>4 DEF Text
  <2>7. job[w].text \subseteq Filed
    BY <2>6, PriceBotAssumption DEF Filed
  <2>8. \A u \in job[w].text : origin[u] \in Bound
    <3>1. \A u \in job[w].text : origin[u] \in Channels /\ batch[b].channel = origin[u]
      BY <2>6 DEF Intaken, Filing
    <3>2. mapped[batch[b].channel] # NoSource
      BY <1>1, <1>2 DEF Pipeline, Working, Usable
    <3> QED
      BY <3>1, <3>2 DEF Bound
  <2>9. Intake!Read(job[w].text)
    BY <1>1, <1>3, <2>5, <2>7, <2>8 DEF Intake!Read, Filed, Bound
  <2> QED
    BY <2>6, <2>9 DEF IntakeStep, Intake!Next
<1> QED
  BY <1>2, <1>4, <1>5 DEF InsertRevision

\* Giving a revision its verdict changes no text.
LEMMA VerdictStep ==
  ASSUME Typed, Pipeline, NEW w \in Workers, Finish(w)
  PROVE  IntakeStep
<1>1. /\ job[w].at = "process" /\ UNCHANGED <<origin, cursor, filed, mapped>>
  BY DEF Finish, JobStep
<1>2. PICK d \in Batches, n \in Nat : d = job[w].batch /\ n = job[w].seen
  BY <1>1, AtWork DEF JobState
<1>3. revisions' = [revisions EXCEPT ![d][n].processed = TRUE]
  BY <1>2 DEF Finish
<1>4. revisions[d] \in Seq(Revision) /\ revisions[d][n] \in Revision
  BY <1>1, <1>2, AtWork DEF Pipeline, Working
<1>5. \A q \in Revision : [q EXCEPT !.processed = TRUE].text = q.text
  BY DEF Revision
<1>6. \A b \in Batches : /\ DOMAIN revisions'[b] = DOMAIN revisions[b]
                        /\ \A m \in DOMAIN revisions[b] :
                             revisions'[b][m].text = revisions[b][m].text
  BY <1>3, <1>4, <1>5 DEF Typed
<1>7. ReadUpdates' = ReadUpdates
  BY <1>6 DEF ReadUpdates
<1> QED
  BY <1>1, <1>7 DEF IntakeStep, intake, Filed, Bound

\* Whatever leaves these tables alone is a stutter.
LEMMA SilentStep ==
  ASSUME UNCHANGED <<origin, cursor, filed, mapped, revisions>>
  PROVE  IntakeStep
BY DEF IntakeStep, intake, Filed, Bound, ReadUpdates

LEMMA PollStep ==
  ASSUME Typed, Intaken, Pipeline, FileRefused \/ UpsertSource \/ SaveMessage
  PROVE  IntakeStep
<1>1. PICK u \in Updates : u = bot.now
  BY InHand DEF FileRefused, UpsertSource, SaveMessage
<1>2. CASE FileRefused
  <2>1. filed' = [filed EXCEPT ![u] = Refused] /\ filed[u] = Unseen
    BY <1>1, <1>2 DEF FileRefused
  <2>2. UNCHANGED <<origin, cursor, mapped, revisions>>
    BY <1>2 DEF FileRefused
  <2>3. /\ filed' \in [Updates -> Batches \cup {Unseen, Refused}]
        /\ filed'[u] # Unseen /\ \A v \in Updates : v # u => filed'[v] = filed[v]
    BY <2>1, PriceBotAssumption DEF Typed, TypeOK
  <2> QED
    BY <2>1, <2>2, <2>3, FileStep
<1>3. CASE SaveMessage
  <2>1. /\ filed' = [filed EXCEPT ![u] = bot.batch] /\ filed[u] = Unseen
        /\ bot.batch \in Batches
    BY <1>1, <1>3 DEF SaveMessage, Intaken, Saving
  <2>2. UNCHANGED <<origin, cursor, mapped, revisions>>
    BY <1>3 DEF SaveMessage
  <2>3. /\ filed' \in [Updates -> Batches \cup {Unseen, Refused}]
        /\ filed'[u] # Unseen /\ \A v \in Updates : v # u => filed'[v] = filed[v]
    BY <2>1, PriceBotAssumption DEF Typed, TypeOK
  <2> QED
    BY <2>1, <2>2, <2>3, FileStep
<1>4. CASE UpsertSource
  <2>1. PICK c \in Channels : c = origin[u]
    BY <1>1, <1>4 DEF UpsertSource, Typed, TypeOK
  <2>2. PICK s \in Adoptable(c) : mapped' = [mapped EXCEPT ![c] = s]
    BY <1>1, <1>4, <2>1 DEF UpsertSource
  <2>3. /\ \A d \in Channels : d # c => mapped'[d] = mapped[d]
        /\ mapped[c] # NoSource => mapped'[c] # NoSource
    BY <2>1, <2>2 DEF Adoptable, Typed, TypeOK
  <2>4. UNCHANGED <<origin, cursor, filed, revisions>>
    BY <1>4 DEF UpsertSource
  <2> QED
    BY <2>1, <2>3, <2>4, BindStep
<1> QED
  BY <1>2, <1>3, <1>4

LEMMA MappingStep ==
  ASSUME Typed, NEW i \in CallIds, CommitMapping(i)
  PROVE  IntakeStep
<1>1. call[i] \in CallState
  BY DEF Typed, TypeOK
<1>2. PICK c \in Channels : c = call[i].channel
  BY <1>1 DEF CallState
<1> DEFINE row == IF call[i].source # NoSource THEN call[i].source
                  ELSE [channel |-> call[i].channel, supplier |-> call[i].supplier, made |-> i]
<1>3. mapped' = [mapped EXCEPT ![c] = row]
  BY <1>2 DEF CommitMapping
<1>4. row # NoSource
  <2>1. [channel |-> call[i].channel, supplier |-> call[i].supplier, made |-> i] \in Sources
    BY <1>1 DEF CallState, Sources
  <2> QED
    BY <2>1, PriceBotAssumption
<1> HIDE DEF row
<1>5. /\ \A d \in Channels : d # c => mapped'[d] = mapped[d]
      /\ mapped'[c] # NoSource
  BY <1>3, <1>4 DEF Typed, TypeOK
<1> QED
  BY <1>5, BindStep DEF CommitMapping

LEMMA EveryStep == IInv /\ [Next]_vars => IntakeStep
<1> SUFFICES ASSUME Typed, Intaken, Pipeline, [Next]_vars
             PROVE  IntakeStep
  BY DEF IInv
<1>1. ASSUME NEW w \in Workers, JobSteps(w) PROVE IntakeStep
  <2>1. CASE SelectRaw(w) \/ InsertRaw(w) \/ SelectRevision(w) \/ Break(w)
    BY <2>1, SilentStep DEF SelectRaw, InsertRaw, SelectRevision, Break, JobStep
  <2> QED
    BY <1>1, <2>1, ReadStep, VerdictStep DEF JobSteps
<1>2. CASE Poll
  <2>1. CASE JobSteps(Bot)
    BY <1>1, <2>1 DEF Workers
  <2>2. CASE \/ \E last \in Updates : GetUpdates(last)
             \/ SkipDuplicate \/ FindBatch \/ \E b \in Batches : ProcessTouched(b)
    BY <2>2, SilentStep DEF GetUpdates, SkipDuplicate, FindBatch, ProcessTouched, tables
  <2> QED
    BY <1>2, <2>1, <2>2, PollStep, AcknowledgeStep DEF Poll
<1>3. ASSUME NEW i \in CallIds, Handler(i) PROVE IntakeStep
  <2>1. CASE JobSteps(i)
    BY <1>1, <2>1 DEF Workers
  <2>2. CASE Reprocess(i) \/ Map(i)
    BY <2>2, SilentStep DEF Reprocess, Map, tables
  <2> QED
    BY <1>3, <2>1, <2>2, MappingStep DEF Handler
<1>4. CASE \/ \E i \in CallIds : Receive(i) \/ Fail(i) \/ Lose(i)
           \/ \E p \in Pages : Operator(p) \/ Refresh(p)
           \/ Crash \/ UNCHANGED vars
  BY <1>4, SilentStep DEF Receive, Fail, Lose, Operator, ClickMap, ClickReprocess, ClickRow,
     Post, Load, Refresh, Crash, vars, tables
<1> QED
  BY <1>2, <1>3, <1>4 DEF Next

\* The bot, its operators and whatever dies between two commits implement
\* PriceIntake: filed before it is acknowledged, read only when filed and mapped.
THEOREM IntakeImplemented == Spec => IntakeKept
<1>1. Init => Intake!Init
  <2> SUFFICES ASSUME Init PROVE Intake!Init
    OBVIOUS
  <2>1. cursor = 0 /\ \A u \in Updates : filed[u] = Unseen
    BY DEF Init
  <2>2. /\ \A c \in Channels : mapped[c] = NoSource
        /\ \A b \in Batches : DOMAIN revisions[b] = {}
    BY DEF Init
  <2> QED
    BY <2>1, <2>2 DEF Intake!Init, ReadUpdates
<1>2. IntakeStep => [Intake!Next]_Intake!vars
  BY DEF IntakeStep, intake, Filed, Bound, Intake!vars
<1> QED
  BY <1>1, <1>2, EveryStep, Invariance, PTL DEF Spec, IntakeKept, Intake!Spec
=============================================================================
