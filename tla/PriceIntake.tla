---------------------------- MODULE PriceIntake -----------------------------
(***************************************************************************)
(* What the Telegram price bot promises about the updates sent to it: an   *)
(* update is acknowledged only when it is filed for good, it is filed      *)
(* once, and only the filed updates of a channel bound to a supplier reach *)
(* the supplier pipeline.                                                  *)
(***************************************************************************)
EXTENDS Naturals

CONSTANTS
  Updates,    \* update ids, 1..n
  Channels

VARIABLES
  home,     \* [Updates -> a channel, or not one: an update no channel sent]
  acked,    \* every update up to this one is acknowledged to Telegram
  filed,    \* updates kept for good
  bound,    \* channels bound to a supplier
  read      \* updates whose text has reached the pipeline

vars == <<home, acked, filed, bound, read>>

Init ==
  /\ acked = 0
  /\ filed = {}
  /\ bound = {}
  /\ read = {}

File(u) ==
  /\ u \notin filed
  /\ filed' = filed \cup {u}
  /\ UNCHANGED <<home, acked, bound, read>>

Acknowledge(n) ==
  /\ n > acked
  /\ \A u \in Updates : u <= n => u \in filed
  /\ acked' = n
  /\ UNCHANGED <<home, filed, bound, read>>

Bind(c) ==
  /\ bound' = bound \cup {c}
  /\ UNCHANGED <<home, acked, filed, read>>

Read(S) ==
  /\ S \subseteq filed
  /\ \A u \in S : home[u] \in bound
  /\ read' = read \cup S
  /\ UNCHANGED <<home, acked, filed, bound>>

Next ==
  \/ \E u \in Updates : File(u) \/ Acknowledge(u)
  \/ \E c \in Channels : Bind(c)
  \/ \E S \in SUBSET Updates : Read(S)

Spec == Init /\ [][Next]_vars
=============================================================================
