------------------------------ MODULE IdealLimit ------------------------------
(***************************************************************************)
(* What the dynamic concurrency limit promises, with no semaphore and no   *)
(* debt: a holder is admitted only while fewer than limit holders exist,   *)
(* the ceiling may move at any time, and moving it evicts nobody.          *)
(***************************************************************************)
EXTENDS Integers, FiniteSets

CONSTANTS Services, Calls, Limits

VARIABLES limit, holders

Init == limit \in Limits /\ holders = {}

Set(n) == limit' = n /\ UNCHANGED holders

Admit(s) ==
  /\ s \notin holders
  /\ Cardinality(holders) < limit
  /\ holders' = holders \cup {s}
  /\ UNCHANGED limit

\* the slot moves from the service to the response future
Pass(s, c) ==
  /\ s \in holders /\ c \notin holders
  /\ holders' = (holders \ {s}) \cup {c}
  /\ UNCHANGED limit

Leave(h) ==
  /\ h \in holders
  /\ holders' = holders \ {h}
  /\ UNCHANGED limit

Next ==
  \/ \E n \in Limits : Set(n)
  \/ \E s \in Services : Admit(s) \/ \E c \in Calls : Pass(s, c)
  \/ \E h \in Services \cup Calls : Leave(h)

Spec == Init /\ [][Next]_<<limit, holders>>
=============================================================================
