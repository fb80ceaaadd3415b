------------------------------ MODULE IdealMeter ------------------------------
(***************************************************************************)
(* What the tenant meter measures (src/src/tenant.rs): every instant the   *)
(* inner service is blocked counts once, as it passes, for the requests    *)
(* then present if there are any, and for nobody otherwise.  Nothing is    *)
(* flushed here, and nothing is banked.                                    *)
(***************************************************************************)
EXTENDS Naturals

CONSTANTS Requests, MaxTime

VARIABLES clock, blocked, present, measured, spare

vars == <<clock, blocked, present, measured, spare>>

Init ==
  /\ clock = 0 /\ blocked = FALSE /\ present = {}
  /\ measured = 0 /\ spare = 0

Elapse ==
  /\ clock < MaxTime
  /\ clock' = clock + 1
  /\ measured' = IF blocked /\ present # {} THEN measured + 1 ELSE measured
  /\ spare' = IF blocked /\ present = {} THEN spare + 1 ELSE spare
  /\ UNCHANGED <<blocked, present>>

Turn ==
  /\ blocked' = ~ blocked
  /\ UNCHANGED <<clock, present, measured, spare>>

Come(r) ==
  /\ r \notin present /\ present' = present \cup {r}
  /\ UNCHANGED <<clock, blocked, measured, spare>>

Leave(r) ==
  /\ r \in present /\ present' = present \ {r}
  /\ UNCHANGED <<clock, blocked, measured, spare>>

Next == Elapse \/ Turn \/ \E r \in Requests : Come(r) \/ Leave(r)

Spec == Init /\ [][Next]_vars
=============================================================================
