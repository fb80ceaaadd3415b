------------------------------- MODULE SerialGate -------------------------------
(***************************************************************************)
(* CpuGate with one debt operation at a time, the way the tests of         *)
(* src/src/tokio.rs drive it: the hooks and the requests never race.       *)
(***************************************************************************)
EXTENDS CpuGate

SerialNext == IF Midway = {} THEN Next ELSE \E a \in Actors : Complete(a)

\* a service that was handed a permit polls for it before it may be dropped
Prompt == \A s \in granted : ~DropWaiting(s)

PromptSpec == Init /\ [][SerialNext /\ Prompt]_vars

\* idle workers beyond the reserve, and as many more as it lacks if negative
Spare == Cardinality(parked) - Reserve

Ideal == INSTANCE IdealLimit WITH
  limit <- Spare,
  Limits <- -Reserve..Cardinality(Workers),
  Calls <- Calls,
  holders <- Taken

(* Without races the gate is a concurrency limit whose ceiling is the       *)
(* number of idle workers less the reserve: it never admits a request when  *)
(* those admitted and not yet polled already claim every spare worker.      *)
ImplementsIdeal == Ideal!Spec

(* What makes it so, as in SerialLimit: no permit is left beside a debt.    *)
SerialInv ==
  /\ \A a, b \in Midway : a = b
  /\ adding # {} => debt = 0
  /\ owing # {} => permits = 0
  /\ permits > 0 => debt = 0
=============================================================================
