------------------------------ MODULE SerialLimit ------------------------------
(***************************************************************************)
(* ConcurrencyLimit on one thread, the way a current-thread runtime and    *)
(* the tests of src/src/limit.rs drive it: an operation that has begun is  *)
(* finished before anybody else moves.                                     *)
(***************************************************************************)
EXTENDS ConcurrencyLimit

\* who stands in the middle of a set(), an acquire() or a release()
Busy == Midway \cup {t \in Setters : todo[t] # 0}

Resume == \E a \in Busy : Complete(a) \/ (a \in Setters /\ MoveUnit(a))

SerialNext == IF Busy = {} THEN Next ELSE Resume

\* a service that was handed a permit polls for it before it may be dropped
Prompt == \A s \in granted : ~DropWaiting(s)

PromptSpec == Init /\ [][SerialNext /\ Prompt]_vars

Ideal == INSTANCE IdealLimit WITH holders <- Taken

(* On one thread, and as long as no service is dropped with a permit it has *)
(* been handed but has not polled for, the limiter is the ideal one: it     *)
(* admits only below the ceiling in force, debt or no debt.                 *)
ImplementsIdeal == Ideal!Spec

(* What makes it so: nobody else acts while somebody is busy, so a permit   *)
(* and a debt are never left side by side.                                  *)
SerialInv ==
  /\ \A a, b \in Busy : a = b
  /\ adding # {} => debt = 0
  /\ owing # {} => permits = 0
  /\ permits > 0 => debt = 0
  /\ \A t \in Setters : /\ t \in adding => todo[t] >= 0
                        /\ t \in owing => todo[t] <= 0
=============================================================================
