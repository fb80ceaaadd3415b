---------------------------- MODULE DebtSemaphore ----------------------------
(***************************************************************************)
(* DebtSemaphore (src/src/debt.rs): a semaphore whose capacity can be      *)
(* lowered below what is in use.  Units that cannot be taken back at once  *)
(* are booked as debt, and later releases repay the debt before they make  *)
(* a permit available.                                                     *)
(*                                                                         *)
(* acquire() and release() each touch two atomics, the semaphore and the   *)
(* debt, with no lock around the pair.  The sets owing and adding hold the *)
(* actors that stand between the two.                                      *)
(***************************************************************************)
EXTENDS TokioSemaphore

VARIABLES
  debt,    \* units still to be taken back
  owing,   \* in acquire(): found no permit to forget, debt not raised yet
  adding   \* in release(): found no debt to repay, permit not added yet

debtVars == <<permits, queue, granted, debt, owing, adding>>

Midway == owing \cup adding

DebtInit(free, owed) ==
  /\ SemInit(free)
  /\ debt = owed
  /\ owing = {} /\ adding = {}

\* acquire(), first half
Acquire(a) ==
  \/ ForgetPermit /\ UNCHANGED <<debt, owing, adding>>
  \/ /\ permits = 0
     /\ owing' = owing \cup {a}
     /\ UNCHANGED <<permits, queue, granted, debt, adding>>

\* acquire(), second half: debt.fetch_add(1)
Owe(a) ==
  /\ a \in owing
  /\ owing' = owing \ {a}
  /\ debt' = debt + 1
  /\ UNCHANGED <<permits, queue, granted, adding>>

\* Slips of release() that the properties must catch: the debt lowered
\* before it is looked at, never looked at, or the unit lost without debt.
ReleaseUnchecked(a) ==
  /\ debt' = debt - 1
  /\ adding' = IF debt > 0 THEN adding ELSE adding \cup {a}
  /\ UNCHANGED <<permits, queue, granted, owing>>

ReleaseIgnoresDebt(a) ==
  /\ adding' = adding \cup {a}
  /\ UNCHANGED <<permits, queue, granted, debt, owing>>

ReleaseLosesUnit(a) ==
  /\ debt' = IF debt > 0 THEN debt - 1 ELSE 0
  /\ UNCHANGED <<permits, queue, granted, owing, adding>>

\* release(), first half: try_update of the debt
Release(a) ==
  \/ /\ debt > 0
     /\ debt' = debt - 1
     /\ UNCHANGED <<permits, queue, granted, owing, adding>>
  \/ /\ debt = 0
     /\ adding' = adding \cup {a}
     /\ UNCHANGED <<permits, queue, granted, debt, owing>>

\* release(), second half: semaphore.add_permits(1)
Add(a) ==
  /\ a \in adding
  /\ adding' = adding \ {a}
  /\ AddPermit
  /\ UNCHANGED <<debt, owing>>
=============================================================================
