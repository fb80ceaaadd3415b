------------------------------- MODULE Controller -------------------------------
(***************************************************************************)
(* CpuConcurrencyController (src/src/cpu_concurrency.rs) on the dynamic    *)
(* limit it drives.  Each observe() smooths a sample of the CPU load, then *)
(* lowers the ceiling if the load is at the target, or raises it if the    *)
(* load has been below it for a while and the ceiling is in use.  Requests *)
(* come, end and are cancelled between any two of its atomic operations.   *)
(*                                                                         *)
(* Loads are fixed-point numbers, multiples of 1/MaxLoad, and fractions are *)
(* multiples of 1/Whole.  External: the loop that calls observe().         *)
(***************************************************************************)
EXTENDS ConcurrencyLimit

CONSTANTS
  Controller,                     \* the thread that calls observe()
  MaxLoad, Target,                \* Config::cpu_target
  Samples,                        \* what observe() may be called with, clamped
  Whole,
  Smoothing,                      \* Config::smoothing, clamped
  Decrease, Increase, Distance,   \* Config's fractions of the ceiling
  Refractory,                     \* Config::refractory
  MinLimit, MaxLimit

ASSUME ControlAssumption ==
  /\ Controller \in Setters
  /\ MaxLoad \in Nat /\ Target \in 0..MaxLoad
  /\ Samples \subseteq 0..MaxLoad
  /\ Whole \in Nat \ {0} /\ Smoothing \in 0..Whole
  /\ Decrease \in 0..Whole /\ Increase \in 0..Whole /\ Distance \in 0..Whole
  /\ Refractory \in Nat
  /\ MinLimit \in Nat /\ MaxLimit \in Nat /\ MinLimit <= MaxLimit
  /\ MinLimit..MaxLimit \subseteq Limits

VARIABLES
  sample,       \* the argument of the last observe()
  load,         \* its smoothed value
  calm_cycles,  \* capped at Refractory, which is all it is compared with
  seen,         \* what limit.get() returned to the observe() under way
  stage         \* where that one stands: the set() it goes for, if any

controlVars == <<sample, load, calm_cycles, seen, stage>>
controllerVars == <<vars, controlVars>>

ControllerInit ==
  /\ Init
  /\ sample = 0 /\ load = 0 /\ calm_cycles = Refractory
  /\ seen = 0 /\ stage = "idle"
-----------------------------------------------------------------------------
(* load += alpha * (x - load).  What the type of the load cannot hold is    *)
(* lost: with a factor below 1 a sample is approached and never reached.    *)
Smoothed(x) ==
  IF x >= load THEN load + (Smoothing * (x - load)) \div Whole
               ELSE load - (Smoothing * (load - x)) \div Whole

\* by how much step() moves a ceiling n, at least by a unit
Delta(n, fraction) ==
  LET part == (n * (IF fraction < 0 THEN -fraction ELSE fraction)) \div Whole
  IN  IF part = 0 THEN 1 ELSE part

\* slip: the floor is forgotten
MovedNoFloor(n, fraction) ==
  LET moved == IF fraction < 0 THEN n - Delta(n, fraction) ELSE n + Delta(n, fraction)
  IN  IF moved > MaxLimit THEN MaxLimit ELSE moved

\* slip: a small part of a small ceiling is nothing
MovedByNothing(n, fraction) ==
  LET part == (n * (IF fraction < 0 THEN -fraction ELSE fraction)) \div Whole
      moved == IF fraction < 0 THEN n - part ELSE n + part
  IN  CASE moved < MinLimit -> MinLimit
        [] moved > MaxLimit -> MaxLimit
        [] OTHER -> moved

(* step(): the next ceiling.  Only a fraction below zero moves it down; no  *)
(* decrease at all is -0.0, which is not, and moves it up.                  *)
Moved(n, fraction) ==
  LET moved == IF fraction < 0 THEN n - Delta(n, fraction) ELSE n + Delta(n, fraction)
  IN  CASE moved < MinLimit -> MinLimit
        [] moved > MaxLimit -> MaxLimit
        [] OTHER -> moved

\* limit.saturating_sub(available())
Usage(n) == IF permits < n THEN n - permits ELSE 0

\* slips: the share that may be free is the share that must be used; or
\* nothing in use is never enough
SaturatedByDistance(n) == Usage(n) * Whole >= Distance * n
SaturatedUnlessEmpty(n) == Usage(n) > 0 /\ Usage(n) * Whole >= (Whole - Distance) * n

Saturated(n) == Usage(n) * Whole >= (Whole - Distance) * n
-----------------------------------------------------------------------------
(* observe(), one step for each atomic operation on the limit.              *)

\* the load is smoothed and the ceiling read
Observe ==
  /\ stage = "idle"
  /\ todo[Controller] = 0 /\ Controller \notin Midway
  /\ sample' \in Samples
  /\ load' = Smoothed(sample')
  /\ seen' = limit
  /\ IF load' >= Target
     THEN stage' = "lower" /\ calm_cycles' = 0
     ELSE stage' = "calm" /\ UNCHANGED calm_cycles
  /\ UNCHANGED vars

\* available() is read: is the ceiling in use?
ReadAvailable ==
  /\ stage = "calm"
  /\ stage' = IF calm_cycles >= Refractory /\ Saturated(seen) THEN "raise" ELSE "idle"
  /\ calm_cycles' = IF calm_cycles < Refractory THEN calm_cycles + 1 ELSE Refractory
  /\ UNCHANGED <<vars, sample, load, seen>>

\* limit.set(n); nothing happens if that is the ceiling
SetTo(n) ==
  /\ \/ SwapLimit(Controller, n)
     \/ n = limit /\ UNCHANGED vars
  /\ stage' = "idle"
  /\ UNCHANGED <<sample, load, calm_cycles, seen>>

Lower == stage = "lower" /\ SetTo(Moved(seen, -Decrease))

Raise == stage = "raise" /\ SetTo(Moved(seen, Increase))
-----------------------------------------------------------------------------
(* Everybody else: requests, other callers of set(), and the rest of the    *)
(* controller's own set().                                                  *)
LimitStep ==
  /\ \/ \E s \in Services : ServiceStep(s)
     \/ \E c \in Calls : DropCall(c)
     \/ \E t \in Setters \ {Controller} : SetterStep(t)
     \/ MoveUnit(Controller)
     \/ \E a \in Actors : Complete(a)
  /\ UNCHANGED controlVars

ControllerNext == Observe \/ ReadAvailable \/ Lower \/ Raise \/ LimitStep

ControllerSpec == ControllerInit /\ [][ControllerNext]_controllerVars
-----------------------------------------------------------------------------
(* Correctness.                                                             *)

ControllerTypeOK ==
  /\ TypeOK
  /\ sample \in Samples \cup {0} /\ load \in 0..MaxLoad
  /\ calm_cycles \in 0..Refractory
  /\ seen \in Limits \cup {0}
  /\ stage \in {"idle", "calm", "lower", "raise"}

(* What the controller takes for use of the ceiling is use: it goes for a   *)
(* higher ceiling only when the required share of the present one is taken  *)
(* or just being given back, never because of what its own earlier set()    *)
(* booked or because requests come and go while it looks.  Holds as long as *)
(* nobody else calls set().                                                 *)
RaisesOnlyInUse ==
  [][stage' = "raise" /\ stage # "raise" =>
       (Cardinality(Taken) + Cardinality(adding)) * Whole >= (Whole - Distance) * limit
    ]_controllerVars
-----------------------------------------------------------------------------
(* Liveness.  Besides what the limit needs, observe() runs again and again. *)

ControllerFairness ==
  /\ \A s \in Services : /\ WF_controllerVars(s \in granted /\ PollReady(s) /\ UNCHANGED controlVars)
                         /\ WF_controllerVars(/\ DropReserved(s) \/ \E c \in Calls : Call(s, c)
                                              /\ UNCHANGED controlVars)
  /\ \A c \in Calls : WF_controllerVars(DropCall(c) /\ UNCHANGED controlVars)
  /\ \A t \in Setters : WF_controllerVars(MoveUnit(t) /\ UNCHANGED controlVars)
  /\ \A a \in Actors : WF_controllerVars(Complete(a) /\ UNCHANGED controlVars)
  /\ WF_controllerVars(Observe \/ ReadAvailable \/ Lower \/ Raise)

FairControllerSpec == ControllerSpec /\ ControllerFairness

(* An overload that lasts, with samples above the target and not merely at  *)
(* it, which the load need never reach, brings not only the ceiling but the *)
(* requests in progress down to the minimum, for good: the debt is repaid,  *)
(* that of permits abandoned before included.  Not if services are dropped  *)
(* again and again between being handed a permit and polling for it: such a *)
(* permit comes back past the debt.                                         *)
OverloadIsRelieved ==
  /\ <>[](sample > Target)
  /\ <>[][\A s \in granted : ~DropWaiting(s)]_vars
  => <>[](limit = MinLimit /\ Cardinality(Taken) <= MinLimit)

(* A ceiling of zero, where nothing can be in use, is left again once the   *)
(* load stays low.                                                          *)
ZeroIsLeft == <>[](sample < Target) /\ MaxLimit > 0 => <>[](limit > 0)
=============================================================================
