-------------------------------- MODULE CpuGate --------------------------------
(***************************************************************************)
(* CPU backpressure (src/src/backpressure.rs) on an instrumented tokio     *)
(* runtime (src/src/tokio.rs).  The runtime's park hook releases a unit of *)
(* a DebtSemaphore for every worker thread that goes idle and its unpark   *)
(* hook takes it back; the semaphore starts with the reserve as debt, so   *)
(* permits are the idle workers less the reserve.  A request is admitted   *)
(* with a permit and keeps it until its response future is polled for the  *)
(* first time: by then a worker has woken up for it.                       *)
(*                                                                         *)
(* External: that tokio pairs every park hook with a later unpark hook of  *)
(* the same worker, and starts its workers unparked.                       *)
(***************************************************************************)
EXTENDS DebtSemaphore

CONSTANTS
  Workers,   \* the runtime's worker threads: num_cpus of them
  Services,  \* CpuBackpressureService values
  Calls,     \* response futures
  Reserve    \* (num_cpus * buffer_pct) as usize: workers never admitted for

ASSUME GateAssumption ==
  /\ IsFiniteSet(Workers) /\ IsFiniteSet(Services) /\ IsFiniteSet(Calls)
  /\ Services \cap Calls = {}
  /\ Workers \cap (Services \cup Calls) = {}
  /\ Reserve \in Nat

VARIABLES
  parked,    \* workers between their park hook and their unpark hook
  reserved,  \* services whose permit field is Some(Admission)
  admitted   \* response futures that still hold their Admission

vars == <<debtVars, parked, reserved, admitted>>

Actors == Workers \cup Services \cup Calls

\* slip: one worker too many is reserved, so that no worker is ever spare
InitReservesAll ==
  /\ DebtInit(0, Cardinality(Workers))
  /\ parked = {} /\ reserved = {} /\ admitted = {}

\* build(): in_debt(reserved), and the workers start out running
Init ==
  /\ DebtInit(0, Reserve)
  /\ parked = {} /\ reserved = {} /\ admitted = {}
-----------------------------------------------------------------------------
\* the hooks of the runtime
Park(w) ==
  /\ w \notin parked \cup Midway
  /\ parked' = parked \cup {w}
  /\ Release(w)
  /\ UNCHANGED <<reserved, admitted>>

Unpark(w) ==
  /\ w \in parked \ Midway
  /\ parked' = parked \ {w}
  /\ Acquire(w)
  /\ UNCHANGED <<reserved, admitted>>

PollReady(s) ==
  /\ s \notin reserved \cup adding
  /\ \/ Acquired(s) /\ reserved' = reserved \cup {s}
     \/ Enqueued(s) /\ UNCHANGED reserved
  /\ UNCHANGED <<debt, owing, adding, parked, admitted>>

Call(s, c) ==
  /\ s \in reserved
  /\ c \notin admitted \cup adding
  /\ reserved' = reserved \ {s}
  /\ admitted' = admitted \cup {c}
  /\ UNCHANGED <<debtVars, parked>>

\* slip: the response future keeps its Admission when it is first polled
FirstPollKeeps(c) ==
  /\ c \in admitted
  /\ Release(c)
  /\ UNCHANGED <<parked, reserved, admitted>>

(* The first poll of the response future takes the Admission out of it,     *)
(* ready or not; a future dropped before that drops its Admission too.      *)
FirstPollOrDrop(c) ==
  /\ c \in admitted
  /\ admitted' = admitted \ {c}
  /\ Release(c)
  /\ UNCHANGED <<parked, reserved>>

DropReserved(s) ==
  /\ s \in reserved
  /\ reserved' = reserved \ {s}
  /\ Release(s)
  /\ UNCHANGED <<parked, admitted>>

DropWaiting(s) ==
  /\ Abandoned(s)
  /\ UNCHANGED <<debt, owing, adding, parked, reserved, admitted>>

\* the second half of whichever DebtSemaphore operation actor a is in
Complete(a) ==
  /\ Owe(a) \/ Add(a)
  /\ UNCHANGED <<parked, reserved, admitted>>
-----------------------------------------------------------------------------
WorkerStep(w) == Park(w) \/ Unpark(w)

ServiceStep(s) ==
  \/ PollReady(s)
  \/ DropReserved(s) \/ DropWaiting(s)
  \/ \E c \in Calls : Call(s, c)

Next ==
  \/ \E w \in Workers : WorkerStep(w)
  \/ \E s \in Services : ServiceStep(s)
  \/ \E c \in Calls : FirstPollOrDrop(c)
  \/ \E a \in Actors : Complete(a)

Spec == Init /\ [][Next]_vars
-----------------------------------------------------------------------------
(* Correctness.                                                             *)

\* every unit somebody was admitted with, or has been handed
Taken == granted \cup reserved \cup admitted

TypeOK ==
  /\ permits \in Nat /\ debt \in Nat
  /\ queue \in Seq(Services)
  /\ granted \subseteq Services /\ reserved \subseteq Services
  /\ admitted \subseteq Calls
  /\ parked \subseteq Workers
  /\ owing \subseteq Workers /\ adding \subseteq Actors

(* Parking workers and finishing requests share one debt, from any threads: *)
(* what is free, taken or about to be freed, and the reserve, are the idle  *)
(* workers plus what is owed or about to be owed.                           *)
GateConservation ==
  permits + Cardinality(Taken) + Cardinality(adding) + Reserve
    = Cardinality(parked) + debt + Cardinality(owing)

(* The reserve is kept whatever races: what is on offer, claimed or about   *)
(* to be offered never exceeds the workers there are less the reserve, even *)
(* while hooks and releases pass each other between permits and debt.       *)
ClaimsWithinSpare ==
  Reserve <= Cardinality(Workers) =>
    permits + Cardinality(Taken) + Cardinality(adding)
      <= Cardinality(Workers) - Reserve

(* No race leaves a trace: a machine at rest offers exactly its workers     *)
(* less the reserve and the claims not yet used (tokio.rs:117), no debt.    *)
RestOffersSpare ==
  Reserve <= Cardinality(Workers) /\ parked = Workers /\ Midway = {} =>
    debt = 0 /\ permits + Cardinality(Taken) = Cardinality(Workers) - Reserve

(* Why: all that is owed is owed for workers that are running.              *)
OwedByRunning ==
  /\ owing \cap parked = {}
  /\ Reserve <= Cardinality(Workers) =>
       debt + Cardinality(owing) <= Cardinality(Workers \ parked)

(* As in ConcurrencyLimit: a service waits at most once, and nobody is in   *)
(* two places.                                                              *)
Exclusive ==
  /\ IsInjective(queue)
  /\ granted \cap (Waiting \cup reserved \cup adding) = {}
  /\ Waiting \cap (reserved \cup adding) = {}
  /\ adding \cap (reserved \cup admitted \cup owing) = {}

(* The inductive invariant the proof of GateConservation rests on.          *)
IInv == TypeOK /\ Exclusive /\ NoIdlePermit /\ GateConservation
-----------------------------------------------------------------------------
(* Liveness.  Workers may stay busy for as long as there is work; a task    *)
(* that was woken is polled, reserved admissions are used or dropped, and   *)
(* hooks run to their end.                                                  *)

Fairness ==
  /\ \A s \in Services : /\ WF_vars(s \in granted /\ PollReady(s))
                         /\ WF_vars(DropReserved(s) \/ \E c \in Calls : Call(s, c))
  /\ \A c \in Calls : WF_vars(FirstPollOrDrop(c))
  /\ \A a \in Actors : WF_vars(Complete(a))

FairSpec == Spec /\ Fairness

(* The gate opens again: as long as the machine is idle now and then, no    *)
(* service waits at it for ever, whatever debt the busy periods left.       *)
IdleGateAdmits ==
  []<>(parked = Workers) =>
    \A s \in Services : s \in Waiting ~> s \notin Waiting
=============================================================================
