--------------------------- MODULE ConcurrencyLimit ---------------------------
(***************************************************************************)
(* The dynamic concurrency limit (src/src/limit.rs): a tower service that  *)
(* admits a request only with a slot, under a ceiling that ConcurrencyLimit*)
(* handles move at run time, from any thread and while requests run.       *)
(*                                                                         *)
(* set() swaps the ceiling and then moves the difference one unit at a     *)
(* time through release() or acquire(); a Slot gives its unit back with    *)
(* release() when the service or the response future that holds it drops.  *)
(***************************************************************************)
EXTENDS DebtSemaphore

CONSTANTS
  Services,    \* DynamicConcurrencyLimitService values, each with its PollSemaphore
  Calls,       \* response futures
  Setters,     \* threads that call ConcurrencyLimit::set
  Limits,      \* the ceilings they set, the initial one included
  MaxPermits   \* tokio's Semaphore::MAX_PERMITS

ASSUME LimitAssumption ==
  /\ IsFiniteSet(Services) /\ IsFiniteSet(Calls) /\ IsFiniteSet(Setters)
  /\ Services \cap Calls = {}
  /\ Setters \cap (Services \cup Calls) = {}
  /\ MaxPermits \in Nat
  /\ Limits \subseteq 0..MaxPermits

VARIABLES
  limit,      \* State::limit
  todo,       \* units each setter still has to release (> 0) or acquire (< 0)
  reserved,   \* services whose permit field is Some(Slot)
  inflight    \* response futures that hold a Slot

vars == <<debtVars, limit, todo, reserved, inflight>>

Actors == Services \cup Calls \cup Setters

Init ==
  /\ limit \in Limits
  /\ DebtInit(limit, 0)
  /\ todo = [t \in Setters |-> 0]
  /\ reserved = {} /\ inflight = {}
-----------------------------------------------------------------------------
(* The service.  What the inner service answers to poll_ready decides only  *)
(* when the caller goes on to call(), which may be any time after the slot  *)
(* is reserved.                                                             *)

PollReady(s) ==
  /\ s \notin reserved \cup adding
  /\ \/ Acquired(s) /\ reserved' = reserved \cup {s}
     \/ Enqueued(s) /\ UNCHANGED reserved
  /\ UNCHANGED <<debt, owing, adding, limit, todo, inflight>>

Call(s, c) ==
  /\ s \in reserved
  /\ c \notin inflight \cup adding
  /\ reserved' = reserved \ {s}
  /\ inflight' = inflight \cup {c}
  /\ UNCHANGED <<debtVars, limit, todo>>

\* the response future is dropped, finished or not
DropCall(c) ==
  /\ c \in inflight
  /\ inflight' = inflight \ {c}
  /\ Release(c)
  /\ UNCHANGED <<limit, todo, reserved>>

\* slip: the service forgets its Slot instead of dropping it
DropReservedLeaks(s) ==
  /\ s \in reserved
  /\ reserved' = reserved \ {s}
  /\ UNCHANGED <<debtVars, limit, todo, inflight>>

DropReserved(s) ==
  /\ s \in reserved
  /\ reserved' = reserved \ {s}
  /\ Release(s)
  /\ UNCHANGED <<limit, todo, inflight>>

DropWaiting(s) ==
  /\ Abandoned(s)
  /\ UNCHANGED <<debt, owing, adding, limit, todo, reserved, inflight>>

(* Dropping a service drops its poll_sem and its permit.  A service that is *)
(* dropped may come back as a fresh clone: no slot, no place in the queue.  *)
DropService(s) == DropReserved(s) \/ DropWaiting(s)
-----------------------------------------------------------------------------
(* set_limit.                                                               *)

SwapLimit(t, n) ==
  /\ todo[t] = 0 /\ t \notin Midway
  /\ n # limit
  /\ limit' = n
  /\ todo' = [todo EXCEPT ![t] = n - limit]
  /\ UNCHANGED <<debtVars, reserved, inflight>>

MoveUnit(t) ==
  /\ t \notin Midway
  /\ \/ todo[t] > 0 /\ Release(t) /\ todo' = [todo EXCEPT ![t] = @ - 1]
     \/ todo[t] < 0 /\ Acquire(t) /\ todo' = [todo EXCEPT ![t] = @ + 1]
  /\ UNCHANGED <<limit, reserved, inflight>>

\* the second half of whichever DebtSemaphore operation actor a is in
Complete(a) ==
  /\ Owe(a) \/ Add(a)
  /\ UNCHANGED <<limit, todo, reserved, inflight>>
-----------------------------------------------------------------------------
ServiceStep(s) == PollReady(s) \/ DropService(s) \/ \E c \in Calls : Call(s, c)
SetterStep(t) == MoveUnit(t) \/ \E n \in Limits : SwapLimit(t, n)

Next ==
  \/ \E s \in Services : ServiceStep(s)
  \/ \E c \in Calls : DropCall(c)
  \/ \E t \in Setters : SetterStep(t)
  \/ \E a \in Actors : Complete(a)

Spec == Init /\ [][Next]_vars
-----------------------------------------------------------------------------
(* Correctness.                                                             *)

\* every unit of capacity that somebody uses, or has been handed
Taken == granted \cup reserved \cup inflight

\* the units setters still have to release, and to acquire, one token each
UnitsUp == {p \in Setters \X (1..MaxPermits) : p[2] <= todo[p[1]]}
UnitsDown == {p \in Setters \X (1..MaxPermits) : p[2] <= -todo[p[1]]}

TypeOK ==
  /\ permits \in Nat /\ debt \in Nat
  /\ queue \in Seq(Services)
  /\ granted \subseteq Services /\ reserved \subseteq Services
  /\ inflight \subseteq Calls
  /\ owing \subseteq Setters /\ adding \subseteq Actors
  /\ limit \in Limits
  /\ todo \in [Setters -> -MaxPermits..MaxPermits]

(* A service waits at most once, and nobody is in two places: waiting, being *)
(* handed a permit, holding a slot, giving one back.                        *)
Exclusive ==
  /\ IsInjective(queue)
  /\ granted \cap (Waiting \cup reserved \cup adding) = {}
  /\ Waiting \cap (reserved \cup adding) = {}
  /\ adding \cap (reserved \cup inflight \cup owing) = {}

(* No interleaving of completions, cancellations and set() calls creates or *)
(* loses a unit of capacity: what is free, taken or about to be freed is    *)
(* the ceiling plus what is owed or about to be owed.                       *)
Conservation ==
  permits + Cardinality(Taken) + Cardinality(adding) + Cardinality(UnitsUp)
    = limit + debt + Cardinality(owing) + Cardinality(UnitsDown)

(* The inductive invariant the proof of Conservation rests on.              *)
IInv == TypeOK /\ Exclusive /\ NoIdlePermit /\ Conservation

(* Never are more slots in use than the highest ceiling anybody ever set.   *)
(* Holds when one thread at a time calls set(), as the CPU controller does. *)
WithinHighestCeiling == \E n \in Limits : Cardinality(Taken) <= n

(* With several threads in set(), completions that free units while other   *)
(* threads are about to book debt raise that by one ceiling a thread.       *)
WithinCeilingPerSetter ==
  Setters # {} =>
    \E n \in Limits : Cardinality(Taken) <= Cardinality(Setters) * n
-----------------------------------------------------------------------------
(* Liveness.  The runtime polls a task it has woken; a caller uses or drops *)
(* the slot it reserved; handlers end; threads are scheduled.               *)

Fairness ==
  /\ \A s \in Services : /\ WF_vars(s \in granted /\ PollReady(s))
                         /\ WF_vars(DropReserved(s) \/ \E c \in Calls : Call(s, c))
  /\ \A c \in Calls : WF_vars(DropCall(c))
  /\ \A t \in Setters : WF_vars(MoveUnit(t))
  /\ \A a \in Actors : WF_vars(Complete(a))

FairSpec == Spec /\ Fairness

(* A service that waits gets a slot or gives up unless the ceiling falls to *)
(* zero again and again: completed requests and raised ceilings reach the   *)
(* waiters, whatever set() does to the debt.                                *)
WaitersAdvance ==
  \A s \in Services : s \in Waiting ~> (s \notin Waiting \/ limit = 0)
=============================================================================
