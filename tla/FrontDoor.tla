------------------------------- MODULE FrontDoor -------------------------------
(***************************************************************************)
(* Tenant quota over load shedding over the dynamic limit, as a stack of   *)
(* tower layers: EnforcerService (src/src/rate_limit.rs) around            *)
(* RejectionService (src/src/reject.rs) around the service of              *)
(* ConcurrencyLimit.  The shedding layer never waits: it remembers whether *)
(* the limit let the last poll_ready through, and call() sheds if not.     *)
(*                                                                         *)
(* Callers keep tower's contract: call() only after a poll_ready that      *)
(* returned Ready(Ok).  External: the innermost service, whose poll_ready  *)
(* answers as it likes, and the store behind Limits::drop_pct, which is    *)
(* written at any time.  ConcurrencyLimit's Spec is what the limit in the  *)
(* middle does.                                                            *)
(***************************************************************************)
EXTENDS ConcurrencyLimit, Quota

CONSTANT MaxCalls   \* bound of the calls counted per tenant

ASSUME DoorAssumption == MaxCalls \in Nat

VARIABLES
  store,     \* the share Limits::drop_pct returns for each tenant
  ready,     \* services whose RejectionService::ready is true
  mayCall,   \* services whose caller holds a Ready(Ok) it has not used
  asked,     \* <<tenant, share>> of the call() under way in each service
  found      \* history: what each last found below the shedding layer

doorVars == <<quotaVars, store, ready, mayCall, asked, found>>
allVars == <<vars, doorVars>>

Nobody == <<>>

DoorInit ==
  /\ Init /\ QuotaInit
  /\ store \in [Tenants -> Shares]
  /\ ready = {} /\ mayCall = {}
  /\ asked = [s \in Services |-> Nobody]
  /\ found = [s \in Services |-> "unasked"]
-----------------------------------------------------------------------------
(* poll_ready of the stack.                                                 *)

\* slip: an error of the innermost service passes for an overload
PolledThroughHidesError(s) ==
  /\ \/ s \in reserved /\ UNCHANGED vars
     \/ PollReady(s) /\ s \in reserved'
  /\ mayCall' = mayCall \cup {s}
  /\ \/ /\ found' = [found EXCEPT ![s] = "ok"]
        /\ ready' = ready \cup {s}
     \/ /\ \E e \in {"pending", "error"} : found' = [found EXCEPT ![s] = e]
        /\ ready' = ready \ {s}

\* the limit has or gets a slot, and passes the innermost answer on
PolledThrough(s) ==
  /\ \/ s \in reserved /\ UNCHANGED vars
     \/ PollReady(s) /\ s \in reserved'
  /\ \/ /\ found' = [found EXCEPT ![s] = "ok"]
        /\ ready' = ready \cup {s} /\ mayCall' = mayCall \cup {s}
     \/ /\ found' = [found EXCEPT ![s] = "pending"]
        /\ ready' = ready \ {s} /\ mayCall' = mayCall \cup {s}
     \/ /\ found' = [found EXCEPT ![s] = "error"]
        /\ mayCall' = mayCall \ {s} /\ UNCHANGED ready

\* the limit says Pending, and the shedding layer Ready all the same
PolledFull(s) ==
  /\ \/ s \in Waiting /\ UNCHANGED vars
     \/ PollReady(s) /\ s \in Waiting'
  /\ ready' = ready \ {s} /\ mayCall' = mayCall \cup {s}
  /\ found' = [found EXCEPT ![s] = "full"]

DoorPollReady(s) ==
  /\ asked[s] = Nobody
  /\ PolledThrough(s) \/ PolledFull(s)
  /\ UNCHANGED <<quotaVars, store, asked>>
-----------------------------------------------------------------------------
(* call: the store is read first, then the tally is locked.                 *)

DropPct(s, t) ==
  /\ s \in mayCall /\ asked[s] = Nobody
  /\ ledger[t].calls < MaxCalls
  /\ mayCall' = mayCall \ {s}
  /\ asked' = [asked EXCEPT ![s] = <<t, store[t]>>]
  /\ UNCHANGED <<vars, quotaVars, store, ready, found>>

\* the slot the service may have stays with it
Throttled(s) ==
  /\ Refuse(asked[s][1], asked[s][2])
  /\ UNCHANGED <<vars, ready>>

Overloaded(s) ==
  /\ Admit(asked[s][1], asked[s][2])
  /\ s \notin ready
  /\ UNCHANGED <<vars, ready>>

\* slip: the flag is read, not taken
ForwardedKeepsFlag(s) ==
  /\ Admit(asked[s][1], asked[s][2])
  /\ s \in ready /\ UNCHANGED ready
  /\ \E c \in Calls : Call(s, c)

Forwarded(s) ==
  /\ Admit(asked[s][1], asked[s][2])
  /\ s \in ready /\ ready' = ready \ {s}
  /\ \E c \in Calls : Call(s, c)

DoorCall(s) ==
  /\ asked[s] # Nobody
  /\ Throttled(s) \/ Overloaded(s) \/ Forwarded(s)
  /\ asked' = [asked EXCEPT ![s] = Nobody]
  /\ UNCHANGED <<store, mayCall, found>>
-----------------------------------------------------------------------------
\* the service is dropped, or replaced by a clone: nothing is carried over
DoorDrop(s) ==
  /\ asked[s] = Nobody
  /\ DropService(s)
  /\ ready' = ready \ {s} /\ mayCall' = mayCall \ {s}
  /\ found' = [found EXCEPT ![s] = "unasked"]
  /\ UNCHANGED <<quotaVars, store, asked>>

SetShare(t) ==
  /\ store' \in {[store EXCEPT ![t] = x] : x \in Shares \ {store[t]}}
  /\ UNCHANGED <<vars, quotaVars, ready, mayCall, asked, found>>

LimitStep ==
  /\ \/ \E c \in Calls : DropCall(c)
     \/ \E u \in Setters : SetterStep(u)
     \/ \E a \in Actors : Complete(a)
  /\ UNCHANGED doorVars

DoorNext ==
  \/ \E s \in Services : DoorPollReady(s) \/ DoorCall(s) \/ DoorDrop(s)
  \/ \E s \in Services, t \in Tenants : DropPct(s, t)
  \/ \E t \in Tenants : SetShare(t)
  \/ LimitStep

DoorSpec == DoorInit /\ [][DoorNext]_allVars
-----------------------------------------------------------------------------
(* Correctness.                                                             *)

DoorTypeOK ==
  /\ TypeOK /\ QuotaTypeOK
  /\ ready \subseteq Services /\ mayCall \subseteq Services
  /\ store \in [Tenants -> Shares]
  /\ asked \in [Services -> (Tenants \X Shares) \cup {Nobody}]
  /\ found \in [Services -> {"unasked", "ok", "pending", "error", "full"}]

(* The flag is never stale: a service that says it is ready holds its slot, *)
(* so the limit's call() does not panic, and unless its last poll_ready     *)
(* failed the innermost service has just agreed to the request.             *)
ReadyIsCurrent ==
  \A s \in ready :
    /\ s \in reserved
    /\ s \in mayCall \/ asked[s] # Nobody => found[s] = "ok"

(* A request is shed only if its service was turned away when it was last   *)
(* polled: by the innermost service, which was not ready, or by the limit,  *)
(* with the whole ceiling taken, about to be given back or about to be      *)
(* raised.  By the time of the call a slot may well be free again.          *)
ShedsOnlyTurnedAway ==
  [][\A s \in Services :
       /\ DoorPollReady(s) /\ PolledFull(s) =>
            Cardinality(Taken) + Cardinality(adding) + Cardinality(UnitsUp) >= limit
       /\ DoorCall(s) /\ Overloaded(s) => found[s] \in {"full", "pending"}
    ]_allVars
=============================================================================
