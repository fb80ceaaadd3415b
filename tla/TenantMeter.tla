------------------------------ MODULE TenantMeter ------------------------------
(***************************************************************************)
(* Tenant accounting (src/src/tenant.rs): while the inner service is not   *)
(* ready the gate is shut, and the time it is shut is divided among the    *)
(* requests in flight.  rate is the cumulative share per request; a        *)
(* request draws the growth of rate since it last looked, capped so that   *)
(* never more is attributed than was accumulated.                          *)
(*                                                                         *)
(* Every field of Accumulator is an atomic of its own: each action below   *)
(* is one atomic operation of one thread (a loop of load and compare-and-  *)
(* exchange is the exchange that succeeds), interleaved in program order.  *)
(* pc says what a thread does next, next where it goes on after a flush or *)
(* a draw.  A clock reading (at) may be old by the time it is used.        *)
(***************************************************************************)
EXTENDS Integers, FiniteSetsExt

CONSTANTS
  Pollers,    \* tasks that poll TenantReportService::poll_ready or settle
  Requests,   \* Blame values
  MaxTime     \* bound of the clock

ASSUME MeterAssumption ==
  /\ IsFiniteSet(Pollers) /\ IsFiniteSet(Requests)
  /\ Pollers \cap Requests = {}
  /\ MaxTime \in Nat

VARIABLES
  clock,
  gate,          \* Open, or the time since which the gate is shut
  rate, inflight, accumulated, attributed, unattributed,
  pc, next,
  at,            \* the clock reading a thread works with
  span,          \* the dt a thread accrues
  share,         \* what a thread adds to rate, or asks attribute() for
  base,          \* the attributed total an attribute() has seen
  seen, owed     \* Blame::seen, Blame::owed

meterVars == <<gate, rate, inflight, accumulated, attributed, unattributed>>
localVars == <<at, span, share, base>>
vars == <<clock, meterVars, pc, next, localVars, seen, owed>>

Open == -1
Actors == Pollers \cup Requests

\* slip: a plain difference
SubUnsaturated(x, y) == x - y

SatSub(x, y) == IF x > y THEN x - y ELSE 0

Init ==
  /\ clock = 0 /\ gate = Open
  /\ rate = 0 /\ inflight = 0
  /\ accumulated = 0 /\ attributed = 0 /\ unattributed = 0
  /\ pc = [a \in Actors |-> IF a \in Pollers THEN "idle" ELSE "out"]
  /\ next = [a \in Actors |-> "idle"]
  /\ at = [a \in Actors |-> 0] /\ span = [a \in Actors |-> 0]
  /\ share = [a \in Actors |-> 0] /\ base = [a \in Actors |-> 0]
  /\ seen = [r \in Requests |-> 0] /\ owed = [r \in Requests |-> 0]

Goto(a, label) == pc' = [pc EXCEPT ![a] = label]
-----------------------------------------------------------------------------
(* flush, shut, open and accrue, on behalf of any thread.                   *)

\* a flush or a draw is over: go on where it was called from
Return(a) ==
  /\ Goto(a, next[a])
  /\ next' = [next EXCEPT ![a] = "idle"]

\* a poller still needs its reading after the flush, nobody else does
Reading(a) == IF next[a] = "inner" THEN at ELSE [at EXCEPT ![a] = 0]

\* now(): read the clock, then flush with it and go on at label
StartFlush(a, label) ==
  /\ Goto(a, "flush")
  /\ next' = [next EXCEPT ![a] = label]
  /\ at' = [at EXCEPT ![a] = clock]
  /\ UNCHANGED <<clock, meterVars, span, share, base, seen, owed>>

\* Put to in the gate if it is shut, and accrue the span it was shut.
Bank(a, to) ==
  IF gate = Open
  THEN Return(a) /\ UNCHANGED <<gate, span>>
  ELSE /\ gate' = to
       /\ span' = [span EXCEPT ![a] = SatSub(at[a], gate)]
       /\ Goto(a, "accrue") /\ UNCHANGED next

\* slip: the gate keeps the old stamp when its span is banked
FlushKeepsStamp(a) ==
  /\ pc[a] = "flush"
  /\ Bank(a, gate)
  /\ at' = Reading(a)
  /\ UNCHANGED <<clock, rate, inflight, accumulated, attributed, unattributed,
                 share, base, seen, owed>>

Flush(a) ==
  /\ pc[a] = "flush"
  /\ Bank(a, at[a])
  /\ at' = Reading(a)
  /\ UNCHANGED <<clock, rate, inflight, accumulated, attributed, unattributed,
                 share, base, seen, owed>>

\* accrue(): how many share the span
AccrueLoad(a) ==
  /\ pc[a] = "accrue"
  /\ IF inflight = 0
     THEN Goto(a, "nobody") /\ UNCHANGED share
     ELSE Goto(a, "rate") /\ share' = [share EXCEPT ![a] = span[a] \div inflight]
  /\ UNCHANGED <<clock, meterVars, next, at, span, base, seen, owed>>

\* slip: everybody is charged the whole span
AccrueRateUndivided(a) ==
  /\ pc[a] = "rate"
  /\ rate' = rate + span[a]
  /\ share' = [share EXCEPT ![a] = 0]
  /\ Goto(a, "whole")
  /\ UNCHANGED <<clock, gate, inflight, accumulated, attributed, unattributed,
                 next, at, span, base, seen, owed>>

AccrueRate(a) ==
  /\ pc[a] = "rate"
  /\ rate' = rate + share[a]
  /\ share' = [share EXCEPT ![a] = 0]
  /\ Goto(a, "whole")
  /\ UNCHANGED <<clock, gate, inflight, accumulated, attributed, unattributed,
                 next, at, span, base, seen, owed>>

AccrueBank(a) ==
  /\ \/ pc[a] = "whole" /\ accumulated' = accumulated + span[a] /\ UNCHANGED unattributed
     \/ pc[a] = "nobody" /\ unattributed' = unattributed + span[a] /\ UNCHANGED accumulated
  /\ span' = [span EXCEPT ![a] = 0]
  /\ Return(a)
  /\ UNCHANGED <<clock, gate, rate, inflight, attributed, at, share, base, seen, owed>>

FlushStep(a) == Flush(a) \/ AccrueLoad(a) \/ AccrueRate(a) \/ AccrueBank(a)
-----------------------------------------------------------------------------
(* TenantReportService::poll_ready, and settle().                           *)

PollReady(p) == pc[p] = "idle" /\ StartFlush(p, "inner")

Settle(p) == pc[p] = "idle" /\ StartFlush(p, "idle")

\* The inner service is pending: shut the gate as of the reading, unless it
\* is shut (with the poll of the inner service, that is one atomic step).
Shut(p) ==
  /\ pc[p] = "inner"
  /\ gate' = IF gate = Open THEN at[p] ELSE gate
  /\ at' = [at EXCEPT ![p] = 0]
  /\ Goto(p, "idle")
  /\ UNCHANGED <<clock, rate, inflight, accumulated, attributed, unattributed,
                 next, span, share, base, seen, owed>>

\* The inner service is ready: open the gate.
OpenGate(p) ==
  /\ pc[p] = "inner"
  /\ Bank(p, Open)
  /\ at' = [at EXCEPT ![p] = 0]
  /\ UNCHANGED <<clock, rate, inflight, accumulated, attributed, unattributed,
                 share, base, seen, owed>>

PollerStep(p) ==
  \/ PollReady(p) \/ Settle(p)
  \/ Shut(p) \/ OpenGate(p)
-----------------------------------------------------------------------------
(* A request: admit, draw, and finalize when it ends or is dropped.         *)

\* slip: enter() without a flush
AdmitUnflushed(r) == pc[r] = "out" /\ Goto(r, "join")
  /\ UNCHANGED <<clock, meterVars, next, localVars, seen, owed>>

Admit(r) == pc[r] = "out" /\ StartFlush(r, "join")

\* enter(): join, then read the rate
Join(r) ==
  /\ pc[r] = "join"
  /\ inflight' = inflight + 1
  /\ Goto(r, "see")
  /\ UNCHANGED <<clock, gate, rate, accumulated, attributed, unattributed,
                 next, localVars, seen, owed>>

See(r) ==
  /\ pc[r] = "see"
  /\ seen' = [seen EXCEPT ![r] = rate]
  /\ Goto(r, "live")
  /\ UNCHANGED <<clock, meterVars, next, localVars, owed>>

\* slip: leave() without a flush
FinishUnflushed(r) == pc[r] = "live" /\ Goto(r, "part")
  /\ UNCHANGED <<clock, meterVars, next, localVars, seen, owed>>

Finish(r) == pc[r] = "live" /\ StartFlush(r, "part")

\* slip: the request ends but is still counted
PartUncounted(r) ==
  /\ pc[r] = "part"
  /\ Goto(r, "last")
  /\ UNCHANGED <<clock, meterVars, next, localVars, seen, owed>>

Part(r) ==
  /\ pc[r] = "part"
  /\ inflight' = inflight - 1
  /\ Goto(r, "last")
  /\ UNCHANGED <<clock, gate, rate, accumulated, attributed, unattributed,
                 next, localVars, seen, owed>>

\* draw(), while it lives and once more when it has left: back is where it
\* goes on, over once the report is written
Draw(r) ==
  /\ pc[r] \in {"live", "last"}
  /\ LET back == IF pc[r] = "live" THEN "live" ELSE "over"
         growth == rate - seen[r]
     IN  /\ growth = 0 => back = "over"
         /\ IF growth = 0
            THEN Goto(r, back) /\ UNCHANGED next
            ELSE Goto(r, "claim") /\ next' = [next EXCEPT ![r] = back]
         /\ seen' = [seen EXCEPT ![r] = rate]
         /\ share' = [share EXCEPT ![r] = growth]
  /\ UNCHANGED <<clock, meterVars, at, span, base, owed>>

\* attribute(): what there is room for ...
Claim(r) ==
  /\ pc[r] = "claim"
  /\ LET credit == Min({share[r], SatSub(accumulated, attributed)})
     IN  IF credit = 0
         THEN /\ Return(r)
              /\ share' = [share EXCEPT ![r] = 0]
              /\ UNCHANGED <<span, base>>
         ELSE /\ Goto(r, "exchange")
              /\ span' = [span EXCEPT ![r] = credit]
              /\ base' = [base EXCEPT ![r] = attributed]
              /\ UNCHANGED <<next, share>>
  /\ UNCHANGED <<clock, meterVars, at, seen, owed>>

\* slips: the claim is stored whatever happened meanwhile; or it is billed
\* even when the exchange fails
ExchangeBlind(r) ==
  /\ pc[r] = "exchange"
  /\ attributed' = attributed + span[r]
  /\ owed' = [owed EXCEPT ![r] = @ + span[r]]
  /\ Return(r)
  /\ share' = [share EXCEPT ![r] = 0]
  /\ span' = [span EXCEPT ![r] = 0] /\ base' = [base EXCEPT ![r] = 0]
  /\ UNCHANGED <<clock, gate, rate, inflight, accumulated, unattributed, at, seen>>

ExchangeBillsRetries(r) ==
  /\ pc[r] = "exchange"
  /\ owed' = [owed EXCEPT ![r] = @ + span[r]]
  /\ IF attributed = base[r]
     THEN /\ attributed' = attributed + span[r]
          /\ share' = [share EXCEPT ![r] = 0]
          /\ Return(r)
     ELSE Goto(r, "claim") /\ UNCHANGED <<attributed, share, next>>
  /\ span' = [span EXCEPT ![r] = 0] /\ base' = [base EXCEPT ![r] = 0]
  /\ UNCHANGED <<clock, gate, rate, inflight, accumulated, unattributed, at, seen>>

\* ... is claimed, unless somebody claimed something meanwhile
Exchange(r) ==
  /\ pc[r] = "exchange"
  /\ IF attributed = base[r]
     THEN /\ attributed' = attributed + span[r]
          /\ owed' = [owed EXCEPT ![r] = @ + span[r]]
          /\ share' = [share EXCEPT ![r] = 0]
          /\ Return(r)
     ELSE Goto(r, "claim") /\ UNCHANGED <<attributed, owed, share, next>>
  /\ span' = [span EXCEPT ![r] = 0] /\ base' = [base EXCEPT ![r] = 0]
  /\ UNCHANGED <<clock, gate, rate, inflight, accumulated, unattributed,
                 at, seen>>

RequestStep(r) ==
  \/ Admit(r) \/ Join(r) \/ See(r)
  \/ Draw(r) \/ Claim(r) \/ Exchange(r)
  \/ Finish(r) \/ Part(r)
-----------------------------------------------------------------------------
Tick ==
  /\ clock < MaxTime
  /\ clock' = clock + 1
  /\ UNCHANGED <<meterVars, pc, next, localVars, seen, owed>>

Step(a) ==
  \/ FlushStep(a)
  \/ a \in Pollers /\ PollerStep(a)
  \/ a \in Requests /\ RequestStep(a)

Next == Tick \/ \E a \in Actors : Step(a)

Spec == Init /\ [][Next]_vars
-----------------------------------------------------------------------------
(* Correctness.                                                             *)

Labels == {"idle", "inner",
           "flush", "accrue", "rate", "whole", "nobody",
           "out", "join", "see", "live", "part", "last",
           "claim", "exchange", "over"}

TypeOK ==
  /\ clock \in 0..MaxTime /\ gate \in {Open} \cup 0..MaxTime
  /\ rate \in Nat /\ inflight \in Nat
  /\ accumulated \in Nat /\ attributed \in Nat /\ unattributed \in Nat
  /\ pc \in [Actors -> Labels] /\ next \in [Actors -> Labels]
  /\ at \in [Actors -> 0..MaxTime]
  /\ span \in [Actors -> Nat] /\ share \in [Actors -> Nat]
  /\ base \in [Actors -> Nat]
  /\ seen \in [Requests -> Nat] /\ owed \in [Requests -> Nat]

(* "billing never exceeds the measured whole" (tenant.rs:789): a draw that  *)
(* races other draws and accruals never attributes what is not there.       *)
BilledWithinMeasured == attributed <= accumulated

(* "the ledger equals what was attributed" (tenant.rs:795).                 *)
LedgerIsAttributed == attributed = MapThenSumSet(LAMBDA r : owed[r], Requests)

Flushing == {"flush", "accrue", "rate", "whole", "nobody"}
Drawing == {"claim", "exchange"}

\* between its fetch_add and its fetch_sub of inflight
Member(r) ==
  \/ pc[r] \in {"see", "live", "part"}
  \/ pc[r] \in Drawing /\ next[r] = "live"
  \/ pc[r] \in Flushing /\ next[r] = "part"

(* Every occupier is counted once, and leaves once.                         *)
InflightIsMembers == inflight = Cardinality({r \in Requests : Member(r)})

\* where a poller and a request may be, and where a flush or draw returns to
PollerPlaces(p) ==
  /\ pc[p] \in {"idle", "inner"} \cup Flushing
  /\ next[p] \in {"idle", "inner"}
  /\ pc[p] \notin Flushing => next[p] = "idle"

RequestPlaces(r) ==
  /\ pc[r] \notin {"idle", "inner"}
  /\ pc[r] \in Flushing => next[r] \in {"join", "part"}
  /\ pc[r] \in Drawing => next[r] \in {"live", "over"}

(* The inductive invariant behind the three: no request has seen more than  *)
(* the rate, and a claim that finds attributed as it was will find room.    *)
IInv ==
  /\ TypeOK
  /\ \A p \in Pollers : PollerPlaces(p)
  /\ \A r \in Requests : RequestPlaces(r)
  /\ \A r \in Requests : seen[r] <= rate
  /\ \A r \in Requests : pc[r] = "exchange" => base[r] + span[r] <= accumulated
  /\ BilledWithinMeasured
  /\ InflightIsMembers

AtRest(a) == pc[a] \in {"idle", "out", "live", "over"}
Settled == \A a \in Actors : AtRest(a)

(* "the whole is what elapsed" (tenant.rs:650): all that was ever banked is *)
(* no longer than the time there was.                                       *)
BankedWithinElapsed == accumulated + unattributed <= clock
=============================================================================
