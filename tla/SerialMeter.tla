------------------------------ MODULE SerialMeter ------------------------------
(***************************************************************************)
(* TenantMeter on a single thread: a handler ends before the next starts,  *)
(* and the clock stands still meanwhile.  Here the bill is exact up to the *)
(* rounding down of a span's shares.  joined, presence and alone are       *)
(* history: the rate at which a request came in, how long it was there     *)
(* while the gate was shut, and how much of that without company.          *)
(***************************************************************************)
EXTENDS TenantMeter

VARIABLES joined, presence, alone

historyVars == <<joined, presence, alone>>

Members == {r \in Requests : Member(r)}

SerialInit ==
  /\ Init
  /\ joined = [r \in Requests |-> 0]
  /\ presence = [r \in Requests |-> 0]
  /\ alone = [r \in Requests |-> 0]

SerialTick ==
  /\ Settled /\ Tick
  /\ LET there == IF gate = Open THEN {} ELSE Members
     IN  /\ presence' = [r \in Requests |-> presence[r] + (IF r \in there THEN 1 ELSE 0)]
         /\ alone' = [r \in Requests |-> alone[r] + (IF there = {r} THEN 1 ELSE 0)]
  /\ UNCHANGED joined

SerialStep(a) ==
  /\ \A other \in Actors \ {a} : AtRest(other)
  /\ Step(a)
  /\ joined' = [r \in Requests |-> IF r = a /\ pc[a] = "see" THEN rate ELSE joined[r]]
  /\ UNCHANGED <<presence, alone>>

SerialNext == SerialTick \/ \E a \in Actors : SerialStep(a)

SerialSpec == SerialInit /\ [][SerialNext]_<<vars, historyVars>>
-----------------------------------------------------------------------------
(* "the drawing schedule does not change the bill" (tenant.rs:426): a draw  *)
(* is never cut short for want of room, so whoever draws late or often owes *)
(* the growth of the rate since it joined.                                  *)
DrawingDoesNotChangeBill ==
  Settled => \A r \in Requests :
    pc[r] \in {"live", "over"} => owed[r] = seen[r] - joined[r]

(* "billed only for the leg it was present for" (tenant.rs:610).            *)
BillWithinPresence == \A r \in Requests : owed[r] <= presence[r]

(* "the lone occupier owes it all" (tenant.rs:588): whoever is finished has *)
(* been billed for all the time it had to itself.                           *)
LoneTimeIsOwed == \A r \in Requests : pc[r] = "over" => owed[r] >= alone[r]

\* time measured that is not banked yet: in a handler's hands, or at the gate
Banking == {"accrue", "rate", "whole", "nobody"}
InHand ==
  IF \E a \in Actors : pc[a] \in Banking
  THEN span[CHOOSE a \in Actors : pc[a] \in Banking]
  ELSE 0
AtGate == IF gate = Open THEN 0 ELSE clock - gate

(* "the whole is what elapsed, settled or not" (tenant.rs:650), and "the    *)
(* leg with no occupier is nobody's fault" (tenant.rs:615): the two totals  *)
(* with what is not banked yet are what IdealMeter counts as time passes.   *)
Measured == accumulated + (IF inflight > 0 THEN InHand + AtGate ELSE 0)
Spare == unattributed + (IF inflight = 0 THEN InHand + AtGate ELSE 0)

Ideal == INSTANCE IdealMeter WITH
  blocked <- gate # Open, present <- Members,
  measured <- Measured, spare <- Spare

ImplementsIdeal == Ideal!Spec
-----------------------------------------------------------------------------
(* Why, for the proofs.                                                     *)

\* nothing comes between the steps of a handler
OneAtATime == \A a, b \in Actors : AtRest(a) \/ AtRest(b) \/ a = b

\* so its clock reading is the time, and what it flushed stays flushed
ReadingIsCurrent ==
  \A a \in Actors :
    \/ pc[a] \in {"flush", "inner"}
    \/ pc[a] \in Banking /\ next[a] = "inner"
    => at[a] = clock

GateIsCurrent ==
  /\ gate # Open => gate <= clock
  /\ \A a \in Actors :
       pc[a] \in Banking \cup {"inner", "join", "part"} => gate \in {Open, clock}

\* and the company it found is the company there is
CompanyIsCurrent ==
  \A a \in Actors : /\ pc[a] \in {"rate", "whole"} => inflight > 0
                    /\ pc[a] = "nobody" => inflight = 0

SerialInv == IInv /\ OneAtATime /\ ReadingIsCurrent /\ GateIsCurrent /\ CompanyIsCurrent

\* enter() has counted request r in
Begun(r) == pc[r] \notin {"out", "join"} /\ ~(pc[r] \in Flushing /\ next[r] = "join")

\* what it is drawing, and all it will draw if nothing more is accrued
Pending(r) == IF pc[r] \in Drawing THEN share[r] ELSE 0
Unbilled(r) == (IF pc[r] \in {"see", "over"} THEN 0 ELSE rate - seen[r]) + Pending(r)

(* Bills, drawn or not, with what a handler or the gate still has to accrue *)
(* for the members, stay within the time the request was there.             *)
BillInv ==
  /\ presence \in [Requests -> Nat]
  /\ \A r \in Requests :
       /\ ~Begun(r) => owed[r] = 0
       /\ Begun(r) => owed[r] + Unbilled(r) <= presence[r]
       /\ Member(r) => owed[r] + Unbilled(r) + AtGate <= presence[r]
       /\ Member(r) => \A a \in Actors :
            pc[a] \in {"accrue", "rate"} => owed[r] + Unbilled(r) + span[a] <= presence[r]
       /\ pc[r] = "exchange" => span[r] <= share[r]
  /\ \A a \in Actors : pc[a] = "rate" => share[a] <= span[a]

\* enter() has read the rate, and finalize() has not drawn the last
Counted(r) == Begun(r) /\ pc[r] # "see"
Charged(r) == Counted(r) /\ pc[r] # "over"

(* Every draw is granted in full, so bills and the growth in hand add up.   *)
LedgerInv ==
  /\ joined \in [Requests -> Nat]
  /\ \A r \in Requests :
       /\ Counted(r) => owed[r] + Pending(r) = seen[r] - joined[r]
       /\ ~Counted(r) => owed[r] = 0
       /\ pc[r] \in Drawing => seen[r] = rate
       /\ pc[r] = "exchange" => span[r] = share[r]

(* It is, because for each unit of growth a request may still draw there is *)
(* one accumulated, or about to be, that is not attributed.                 *)
Due == {d \in Requests \X (1..rate) : Charged(d[1]) /\ d[2] > seen[d[1]] - Pending(d[1])}

RoomInv ==
  /\ \A a \in Actors : pc[a] = "rate" =>
       inflight * share[a] <= span[a] /\ (inflight = 1 => share[a] = span[a])
  /\ attributed + Cardinality(Due) <=
       accumulated + (IF \E a \in Actors : pc[a] = "whole" THEN InHand ELSE 0)

(* Whoever is alone has been accrued its time alone, or still will be.      *)
Still == AtGate + (IF \E a \in Actors : pc[a] \in {"accrue", "rate"} THEN InHand ELSE 0)

LoneInv ==
  /\ alone \in [Requests -> Nat]
  /\ \A r \in Requests :
       /\ ~Counted(r) => alone[r] = 0
       /\ Counted(r) =>
            alone[r] <= owed[r] + Unbilled(r) + (IF Members = {r} THEN Still ELSE 0)
=============================================================================
