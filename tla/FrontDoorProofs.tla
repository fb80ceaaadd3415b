--------------------------- MODULE FrontDoorProofs ---------------------------
(***************************************************************************)
(* Proofs about FrontDoor and the tally of Quota: the limit in the middle  *)
(* of the stack does what ConcurrencyLimit specifies, so its invariants    *)
(* carry over; the flag of the shedding layer is never stale; refusals     *)
(* keep to the shares, for any shares, tenants and number of calls.        *)
(***************************************************************************)
EXTENDS FrontDoor, ConcurrencyLimitProofs

-----------------------------------------------------------------------------
(* Whatever a layer of the stack does, the limit does a step of its own or  *)
(* none.                                                                    *)
LEMMA DoorStepIsLimitStep == [DoorNext]_allVars => [Next]_vars
<1> SUFFICES ASSUME [DoorNext]_allVars PROVE [Next]_vars
  OBVIOUS
<1>1. ASSUME NEW s \in Services, DoorPollReady(s) PROVE [Next]_vars
  BY <1>1 DEF DoorPollReady, PolledThrough, PolledFull, Next, ServiceStep
<1>2. ASSUME NEW s \in Services, DoorCall(s) PROVE [Next]_vars
  BY <1>2 DEF DoorCall, Throttled, Overloaded, Forwarded, Next, ServiceStep
<1>3. ASSUME NEW s \in Services, DoorDrop(s) PROVE [Next]_vars
  BY <1>3 DEF DoorDrop, Next, ServiceStep
<1>4. CASE LimitStep
  BY <1>4 DEF LimitStep, Next
<1>5. ASSUME NEW s \in Services, NEW t \in Tenants, DropPct(s, t) PROVE [Next]_vars
  BY <1>5 DEF DropPct
<1>6. ASSUME NEW t \in Tenants, SetShare(t) PROVE [Next]_vars
  BY <1>6 DEF SetShare
<1>7. CASE UNCHANGED allVars
  BY <1>7 DEF allVars
<1> QED BY <1>1, <1>2, <1>3, <1>4, <1>5, <1>6, <1>7 DEF DoorNext

(* The stack implements the specification of the limit alone.               *)
THEOREM DoorImplementsLimit == DoorSpec => Spec
<1>1. DoorInit => Init  BY DEF DoorInit
<1> QED BY <1>1, DoorStepIsLimitStep, PTL DEF DoorSpec, Spec

(* Behind the front door no more slots are in use than one highest ceiling  *)
(* for every thread that calls set().                                       *)
THEOREM DoorWithinCeilings == DoorSpec => []WithinCeilingPerSetter
BY DoorImplementsLimit, SettersWithinCeilings, PTL

(* So the limit's inductive invariant holds behind the front door.          *)
LEMMA LimitIInvHolds == DoorSpec => []IInv
BY DoorImplementsLimit, IInvHolds, PTL
-----------------------------------------------------------------------------
(* The product of a count and a share grows by the share with every call.   *)
LEMMA OneMore ==
  ASSUME NEW n \in Int, NEW x \in Int
  PROVE  n * x \in Int /\ (n + 1) * x = n * x + x
OBVIOUS

(* count() keeps every run at its share rounded down, whether it refuses or *)
(* admits and whether the share is the one of the call before.              *)
LEMMA CountKeepsQuota ==
  ASSUME QuotaInv, NEW t \in Tenants, NEW x \in Shares,
         Refuse(t, x) \/ Admit(t, x)
  PROVE  QuotaInv'
<1> DEFINE run == Run(t, x)
           old == runs[t]
           n == IF Due(run) THEN 1 ELSE 0
<1>1. Clamp(x) \in 0..Scale \cup {NaN}
  BY QuotaAssumption DEF Clamp
<1>2. /\ old \in [share : 0..Scale \cup {NaN}, seen : Nat, refused : Nat]
      /\ ledger[t] \in [calls : Nat, due : Nat, refused : Nat]
  BY DEF QuotaInv, QuotaTypeOK
<1>3. run \in [share : 0..Scale \cup {NaN}, seen : Nat, refused : Nat]
  BY <1>1, <1>2 DEF Run
<1>4. /\ runs' = [runs EXCEPT ![t] = [run EXCEPT !.refused = @ + n]]
      /\ ledger' = [ledger EXCEPT ![t] =
           [calls |-> @.calls + 1,
            due |-> @.due + IF run.share = NaN THEN 0 ELSE run.share,
            refused |-> @.refused + n]]
  BY DEF Refuse, Admit, Book
<1> HIDE DEF run
<1>5. /\ runs'[t] = [share |-> run.share, seen |-> run.seen, refused |-> run.refused + n]
      /\ ledger'[t] = [calls |-> ledger[t].calls + 1,
                       due |-> ledger[t].due + IF run.share = NaN THEN 0 ELSE run.share,
                       refused |-> ledger[t].refused + n]
      /\ \A u \in Tenants \ {t} : runs'[u] = runs[u] /\ ledger'[u] = ledger[u]
  BY <1>3, <1>4 DEF QuotaInv, QuotaTypeOK
<1>6. QuotaTypeOK'
  BY <1>2, <1>3, <1>4, QuotaAssumption DEF QuotaInv, QuotaTypeOK
<1>7. CASE run.share = NaN
  <2>1. run.refused = 0 /\ n = 0
    BY <1>7, QuotaAssumption DEF run, Run, Due
  <2>2. ledger[t].refused * Scale <= ledger[t].due
    <3>1. CASE old.share = NaN
      BY <3>1 DEF QuotaInv, EndedRunsInBudget
    <3>2. CASE old.share # NaN
      <4>1. /\ (ledger[t].refused - old.refused) * Scale
                 <= ledger[t].due - old.seen * old.share
            /\ old.refused * Scale <= old.seen * old.share
        BY <3>2 DEF QuotaInv, EndedRunsInBudget, RefusedIsShareOfRun
      <4>2. (ledger[t].refused - old.refused) * Scale
              = ledger[t].refused * Scale - old.refused * Scale
        BY <1>2, QuotaAssumption
      <4>3. /\ old.share \in Nat /\ old.seen * old.share \in Int
            /\ old.refused * Scale \in Int /\ ledger[t].refused * Scale \in Int
        BY <1>2, <3>2, QuotaAssumption
      <4> QED BY <1>2, <4>1, <4>2, <4>3
    <3> QED BY <3>1, <3>2
  <2>3. EndedRunsInBudget'
    BY <1>2, <1>3, <1>5, <1>7, <2>1, <2>2, QuotaAssumption
       DEF QuotaInv, EndedRunsInBudget
  <2>4. RefusedIsShareOfRun'
    BY <1>5, <1>7 DEF QuotaInv, RefusedIsShareOfRun
  <2> QED BY <1>6, <2>3, <2>4 DEF QuotaInv
<1>8. CASE run.share # NaN
  <2> DEFINE s == run.share
             R == run.refused
             L == ledger[t].refused
             D == ledger[t].due
             before == (run.seen - 1) * s
  <2>0. s \in 0..Scale /\ s \in Nat /\ R \in Nat /\ L \in Nat /\ D \in Nat
        /\ Scale \in Nat /\ before \in Int
    BY <1>2, <1>3, <1>8, QuotaAssumption
  <2>1. /\ R * Scale <= before /\ before < (R + 1) * Scale
        /\ (L - R) * Scale <= D - before
    <3>1. CASE Clamp(x) # NaN /\ old.share = Clamp(x)
      <4>1. s = old.share /\ R = old.refused /\ run.seen - 1 = old.seen /\ s # NaN
        BY <1>2, <3>1 DEF run, Run
      <4> QED BY <4>1 DEF QuotaInv, RefusedIsShareOfRun, EndedRunsInBudget
    <3>2. CASE ~(Clamp(x) # NaN /\ old.share = Clamp(x))
      <4>1. R = 0 /\ run.seen = 1
        BY <3>2 DEF run, Run
      <4>2. /\ before = 0 /\ R * Scale = 0 /\ (R + 1) * Scale = Scale
            /\ (L - R) * Scale = L * Scale /\ D - before = D
        BY <2>0, <4>1
      <4>3. L * Scale <= D
        <5>1. CASE old.share = NaN
          BY <5>1 DEF QuotaInv, EndedRunsInBudget
        <5>2. CASE old.share # NaN
          <6>1. /\ (L - old.refused) * Scale <= D - old.seen * old.share
                /\ old.refused * Scale <= old.seen * old.share
            BY <5>2 DEF QuotaInv, EndedRunsInBudget, RefusedIsShareOfRun
          <6>2. (L - old.refused) * Scale = L * Scale - old.refused * Scale
            BY <1>2, QuotaAssumption
          <6>3. /\ old.share \in Nat /\ old.seen * old.share \in Int
                /\ old.refused * Scale \in Int /\ L * Scale \in Int
            BY <1>2, <5>2, QuotaAssumption
          <6> QED BY <2>0, <6>1, <6>2, <6>3
        <5> QED BY <5>1, <5>2
      <4> HIDE DEF s, R, L, D, before
      <4> QED BY <4>2, <4>3, QuotaAssumption
    <3> QED BY <3>1, <3>2
  <2>2. run.seen * s = before + s
    <3>1. run.seen \in Int /\ run.seen - 1 \in Int /\ (run.seen - 1) + 1 = run.seen
      BY <1>3
    <3> QED BY <2>0, <3>1, OneMore
  <2>3. /\ (R + 1) * Scale = R * Scale + Scale
        /\ (R + 1 + 1) * Scale = R * Scale + Scale + Scale
        /\ R * Scale \in Int
    BY <2>0, OneMore
  <2>4. \/ n = 1 /\ (R + 1) * Scale <= run.seen * s
        \/ n = 0 /\ ~((R + 1) * Scale <= run.seen * s)
    BY <1>8 DEF Due
  <2>5. /\ (R + n) * Scale <= run.seen * s
        /\ run.seen * s < (R + n + 1) * Scale
    BY <2>0, <2>1, <2>2, <2>3, <2>4
  <2>6. ((L + n) - (R + n)) * Scale <= (D + s) - run.seen * s
    <3>1. (L + n) - (R + n) = L - R
      BY <2>0, <2>4
    <3>2. (L - R) * Scale \in Int
      BY <2>0
    <3> HIDE DEF n, s, R, L, D, before
    <3> QED BY <2>0, <2>1, <2>2, <3>1, <3>2
  <2>7. RefusedIsShareOfRun'
    BY <1>5, <2>5 DEF QuotaInv, RefusedIsShareOfRun
  <2>8. EndedRunsInBudget'
    BY <1>5, <1>8, <2>6 DEF QuotaInv, EndedRunsInBudget
  <2> QED BY <1>6, <2>7, <2>8 DEF QuotaInv
<1> QED BY <1>7, <1>8
-----------------------------------------------------------------------------
(* A caller that may call(), or does, and will be shed was turned away; and *)
(* it uses its Ready(Ok) up.                                                *)
TurnedAway ==
  \A s \in Services :
    /\ asked[s] # Nobody => s \notin mayCall
    /\ s \in mayCall \/ asked[s] # Nobody =>
         s \in ready \/ found[s] \in {"full", "pending"}

(* The rest of the state of the stack.                                      *)
DoorInv == QuotaInv /\ DoorTypeOK /\ ReadyIsCurrent /\ TurnedAway

(* Initially no run has begun and no flag is set.                           *)
LEMMA DoorInitInv == DoorInit => DoorInv
<1> SUFFICES ASSUME DoorInit PROVE DoorInv
  OBVIOUS
<1>1. TypeOK
  BY InitIInv DEF DoorInit, IInv
<1>2. QuotaInv
  BY QuotaAssumption DEF DoorInit, QuotaInit, QuotaInv, QuotaTypeOK,
     RefusedIsShareOfRun, EndedRunsInBudget
<1>3. DoorTypeOK /\ ReadyIsCurrent /\ TurnedAway
  BY <1>1, <1>2 DEF DoorInit, DoorTypeOK, QuotaInv, ReadyIsCurrent, TurnedAway
<1> QED BY <1>2, <1>3 DEF DoorInv

(* Every step of the stack keeps its invariant.                             *)
LEMMA DoorNextInv == TypeOK' /\ DoorInv /\ [DoorNext]_allVars => DoorInv'
<1> SUFFICES ASSUME TypeOK', DoorInv, [DoorNext]_allVars PROVE DoorInv'
  OBVIOUS
<1> USE DEF DoorInv, DoorTypeOK, ReadyIsCurrent, TurnedAway
<1>1. ASSUME NEW s \in Services, DoorPollReady(s) PROVE DoorInv'
  <2>1. QuotaInv'
    BY <1>1 DEF DoorPollReady, quotaVars, QuotaInv, QuotaTypeOK,
       RefusedIsShareOfRun, EndedRunsInBudget
  <2>2. /\ asked' = asked /\ store' = store /\ asked[s] = Nobody
        /\ ready' \subseteq ready \cup {s} /\ mayCall' \subseteq mayCall \cup {s}
        /\ found' \in [Services -> {"unasked", "ok", "pending", "error", "full"}]
        /\ \A u \in Services \ {s} : /\ found'[u] = found[u]
                                     /\ u \in ready' <=> u \in ready
                                     /\ u \in mayCall' <=> u \in mayCall
    BY <1>1 DEF DoorPollReady, PolledThrough, PolledFull
  <2>3. reserved \subseteq reserved'
    BY <1>1 DEF DoorPollReady, PolledThrough, PolledFull, PollReady, vars
  <2>4. CASE PolledThrough(s)
    <3>1. s \in reserved'
      BY <2>4 DEF PolledThrough, vars
    <3>2. /\ s \in ready' /\ s \in mayCall' => found'[s] = "ok"
          /\ s \in mayCall' => s \in ready' \/ found'[s] = "pending"
      BY <2>4 DEF PolledThrough
    <3> QED BY <2>1, <2>2, <2>3, <3>1, <3>2 DEF QuotaInv
  <2>5. CASE PolledFull(s)
    BY <2>1, <2>2, <2>3, <2>5 DEF PolledFull, QuotaInv
  <2> QED BY <1>1, <2>4, <2>5 DEF DoorPollReady
<1>2. ASSUME NEW s \in Services, DoorCall(s) PROVE DoorInv'
  <2>1. asked[s] \in Tenants \X Shares
    BY <1>2 DEF DoorCall
  <2>2. Refuse(asked[s][1], asked[s][2]) \/ Admit(asked[s][1], asked[s][2])
    BY <1>2 DEF DoorCall, Throttled, Overloaded, Forwarded
  <2>3. QuotaInv'
    BY <2>1, <2>2, CountKeepsQuota
  <2>4. /\ store' = store /\ mayCall' = mayCall /\ found' = found
        /\ asked' = [asked EXCEPT ![s] = Nobody]
    BY <1>2 DEF DoorCall
  <2>5. \/ ready' = ready /\ reserved' = reserved
        \/ ready' = ready \ {s} /\ reserved' = reserved \ {s}
    BY <1>2 DEF DoorCall, Throttled, Overloaded, Forwarded, Call, vars
  <2>6. TurnedAway'
    <3> SUFFICES ASSUME NEW u \in Services, u \in mayCall' \/ asked'[u] # Nobody
                 PROVE  /\ asked'[u] # Nobody => u \notin mayCall'
                        /\ u \in ready' \/ found'[u] \in {"full", "pending"}
      OBVIOUS
    <3>1. u # s
      BY <1>2, <2>4 DEF DoorCall
    <3> QED BY <2>4, <2>5, <3>1
  <2> QED BY <2>3, <2>4, <2>5, <2>6 DEF QuotaInv
<1>3. ASSUME NEW s \in Services, DoorDrop(s) PROVE DoorInv'
  <2>1. QuotaInv'
    BY <1>3 DEF DoorDrop, quotaVars, QuotaInv, QuotaTypeOK,
       RefusedIsShareOfRun, EndedRunsInBudget
  <2>2. reserved \ {s} \subseteq reserved'
    BY <1>3 DEF DoorDrop, DropService, DropReserved, DropWaiting
  <2> QED BY <1>3, <2>1, <2>2 DEF DoorDrop, QuotaInv
<1>4. CASE LimitStep
  <2>1. reserved' = reserved
    BY <1>4 DEF LimitStep, DropCall, SetterStep, MoveUnit, SwapLimit, Complete
  <2> QED BY <1>4, <2>1 DEF LimitStep, doorVars, quotaVars, QuotaInv, QuotaTypeOK,
     RefusedIsShareOfRun, EndedRunsInBudget
<1>5. ASSUME NEW s \in Services, NEW t \in Tenants, DropPct(s, t) PROVE DoorInv'
  <2>1. QuotaInv' /\ reserved' = reserved
    BY <1>5 DEF DropPct, vars, quotaVars, QuotaInv, QuotaTypeOK,
       RefusedIsShareOfRun, EndedRunsInBudget
  <2>2. store[t] \in Shares
    OBVIOUS
  <2> QED BY <1>5, <2>1, <2>2 DEF DropPct, QuotaInv
<1>6. ASSUME NEW t \in Tenants, SetShare(t) PROVE DoorInv'
  <2>1. QuotaInv' /\ reserved' = reserved
    BY <1>6 DEF SetShare, vars, quotaVars, QuotaInv, QuotaTypeOK,
       RefusedIsShareOfRun, EndedRunsInBudget
  <2> QED BY <1>6, <2>1 DEF SetShare, QuotaInv
<1>7. CASE UNCHANGED allVars
  BY <1>7 DEF allVars, vars, doorVars, quotaVars, QuotaInv, QuotaTypeOK,
     RefusedIsShareOfRun, EndedRunsInBudget
<1> QED BY <1>1, <1>2, <1>3, <1>4, <1>5, <1>6, <1>7 DEF DoorNext

(* The invariant of the stack, on top of the limit's.                       *)
LEMMA DoorInvHolds == DoorSpec => []DoorInv
<1>1. IInv => TypeOK  BY DEF IInv
<1> QED BY <1>1, DoorInitInv, DoorNextInv, LimitIInvHolds, PTL DEF DoorSpec

(* The state of the stack keeps its types.                                  *)
THEOREM DoorTypeCorrect == DoorSpec => []DoorTypeOK
<1>1. DoorInv => DoorTypeOK  BY DEF DoorInv
<1> QED BY <1>1, DoorInvHolds, PTL

(* A service that says it is ready holds its slot, and the innermost        *)
(* service has just agreed: no forwarded call() panics.                     *)
THEOREM FlagNeverStale == DoorSpec => []ReadyIsCurrent
<1>1. DoorInv => ReadyIsCurrent  BY DEF DoorInv
<1> QED BY <1>1, DoorInvHolds, PTL

(* The refusals of every run are its share of the calls, rounded down.      *)
THEOREM RefusalsAreTheShare == DoorSpec => []RefusedIsShareOfRun
<1>1. DoorInv => RefusedIsShareOfRun  BY DEF DoorInv, QuotaInv
<1> QED BY <1>1, DoorInvHolds, PTL

(* Never are more of a tenant's calls refused than their shares add up to.  *)
THEOREM RefusalsWithinShares == DoorSpec => []NeverOverRefused
<1>1. QuotaInv => NeverOverRefused
  <2> SUFFICES ASSUME QuotaInv, NEW t \in Tenants
               PROVE  ledger[t].refused * Scale <= ledger[t].due
    BY DEF NeverOverRefused
  <2> DEFINE run == runs[t]
  <2>1. /\ run \in [share : 0..Scale \cup {NaN}, seen : Nat, refused : Nat]
        /\ ledger[t] \in [calls : Nat, due : Nat, refused : Nat]
    BY DEF QuotaInv, QuotaTypeOK
  <2>2. CASE run.share = NaN
    BY <2>2 DEF QuotaInv, EndedRunsInBudget
  <2>3. CASE run.share # NaN
    <3>1. /\ (ledger[t].refused - run.refused) * Scale <= ledger[t].due - run.seen * run.share
          /\ run.refused * Scale <= run.seen * run.share
      BY <2>3 DEF QuotaInv, EndedRunsInBudget, RefusedIsShareOfRun
    <3>2. (ledger[t].refused - run.refused) * Scale
            = ledger[t].refused * Scale - run.refused * Scale
      BY <2>1, QuotaAssumption
    <3>3. /\ run.share \in Nat /\ run.seen * run.share \in Int
          /\ run.refused * Scale \in Int /\ ledger[t].refused * Scale \in Int
      BY <2>1, <2>3, QuotaAssumption
    <3> QED BY <2>1, <3>1, <3>2, <3>3
  <2> QED BY <2>2, <2>3
<1>2. DoorInv => QuotaInv  BY DEF DoorInv
<1> QED BY <1>1, <1>2, DoorInvHolds, PTL
-----------------------------------------------------------------------------
(* A poll that finds the limit full finds no permit.                        *)
LEMMA FullMeansNoPermit ==
  ASSUME IInv, NEW s \in Services, PolledFull(s)
  PROVE  Cardinality(Taken) + Cardinality(adding) + Cardinality(UnitsUp) >= limit
<1>1. ASSUME PollReady(s), s \in Waiting', s \notin Waiting PROVE permits = 0
  <2>1. ASSUME queue' = queue PROVE FALSE
    BY <1>1, <2>1 DEF Waiting
  <2> QED BY <1>1, <2>1 DEF PollReady, Acquired, Enqueued, ForgetPermit
<1>2. ASSUME s \in Waiting PROVE permits = 0
  <2>1. queue # <<>>
    BY <1>2 DEF Waiting, ToSet
  <2> QED BY <2>1 DEF IInv, NoIdlePermit
<1>3. permits = 0
  BY <1>1, <1>2 DEF PolledFull
<1>4. /\ Cardinality(Taken) \in Nat /\ Cardinality(adding) \in Nat
      /\ Cardinality(UnitsUp) \in Nat /\ Cardinality(UnitsDown) \in Nat
      /\ Cardinality(owing) \in Nat /\ debt \in Nat /\ limit \in Int
  BY Finiteness, FS_CardinalityType, LimitAssumption DEF IInv, TypeOK
<1> QED BY <1>3, <1>4 DEF IInv, Conservation

(* A request is shed only if its service was turned away when it was last   *)
(* polled: by the innermost service, or by a limit whose whole ceiling is   *)
(* taken or on its way.                                                     *)
THEOREM ShedsWhoWasTurnedAway == DoorSpec => ShedsOnlyTurnedAway
<1>1. IInv /\ DoorInv /\ [DoorNext]_allVars =>
        [\A s \in Services :
           /\ DoorPollReady(s) /\ PolledFull(s) =>
                Cardinality(Taken) + Cardinality(adding) + Cardinality(UnitsUp) >= limit
           /\ DoorCall(s) /\ Overloaded(s) => found[s] \in {"full", "pending"}
        ]_allVars
  <2> SUFFICES ASSUME IInv, DoorInv, NEW s \in Services
               PROVE  /\ PolledFull(s) =>
                           Cardinality(Taken) + Cardinality(adding) + Cardinality(UnitsUp) >= limit
                      /\ DoorCall(s) /\ Overloaded(s) => found[s] \in {"full", "pending"}
    OBVIOUS
  <2>1. ASSUME DoorCall(s), Overloaded(s) PROVE found[s] \in {"full", "pending"}
    BY <2>1 DEF DoorCall, Overloaded, DoorInv, TurnedAway
  <2> QED BY <2>1, FullMeansNoPermit
<1> QED BY <1>1, LimitIInvHolds, DoorInvHolds, PTL DEF DoorSpec, ShedsOnlyTurnedAway
=============================================================================
