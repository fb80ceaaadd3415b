---------------------------- MODULE ControllerProofs ----------------------------
(***************************************************************************)
(* Proofs about Controller: what it does to the limit is what any thread   *)
(* that calls set() may do, so the limit's invariants hold; and alone it   *)
(* never takes for use of the ceiling what is not, and moves the ceiling   *)
(* only where the load calls for it.                                       *)
(***************************************************************************)
EXTENDS Controller, ConcurrencyLimitProofs

-----------------------------------------------------------------------------
(* step() moves by a unit at least.                                         *)
LEMMA DeltaIsPositive ==
  ASSUME NEW n \in Nat, NEW f \in -Whole..Whole
  PROVE  Delta(n, f) \in Nat /\ Delta(n, f) >= 1
<1> DEFINE g == IF f < 0 THEN -f ELSE f
           part == (n * g) \div Whole
<1>1. \A x, y \in Nat : y > 0 => x \div y \in Nat
  OBVIOUS
<1>2. Whole \in Nat /\ Whole > 0
  BY ControlAssumption
<1>3. g \in Nat
  BY <1>2
<1> HIDE DEF g
<1>4. n * g \in Nat
  BY <1>3
<1>5. part \in Nat
  BY <1>1, <1>2, <1>4
<1>6. Delta(n, f) = IF part = 0 THEN 1 ELSE part
  BY DEF Delta, g
<1> HIDE DEF part
<1> QED BY <1>5, <1>6

(* step() stays between the two limits of the configuration.                *)
LEMMA MovedInRange ==
  ASSUME NEW n \in Nat, NEW f \in -Whole..Whole
  PROVE  Moved(n, f) \in MinLimit..MaxLimit
<1> DEFINE moved == IF f < 0 THEN n - Delta(n, f) ELSE n + Delta(n, f)
<1>1. Delta(n, f) \in Nat
  BY DeltaIsPositive
<1>2. moved \in Int
  BY <1>1
<1>3. Moved(n, f) = CASE moved < MinLimit -> MinLimit
                      [] moved > MaxLimit -> MaxLimit
                      [] OTHER -> moved
  BY DEF Moved
<1> HIDE DEF moved
<1> QED BY <1>2, <1>3, ControlAssumption

(* Smoothing takes the load towards the sample, and not past it.            *)
LEMMA SmoothedInRange ==
  ASSUME load \in 0..MaxLoad, NEW x \in 0..MaxLoad
  PROVE  Smoothed(x) \in 0..MaxLoad
<1>1. Smoothing \in Nat /\ Whole \in Nat /\ Whole > 0 /\ Smoothing <= Whole /\ MaxLoad \in Nat
  BY ControlAssumption
<1>2. ASSUME NEW d \in Nat
      PROVE  (Smoothing * d) \div Whole \in 0..d
  <2>1. \A a, b, e \in Nat : a <= b => a * e <= b * e
    OBVIOUS
  <2>2. /\ Smoothing * d <= Whole * d
        /\ Smoothing * d \in Nat /\ Whole * d \in Nat
    BY <1>1, <2>1
  <2>3. \A a, b, e \in Nat : b > 0 /\ a <= b * e => a \div b \in Nat /\ a \div b <= e
    OBVIOUS
  <2> QED BY <1>1, <2>2, <2>3
<1>3. CASE x >= load
  <2>1. x - load \in Nat
    BY <1>1, <1>3
  <2>2. (Smoothing * (x - load)) \div Whole \in 0..(x - load)
    BY <1>2, <2>1
  <2> DEFINE moved == (Smoothing * (x - load)) \div Whole
  <2>3. Smoothed(x) = load + moved
    BY <1>3 DEF Smoothed
  <2> HIDE DEF moved
  <2> QED BY <1>1, <2>2, <2>3 DEF moved
<1>4. CASE ~(x >= load)
  <2>1. load - x \in Nat
    BY <1>1, <1>4
  <2>2. (Smoothing * (load - x)) \div Whole \in 0..(load - x)
    BY <1>2, <2>1
  <2> DEFINE moved == (Smoothing * (load - x)) \div Whole
  <2>3. Smoothed(x) = load - moved
    BY <1>4 DEF Smoothed
  <2> HIDE DEF moved
  <2> QED BY <1>1, <2>2, <2>3 DEF moved
<1> QED BY <1>3, <1>4

(* Whatever the controller does, the limit does a step of its own or none.  *)
LEMMA ControllerStepIsLimitStep ==
  ControllerTypeOK /\ [ControllerNext]_controllerVars => [Next]_vars
<1> SUFFICES ASSUME ControllerTypeOK, [ControllerNext]_controllerVars PROVE [Next]_vars
  OBVIOUS
<1> DEFINE cc == Controller
<1>1. cc \in Setters /\ MinLimit..MaxLimit \subseteq Limits
      /\ -Decrease \in -Whole..Whole /\ Increase \in -Whole..Whole
  BY ControlAssumption
<1>2. seen \in Nat
  BY LimitAssumption DEF ControllerTypeOK
<1>3. ASSUME NEW n \in MinLimit..MaxLimit, SetTo(n) PROVE [Next]_vars
  BY <1>1, <1>3 DEF SetTo, Next, SetterStep
<1>4. CASE Lower
  BY <1>1, <1>2, <1>3, <1>4, MovedInRange DEF Lower
<1>5. CASE Raise
  BY <1>1, <1>2, <1>3, <1>5, MovedInRange DEF Raise
<1>6. CASE LimitStep
  BY <1>1, <1>6 DEF LimitStep, Next, SetterStep
<1>7. CASE Observe \/ ReadAvailable \/ UNCHANGED controllerVars
  BY <1>7 DEF Observe, ReadAvailable, controllerVars
<1> QED BY <1>4, <1>5, <1>6, <1>7 DEF ControllerNext

(* Between two observations the controller has finished its set().          *)
SetIsOver == stage # "idle" => todo[Controller] = 0 /\ Controller \notin Midway

(* If nobody else calls set(), the ceiling it read is the one in force.     *)
SeenIsCurrent == stage # "idle" => seen = limit

ControllerInv == IInv /\ ControllerTypeOK /\ SetIsOver

(* The invariant of the controller, on top of the limit's.                  *)
LEMMA ControllerInvHolds == ControllerSpec => []ControllerInv
<1>1. ControllerInit => ControllerInv
  BY InitIInv, ControlAssumption
     DEF ControllerInit, ControllerInv, ControllerTypeOK, IInv, SetIsOver
<1>2. ControllerInv /\ [ControllerNext]_controllerVars => ControllerInv'
  <2> SUFFICES ASSUME ControllerInv, [ControllerNext]_controllerVars PROVE ControllerInv'
    OBVIOUS
  <2> DEFINE cc == Controller
  <2>1. IInv' /\ TypeOK' /\ cc \in Setters
    BY ControllerStepIsLimitStep, NextIInv, ControlAssumption DEF ControllerInv, IInv
  <2>2. CASE Observe
    <3>1. load' \in 0..MaxLoad /\ sample' \in Samples
      <4>1. sample' \in Samples /\ load' = Smoothed(sample')
        BY <2>2 DEF Observe
      <4>2. sample' \in 0..MaxLoad
        BY <4>1, ControlAssumption
      <4>3. Smoothed(sample') \in 0..MaxLoad
        BY <4>2, SmoothedInRange DEF ControllerInv, ControllerTypeOK
      <4> QED BY <4>1, <4>3
    <3> QED BY <2>1, <2>2, <3>1, ControlAssumption
            DEF Observe, ControllerInv, ControllerTypeOK, SetIsOver, IInv, TypeOK,
                vars, debtVars, Midway
  <2>3. CASE ReadAvailable
    BY <2>1, <2>3, ControlAssumption
       DEF ReadAvailable, ControllerInv, ControllerTypeOK, SetIsOver, vars, debtVars, Midway
  <2>4. CASE Lower \/ Raise
    BY <2>1, <2>4 DEF Lower, Raise, SetTo, ControllerInv, ControllerTypeOK, SetIsOver
  <2>5. CASE LimitStep
    <3>1. SetIsOver'
      <4> SUFFICES ASSUME stage # "idle" PROVE todo'[cc] = 0 /\ cc \notin Midway'
        BY <2>5 DEF LimitStep, controlVars, SetIsOver
      <4> USE <2>1 DEF ControllerInv, IInv, TypeOK, SetIsOver
      <4>0. /\ todo[cc] = 0 /\ cc \notin owing /\ cc \notin adding
            /\ cc \notin Services \cup Calls
        BY LimitAssumption DEF Midway
      <4>1. ASSUME NEW s \in Services, ServiceStep(s) PROVE todo'[cc] = 0 /\ cc \notin Midway'
        BY <4>0, <4>1 DEF ServiceStep, PollReady, DropService, DropReserved,
           DropWaiting, Call, Release, debtVars, Midway
      <4>2. ASSUME NEW c \in Calls, DropCall(c) PROVE todo'[cc] = 0 /\ cc \notin Midway'
        BY <4>0, <4>2 DEF DropCall, Release, Midway
      <4>3. ASSUME NEW t \in Setters \ {cc}, SetterStep(t)
            PROVE  todo'[cc] = 0 /\ cc \notin Midway'
        BY <4>0, <4>3 DEF SetterStep, MoveUnit, SwapLimit, Release, Acquire,
           ForgetPermit, debtVars, Midway
      <4>4. ASSUME NEW a \in Actors, Complete(a) PROVE todo'[cc] = 0 /\ cc \notin Midway'
        BY <4>0, <4>4 DEF Complete, Owe, Add, Midway
      <4>5. ~MoveUnit(cc)
        BY <4>0 DEF MoveUnit
      <4> QED BY <2>5, <4>1, <4>2, <4>3, <4>4, <4>5 DEF LimitStep
    <3> QED BY <2>1, <2>5, <3>1 DEF LimitStep, controlVars, ControllerInv, ControllerTypeOK
  <2>6. CASE UNCHANGED controllerVars
    BY <2>1, <2>6 DEF controllerVars, controlVars, vars, debtVars, Midway,
       ControllerInv, ControllerTypeOK, SetIsOver
  <2> QED BY <2>2, <2>3, <2>4, <2>5, <2>6 DEF ControllerNext
<1> QED BY <1>1, <1>2, PTL DEF ControllerSpec

(* The controller's state keeps its types: the ceilings it sets are in the  *)
(* range of its configuration, the debt is never negative.                  *)
THEOREM ControllerTypeCorrect == ControllerSpec => []ControllerTypeOK
<1>1. ControllerInv => ControllerTypeOK  BY DEF ControllerInv
<1> QED BY <1>1, ControllerInvHolds, PTL

(* The limit under the controller implements the limit's specification.     *)
THEOREM ControllerImplementsLimit == ControllerSpec => Spec
<1>1. ControllerInit => Init  BY DEF ControllerInit
<1>2. ControllerInv => ControllerTypeOK  BY DEF ControllerInv
<1> QED BY <1>1, <1>2, ControllerStepIsLimitStep, ControllerInvHolds, PTL
        DEF ControllerSpec, Spec

(* A controller that is alone never lets more slots be in use than its      *)
(* highest ceiling, whatever requests do while it looks and sets.           *)
THEOREM ControllerWithinHighestCeiling ==
  OneSetter => (ControllerSpec => []WithinHighestCeiling)
<1> SUFFICES ASSUME OneSetter PROVE ControllerSpec => []WithinHighestCeiling
  OBVIOUS
<1>1. Spec => []WithinHighestCeiling
  BY OneSetterWithinHighestCeiling
<1> QED BY <1>1, ControllerImplementsLimit, PTL

(* With other callers of set() about, the slots in use beside a controller  *)
(* stay within one highest ceiling for each of them and it.                 *)
THEOREM ControllerWithinCeilings == ControllerSpec => []WithinCeilingPerSetter
BY ControllerImplementsLimit, SettersWithinCeilings, PTL
-----------------------------------------------------------------------------
(* Alone, the controller acts on the ceiling it read.                       *)
LEMMA SeenHolds == OneSetter => (ControllerSpec => []SeenIsCurrent)
<1> SUFFICES ASSUME OneSetter PROVE ControllerSpec => []SeenIsCurrent
  OBVIOUS
<1>1. ControllerInit => SeenIsCurrent
  BY DEF ControllerInit, SeenIsCurrent
<1>2. SeenIsCurrent /\ [ControllerNext]_controllerVars => SeenIsCurrent'
  <2> SUFFICES ASSUME SeenIsCurrent, [ControllerNext]_controllerVars PROVE SeenIsCurrent'
    OBVIOUS
  <2>1. CASE LimitStep
    <3>1. Setters \ {Controller} = {}
      BY ControlAssumption DEF OneSetter
    <3>2. limit' = limit
      BY <2>1, <3>1 DEF LimitStep, ServiceStep, PollReady, DropService, DropReserved,
         DropWaiting, Call, DropCall, MoveUnit, Complete
    <3> QED BY <2>1, <3>2 DEF LimitStep, controlVars, SeenIsCurrent
  <2>2. CASE UNCHANGED controllerVars
    BY <2>2 DEF controllerVars, controlVars, vars, SeenIsCurrent
  <2> QED BY <2>1, <2>2 DEF ControllerNext, Observe, ReadAvailable, Lower, Raise,
             SetTo, SeenIsCurrent, vars
<1> QED BY <1>1, <1>2, PTL DEF ControllerSpec

(* Alone, the controller goes for a higher ceiling only when the required   *)
(* share of the present one is taken or just being given back.              *)
THEOREM ControllerRaisesOnlyInUse == OneSetter => (ControllerSpec => RaisesOnlyInUse)
<1> SUFFICES ASSUME OneSetter PROVE ControllerSpec => RaisesOnlyInUse
  OBVIOUS
<1> DEFINE P == stage' = "raise" /\ stage # "raise" =>
                  (Cardinality(Taken) + Cardinality(adding)) * Whole
                    >= (Whole - Distance) * limit
<1>1. ControllerInv /\ SeenIsCurrent /\ [ControllerNext]_controllerVars
        => [P]_controllerVars
  <2> SUFFICES ASSUME ControllerInv, SeenIsCurrent, [ControllerNext]_controllerVars,
                      stage' = "raise", stage # "raise"
               PROVE  (Cardinality(Taken) + Cardinality(adding)) * Whole
                        >= (Whole - Distance) * limit
    OBVIOUS
  <2> DEFINE used == Cardinality(Taken) + Cardinality(adding)
  <2>1. stage = "calm" /\ Saturated(limit)
    BY DEF ControllerNext, Observe, ReadAvailable, Lower, Raise, SetTo, LimitStep,
       controllerVars, controlVars, SeenIsCurrent
  <2>2. todo[Controller] = 0 /\ Controller \notin owing
    BY <2>1 DEF ControllerInv, SetIsOver, Midway
  <2>3. UnitsUp = {} /\ UnitsDown = {} /\ owing = {}
    BY <2>2, ControlAssumption, LimitAssumption
       DEF OneSetter, UnitsUp, UnitsDown, ControllerInv, IInv, TypeOK
  <2>4. /\ Cardinality(UnitsUp) = 0 /\ Cardinality(UnitsDown) = 0
        /\ Cardinality(owing) = 0
    BY <2>3, FS_EmptySet
  <2>5. /\ Cardinality(Taken) \in Nat /\ Cardinality(adding) \in Nat
        /\ permits \in Nat /\ debt \in Nat /\ limit \in Nat
    BY Finiteness, FS_CardinalityType, LimitAssumption DEF ControllerInv, IInv, TypeOK
  <2>6. permits + used = limit + debt
    BY <2>4, <2>5 DEF ControllerInv, IInv, Conservation
  <2>7. Usage(limit) \in Nat /\ Usage(limit) <= used /\ used \in Nat
    BY <2>5, <2>6 DEF Usage
  <2>8. Usage(limit) * Whole >= (Whole - Distance) * limit
    BY <2>1 DEF Saturated
  <2> HIDE DEF used
  <2>9. ASSUME NEW u \in Nat, NEW v \in Nat, u <= v PROVE u * Whole <= v * Whole
    BY <2>9, ControlAssumption
  <2>10. /\ Usage(limit) * Whole \in Int /\ used * Whole \in Int
         /\ (Whole - Distance) * limit \in Int
    BY <2>5, <2>7, ControlAssumption
  <2>11. used * Whole >= (Whole - Distance) * limit
    BY <2>7, <2>8, <2>9, <2>10
  <2> QED BY <2>11 DEF used
<1> QED BY <1>1, ControllerInvHolds, SeenHolds, PTL DEF ControllerSpec, RaisesOnlyInUse
-----------------------------------------------------------------------------
(* step() really moves: down, for a fraction below zero, from any ceiling   *)
(* above the minimum, up, for any other, from any below the maximum, and the *)
(* other way only to get back in range.                                     *)
LEMMA MovedMoves ==
  ASSUME NEW n \in Nat, NEW f \in -Whole..Whole
  PROVE  /\ f < 0 => /\ n > MinLimit => Moved(n, f) < n
                     /\ Moved(n, f) > n => n < MinLimit
         /\ f >= 0 => /\ n < MaxLimit => Moved(n, f) > n
                      /\ Moved(n, f) < n => n > MaxLimit
<1> DEFINE delta == Delta(n, f)
           Clamped(m) == CASE m < MinLimit -> MinLimit
                           [] m > MaxLimit -> MaxLimit
                           [] OTHER -> m
<1>1. delta \in Nat /\ delta >= 1
  BY DeltaIsPositive
<1>2. f \in Int
  BY ControlAssumption
<1>3. /\ f < 0 => Moved(n, f) = Clamped(n - delta)
      /\ f >= 0 => Moved(n, f) = Clamped(n + delta)
  BY <1>2 DEF Moved
<1>4. /\ MinLimit \in Int /\ MaxLimit \in Int /\ MinLimit <= MaxLimit
      /\ n - delta \in Int /\ n - delta < n /\ n + delta \in Int /\ n + delta > n
  BY <1>1, ControlAssumption
<1>5. ASSUME NEW m \in Int
      PROVE  /\ m < MinLimit => Clamped(m) = MinLimit
             /\ m > MaxLimit => Clamped(m) = MaxLimit
             /\ ~(m < MinLimit) /\ ~(m > MaxLimit) => Clamped(m) = m
  BY <1>4
<1> HIDE DEF delta, Clamped
<1>6. /\ n > MinLimit => Clamped(n - delta) < n
      /\ Clamped(n - delta) > n => n < MinLimit
  BY <1>4, <1>5
<1>7. /\ n < MaxLimit => Clamped(n + delta) > n
      /\ Clamped(n + delta) < n => n > MaxLimit
  BY <1>4, <1>5
<1> QED BY <1>3, <1>6, <1>7

(* What an observation has decided to do is what the load calls for.        *)
DecidedByLoad ==
  /\ stage = "lower" => load >= Target
  /\ stage \in {"calm", "raise"} => load < Target

(* The decision and the load it rests on stay together until it is done.    *)
LEMMA DecidedHolds == ControllerSpec => []DecidedByLoad
<1>1. ControllerInit => DecidedByLoad
  BY DEF ControllerInit, DecidedByLoad
<1>2. ControllerInv' /\ DecidedByLoad /\ [ControllerNext]_controllerVars => DecidedByLoad'
  <2> SUFFICES ASSUME ControllerInv', DecidedByLoad, [ControllerNext]_controllerVars
               PROVE  DecidedByLoad'
    OBVIOUS
  <2>1. CASE Observe
    <3>1. load' \in Int /\ Target \in Int
      BY ControlAssumption DEF ControllerInv, ControllerTypeOK
    <3> QED BY <2>1, <3>1 DEF Observe, DecidedByLoad
  <2> QED BY <2>1 DEF ControllerNext, ReadAvailable, Lower, Raise, SetTo, LimitStep,
             controllerVars, controlVars, DecidedByLoad
<1> QED BY <1>1, <1>2, ControllerInvHolds, PTL DEF ControllerSpec

(* The ceiling of a controller that is alone follows the load: an overload  *)
(* lowers it by at least a unit until it is at the minimum, a raise raises  *)
(* it by at least a unit up to the maximum, and it goes down only under     *)
(* overload and up only below the target, or to get back into its range.    *)
(* The configuration asks for a decrease: with a decrease of 0 the code     *)
(* raises the ceiling under overload.                                       *)
THEOREM CeilingFollowsLoad ==
  OneSetter /\ Decrease > 0 =>
    (ControllerSpec =>
       [][/\ Lower /\ limit > MinLimit => limit' < limit
          /\ Raise /\ limit < MaxLimit => limit' > limit
          /\ limit' < limit => load >= Target \/ limit > MaxLimit
          /\ limit' > limit => load < Target \/ limit < MinLimit]_controllerVars)
<1> SUFFICES ASSUME OneSetter, Decrease > 0
             PROVE  ControllerSpec =>
                      [][/\ Lower /\ limit > MinLimit => limit' < limit
                         /\ Raise /\ limit < MaxLimit => limit' > limit
                         /\ limit' < limit => load >= Target \/ limit > MaxLimit
                         /\ limit' > limit => load < Target \/ limit < MinLimit
                        ]_controllerVars
  OBVIOUS
<1>1. ControllerInv /\ SeenIsCurrent /\ DecidedByLoad /\ [ControllerNext]_controllerVars
        => [/\ Lower /\ limit > MinLimit => limit' < limit
            /\ Raise /\ limit < MaxLimit => limit' > limit
            /\ limit' < limit => load >= Target \/ limit > MaxLimit
            /\ limit' > limit => load < Target \/ limit < MinLimit]_controllerVars
  <2> SUFFICES ASSUME ControllerInv, SeenIsCurrent, DecidedByLoad, ControllerNext
               PROVE  /\ Lower /\ limit > MinLimit => limit' < limit
                      /\ Raise /\ limit < MaxLimit => limit' > limit
                      /\ limit' < limit => load >= Target \/ limit > MaxLimit
                      /\ limit' > limit => load < Target \/ limit < MinLimit
    OBVIOUS
  <2>1. /\ limit \in Nat /\ load \in Int /\ Target \in Int
        /\ MinLimit \in Nat /\ MaxLimit \in Nat
        /\ -Decrease \in -Whole..Whole /\ -Decrease < 0
        /\ Increase \in -Whole..Whole /\ Increase >= 0
    BY LimitAssumption, ControlAssumption DEF ControllerInv, ControllerTypeOK, TypeOK
  <2>2. ASSUME NEW n, SetTo(n) PROVE limit' = n
    BY <2>2 DEF SetTo, SwapLimit, vars
  <2>3. ASSUME Lower PROVE limit' = Moved(limit, -Decrease) /\ load >= Target
                            /\ stage # "raise"
    BY <2>2, <2>3 DEF Lower, SeenIsCurrent, DecidedByLoad
  <2>4. ASSUME Raise PROVE limit' = Moved(limit, Increase) /\ load < Target
                            /\ stage # "lower"
    BY <2>2, <2>4 DEF Raise, SeenIsCurrent, DecidedByLoad
  <2>5. ASSUME ~Lower, ~Raise PROVE limit' = limit
    <3>1. CASE LimitStep
      <4>1. Setters \ {Controller} = {}
        BY ControlAssumption DEF OneSetter
      <4> QED BY <3>1, <4>1 DEF LimitStep, ServiceStep, PollReady, DropService,
                 DropReserved, DropWaiting, Call, DropCall, MoveUnit, Complete
    <3>2. CASE Observe \/ ReadAvailable
      BY <3>2 DEF Observe, ReadAvailable, vars
    <3> QED BY <2>5, <3>1, <3>2 DEF ControllerNext
  <2>6. CASE Lower
    <3>1. ~Raise
      BY <2>3, <2>6 DEF Raise
    <3>2. /\ limit > MinLimit => Moved(limit, -Decrease) < limit
          /\ Moved(limit, -Decrease) > limit => limit < MinLimit
      BY <2>1, MovedMoves
    <3>3. limit' = Moved(limit, -Decrease) /\ load >= Target
      BY <2>3, <2>6
    <3> QED BY <3>1, <3>2, <3>3
  <2>7. CASE Raise
    <3>1. ~Lower
      BY <2>4, <2>7 DEF Lower
    <3>2. /\ limit < MaxLimit => Moved(limit, Increase) > limit
          /\ Moved(limit, Increase) < limit => limit > MaxLimit
      BY <2>1, MovedMoves
    <3>3. limit' = Moved(limit, Increase) /\ load < Target
      BY <2>4, <2>7
    <3> QED BY <3>1, <3>2, <3>3
  <2>8. CASE ~Lower /\ ~Raise
    BY <2>1, <2>5, <2>8
  <2> QED BY <2>6, <2>7, <2>8
<1> QED BY <1>1, ControllerInvHolds, SeenHolds, DecidedHolds, PTL DEF ControllerSpec
=============================================================================
