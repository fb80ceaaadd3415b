------------------------ MODULE ConcurrencyLimitProofs ------------------------
(***************************************************************************)
(* Proofs about ConcurrencyLimit, for any number of services, calls and    *)
(* setters and any ceilings.  The invariant IInv is inductive: Exclusive   *)
(* and NoIdlePermit are what make every move of a unit a move between two  *)
(* disjoint places, so that Conservation can count it.  What setters that  *)
(* overtake each other book beyond a ceiling is what the others have in    *)
(* hand (Pace).  On one thread, where SerialInv holds as well, the limiter *)
(* implements IdealLimit.                                                  *)
(***************************************************************************)
EXTENDS SerialLimit, SemaphoreFacts, FiniteSetTheorems, WellFoundedInduction

-----------------------------------------------------------------------------
(* There are finitely many tokens for units to move.                        *)
LEMMA TokensFinite == IsFiniteSet(Setters \X (1..MaxPermits))
<1> DEFINE B == 1..MaxPermits
<1>1. IsFiniteSet(B)
  BY LimitAssumption, FS_Interval
<1> HIDE DEF B
<1>2. IsFiniteSet(Setters \X B)
  BY <1>1, LimitAssumption, FS_Product
<1> QED BY <1>2 DEF B

(* Everything Conservation counts is finite.                                *)
LEMMA Finiteness ==
  ASSUME TypeOK
  PROVE  /\ IsFiniteSet(granted) /\ IsFiniteSet(Taken)
         /\ IsFiniteSet(adding) /\ IsFiniteSet(owing)
         /\ IsFiniteSet(UnitsUp) /\ IsFiniteSet(UnitsDown)
<1>1. IsFiniteSet(Services \cup Calls) /\ IsFiniteSet(Actors)
  BY LimitAssumption, FS_Union DEF Actors
<1>2. /\ Taken \in SUBSET (Services \cup Calls)
      /\ granted \in SUBSET (Services \cup Calls)
      /\ adding \in SUBSET Actors /\ owing \in SUBSET Actors
  BY DEF TypeOK, Taken, Actors
<1>3. IsFiniteSet(Setters \X (1..MaxPermits))
  BY TokensFinite
<1>4. /\ UnitsUp \in SUBSET (Setters \X (1..MaxPermits))
      /\ UnitsDown \in SUBSET (Setters \X (1..MaxPermits))
  BY DEF UnitsUp, UnitsDown
<1>5. IsFiniteSet(Taken) /\ IsFiniteSet(granted)
  BY <1>1, <1>2, FS_Subset
<1>6. IsFiniteSet(adding) /\ IsFiniteSet(owing)
  BY <1>1, <1>2, FS_Subset
<1>7. IsFiniteSet(UnitsUp) /\ IsFiniteSet(UnitsDown)
  BY <1>3, <1>4, FS_Subset
<1> QED BY <1>5, <1>6, <1>7

(* k tokens for the k units one setter still has to move.                   *)
LEMMA TokenCount ==
  ASSUME NEW t, NEW k \in Nat
  PROVE  IsFiniteSet({t} \X (1..k)) /\ Cardinality({t} \X (1..k)) = k
<1> DEFINE A == {t}
           B == 1..k
<1>1. IsFiniteSet(A) /\ Cardinality(A) = 1
  BY FS_Singleton
<1>2. IsFiniteSet(B) /\ Cardinality(B) = k
  BY FS_Interval
<1> HIDE DEF A, B
<1>3. IsFiniteSet(A \X B) /\ Cardinality(A \X B) = Cardinality(A) * Cardinality(B)
  BY <1>1, <1>2, FS_Product
<1>4. IsFiniteSet(A \X B) /\ Cardinality(A \X B) = k
  BY <1>1, <1>2, <1>3
<1> QED BY <1>4 DEF A, B

(* Two disjoint finite sets are counted one after the other.                *)
LEMMA DisjointUnion ==
  ASSUME NEW S, NEW T, IsFiniteSet(S), IsFiniteSet(T), S \cap T = {}
  PROVE  Cardinality(S \cup T) = Cardinality(S) + Cardinality(T)
<1>1. Cardinality(S \cup T)
        = Cardinality(S) + Cardinality(T) - Cardinality(S \cap T)
  BY FS_Union
<1>2. Cardinality(S) \in Nat /\ Cardinality(T) \in Nat
  BY FS_CardinalityType
<1>3. Cardinality(S \cap T) = 0
  BY FS_EmptySet
<1> QED BY <1>1, <1>2, <1>3

(* A released unit is one token fewer to release, and none to acquire.      *)
LEMMA ReleasedUnit ==
  ASSUME TypeOK, NEW t \in Setters, todo[t] > 0,
         todo' = [todo EXCEPT ![t] = @ - 1]
  PROVE  /\ todo' \in [Setters -> -MaxPermits..MaxPermits]
         /\ Cardinality(UnitsUp') = Cardinality(UnitsUp) - 1
         /\ UnitsDown' = UnitsDown
<1> DEFINE token == <<t, todo[t]>>
<1>1. /\ todo[t] \in 1..MaxPermits /\ MaxPermits \in Nat
      /\ todo' \in [Setters -> -MaxPermits..MaxPermits]
      /\ \A u \in Setters : todo[u] \in Int
      /\ \A u \in Setters : todo'[u] = IF u = t THEN todo[t] - 1 ELSE todo[u]
  BY LimitAssumption DEF TypeOK
<1>2. token \in UnitsUp
  BY <1>1 DEF UnitsUp
<1>3. UnitsUp' = UnitsUp \ {token}
  BY <1>1 DEF UnitsUp
<1>4. UnitsDown' = UnitsDown
  BY <1>1 DEF UnitsDown
<1> QED BY <1>1, <1>2, <1>3, <1>4, Finiteness, FS_RemoveElement

(* An acquired unit is one token fewer to acquire, and none to release.     *)
LEMMA AcquiredUnit ==
  ASSUME TypeOK, NEW t \in Setters, todo[t] < 0,
         todo' = [todo EXCEPT ![t] = @ + 1]
  PROVE  /\ todo' \in [Setters -> -MaxPermits..MaxPermits]
         /\ Cardinality(UnitsDown') = Cardinality(UnitsDown) - 1
         /\ UnitsUp' = UnitsUp
<1> DEFINE token == <<t, -todo[t]>>
<1>1. /\ -todo[t] \in 1..MaxPermits /\ MaxPermits \in Nat
      /\ todo' \in [Setters -> -MaxPermits..MaxPermits]
      /\ \A u \in Setters : todo[u] \in Int
      /\ \A u \in Setters : todo'[u] = IF u = t THEN todo[t] + 1 ELSE todo[u]
  BY LimitAssumption DEF TypeOK
<1>2. token \in UnitsDown
  BY <1>1 DEF UnitsDown
<1>3. UnitsDown' = UnitsDown \ {token}
  BY <1>1 DEF UnitsDown
<1>4. UnitsUp' = UnitsUp
  BY <1>1 DEF UnitsUp
<1> QED BY <1>1, <1>2, <1>3, <1>4, Finiteness, FS_RemoveElement

(* set() opens exactly as many tokens as the ceiling moves.                 *)
LEMMA SwappedUnits ==
  ASSUME TypeOK, NEW t \in Setters, todo[t] = 0, NEW n \in Limits,
         todo' = [todo EXCEPT ![t] = n - limit]
  PROVE  /\ todo' \in [Setters -> -MaxPermits..MaxPermits]
         /\ Cardinality(UnitsUp') - Cardinality(UnitsDown')
              = Cardinality(UnitsUp) - Cardinality(UnitsDown) + (n - limit)
<1>1. /\ n \in 0..MaxPermits /\ limit \in 0..MaxPermits /\ MaxPermits \in Nat
      /\ n - limit \in -MaxPermits..MaxPermits
      /\ todo' \in [Setters -> -MaxPermits..MaxPermits]
      /\ \A u \in Setters : todo[u] \in Int
      /\ \A u \in Setters : todo'[u] = IF u = t THEN n - limit ELSE todo[u]
  BY LimitAssumption DEF TypeOK
<1>2. /\ IsFiniteSet(UnitsUp) /\ IsFiniteSet(UnitsDown)
      /\ Cardinality(UnitsUp) \in Nat /\ Cardinality(UnitsDown) \in Nat
  BY Finiteness, FS_CardinalityType
<1>3. CASE n >= limit
  <2> DEFINE new == {t} \X (1..(n - limit))
  <2>1. IsFiniteSet(new) /\ Cardinality(new) = n - limit
    <3>1. n - limit \in Nat  BY <1>1, <1>3
    <3> QED BY <3>1, TokenCount
  <2>2. UnitsUp' = UnitsUp \cup new /\ UnitsUp \cap new = {}
    BY <1>1, <1>3 DEF UnitsUp
  <2>3. UnitsDown' = UnitsDown
    BY <1>1, <1>3 DEF UnitsDown
  <2>4. Cardinality(UnitsUp') = Cardinality(UnitsUp) + (n - limit)
    BY <2>1, <2>2, <1>2, DisjointUnion
  <2> QED BY <2>3, <2>4, <1>1, <1>2
<1>4. CASE n < limit
  <2> DEFINE new == {t} \X (1..(limit - n))
  <2>1. IsFiniteSet(new) /\ Cardinality(new) = limit - n
    <3>1. limit - n \in Nat  BY <1>1, <1>4
    <3> QED BY <3>1, TokenCount
  <2>2. UnitsDown' = UnitsDown \cup new /\ UnitsDown \cap new = {}
    BY <1>1, <1>4 DEF UnitsDown
  <2>3. UnitsUp' = UnitsUp
    BY <1>1, <1>4 DEF UnitsUp
  <2>4. Cardinality(UnitsDown') = Cardinality(UnitsDown) + (limit - n)
    BY <2>1, <2>2, <1>2, DisjointUnion
  <2> QED BY <2>3, <2>4, <1>1, <1>2
<1> QED BY <1>1, <1>3, <1>4
-----------------------------------------------------------------------------
(* The invariant of the limit holds that of its semaphore.                  *)
LEMMA SemInvHolds == IInv => SemInv(Services)
BY DEF IInv, TypeOK, Exclusive, SemInv

(* The initial state: the permits are the ceiling.                          *)
LEMMA InitIInv == Init => IInv
<1> SUFFICES ASSUME Init PROVE IInv
  OBVIOUS
<1>1. TypeOK
  BY LimitAssumption DEF Init, DebtInit, SemInit, TypeOK
<1>2. Waiting = {} /\ Taken = {} /\ UnitsUp = {} /\ UnitsDown = {}
  BY DEF Init, DebtInit, SemInit, Waiting, ToSet, Taken, UnitsUp, UnitsDown
<1>3. Exclusive /\ NoIdlePermit
  BY <1>2 DEF Init, DebtInit, SemInit, Exclusive, NoIdlePermit, IsInjective
<1>4. Conservation
  BY <1>1, <1>2, FS_EmptySet
     DEF Init, DebtInit, SemInit, Conservation, TypeOK
<1> QED BY <1>1, <1>3, <1>4 DEF IInv

(* poll_ready moves a unit from the semaphore, or from the hand of the      *)
(* semaphore, to the service.                                               *)
LEMMA PollReadyIInv ==
  ASSUME IInv, NEW s \in Services, PollReady(s)
  PROVE  IInv'
<1> USE DEF IInv
<1>1. /\ s \notin reserved \cup adding
      /\ UNCHANGED <<debt, owing, adding, limit, todo, inflight>>
  BY DEF PollReady
<1>2. UNCHANGED <<UnitsUp, UnitsDown>>
  BY <1>1 DEF UnitsUp, UnitsDown
<1>3. s \notin inflight
  BY LimitAssumption DEF TypeOK
<1>4. CASE Acquired(s) /\ reserved' = reserved \cup {s}
  <2>1. /\ SemInv(Services)' /\ Waiting' = Waiting /\ s \notin granted'
        /\ \/ s \in granted /\ granted' = granted \ {s} /\ permits' = permits
           \/ /\ s \notin granted /\ granted' = granted /\ permits' = permits - 1
              /\ Waiting = {}
    BY <1>4, AcquiredFacts, SemInvHolds
  <2>2. TypeOK' /\ NoIdlePermit'
    BY <2>1, <1>1, <1>4 DEF TypeOK, SemInv
  <2>3. Exclusive'
    BY <2>1, <1>1, <1>4 DEF Exclusive, SemInv
  <2>4. Conservation'
    <3>1. CASE s \in granted
      <4>1. Taken' = Taken /\ permits' = permits
        BY <3>1, <2>1, <1>1, <1>4 DEF Taken
      <4> QED BY <4>1, <1>1, <1>2 DEF Conservation
    <3>2. CASE s \notin granted
      <4>1. Taken' = Taken \cup {s} /\ s \notin Taken /\ permits' = permits - 1
        BY <3>2, <2>1, <1>1, <1>3, <1>4 DEF Taken
      <4>2. Cardinality(Taken') = Cardinality(Taken) + 1
        BY <4>1, Finiteness, FS_AddElement
      <4>3. /\ Cardinality(Taken) \in Nat /\ Cardinality(adding) \in Nat
            /\ Cardinality(UnitsUp) \in Nat /\ permits \in Nat
        BY Finiteness, FS_CardinalityType DEF TypeOK
      <4> QED BY <4>1, <4>2, <4>3, <1>1, <1>2 DEF Conservation
    <3> QED BY <3>1, <3>2
  <2> QED BY <2>2, <2>3, <2>4
<1>5. CASE Enqueued(s) /\ UNCHANGED reserved
  <2>1. /\ SemInv(Services)' /\ Waiting' = Waiting \cup {s}
        /\ s \notin granted \cup Waiting
        /\ granted' = granted /\ permits' = permits
    BY <1>5, EnqueuedFacts, SemInvHolds
  <2>2. TypeOK' /\ NoIdlePermit'
    BY <2>1, <1>1, <1>5 DEF TypeOK, SemInv
  <2>3. Exclusive'
    BY <2>1, <1>1, <1>5 DEF Exclusive, SemInv
  <2>4. Conservation'
    BY <2>1, <1>1, <1>2, <1>5 DEF Conservation, Taken
  <2> QED BY <2>2, <2>3, <2>4
<1> QED BY <1>4, <1>5 DEF PollReady

(* call hands the slot over.                                                *)
LEMMA CallIInv ==
  ASSUME IInv, NEW s \in Services, NEW c \in Calls, Call(s, c)
  PROVE  IInv'
<1> USE DEF IInv
<1>1. /\ s \in reserved /\ c \notin inflight \cup adding
      /\ reserved' = reserved \ {s} /\ inflight' = inflight \cup {c}
      /\ UNCHANGED <<permits, queue, granted, debt, owing, adding, limit, todo>>
  BY DEF Call, debtVars
<1>2. UNCHANGED <<UnitsUp, UnitsDown, Waiting>>
  BY <1>1 DEF UnitsUp, UnitsDown, Waiting
<1>3. TypeOK' /\ NoIdlePermit'
  BY <1>1 DEF TypeOK, NoIdlePermit
<1>4. Exclusive'
  BY <1>1, <1>2 DEF Exclusive
<1>5. Conservation'
  <2>1. /\ Taken' = (Taken \ {s}) \cup {c}
        /\ s \in Taken /\ c \notin Taken
    BY <1>1, LimitAssumption DEF Taken, TypeOK, Exclusive
  <2>2. Cardinality(Taken') = Cardinality(Taken)
    <3>1. /\ IsFiniteSet(Taken \ {s}) /\ Cardinality(Taken) \in Nat
          /\ Cardinality(Taken \ {s}) = Cardinality(Taken) - 1
      BY <2>1, Finiteness, FS_RemoveElement, FS_CardinalityType
    <3>2. Cardinality((Taken \ {s}) \cup {c}) = Cardinality(Taken \ {s}) + 1
      BY <3>1, <2>1, FS_AddElement
    <3> QED BY <2>1, <3>1, <3>2
  <2> QED BY <2>2, <1>1, <1>2 DEF Conservation
<1> QED BY <1>3, <1>4, <1>5

(* A slot that is dropped pays debt off, or is about to become a permit.    *)
LEMMA DropSlotIInv ==
  ASSUME IInv, NEW h \in reserved \cup inflight, Release(h),
         reserved' = reserved \ {h}, inflight' = inflight \ {h},
         UNCHANGED <<limit, todo>>
  PROVE  IInv'
<1> USE DEF IInv
<1>1. /\ h \in Actors /\ h \notin granted /\ h \notin Waiting
      /\ h \notin adding /\ h \notin Setters
  BY LimitAssumption DEF TypeOK, Exclusive, Actors, Waiting, ToSet
<1>2. /\ UNCHANGED <<permits, queue, granted, owing>>
      /\ \/ debt > 0 /\ debt' = debt - 1 /\ adding' = adding
         \/ debt' = debt /\ adding' = adding \cup {h}
  BY DEF Release
<1>3. UNCHANGED <<UnitsUp, UnitsDown, Waiting>>
  BY <1>2 DEF UnitsUp, UnitsDown, Waiting
<1>4. TypeOK' /\ NoIdlePermit'
  BY <1>1, <1>2 DEF TypeOK, NoIdlePermit
<1>5. Exclusive'
  BY <1>1, <1>2, <1>3 DEF Exclusive, TypeOK
<1>6. Conservation'
  <2>1. Taken' = Taken \ {h} /\ h \in Taken
    BY <1>1, <1>2 DEF Taken
  <2>2. Cardinality(Taken') = Cardinality(Taken) - 1
    BY <2>1, Finiteness, FS_RemoveElement
  <2>3. \/ debt' = debt - 1 /\ adding' = adding
        \/ debt' = debt /\ Cardinality(adding') = Cardinality(adding) + 1
    BY <1>1, <1>2, Finiteness, FS_AddElement
  <2>4. /\ Cardinality(Taken) \in Nat /\ Cardinality(adding) \in Nat
        /\ Cardinality(UnitsUp) \in Nat /\ Cardinality(UnitsDown) \in Nat
        /\ Cardinality(owing) \in Nat
        /\ permits \in Nat /\ debt \in Nat /\ limit \in Int
    BY Finiteness, FS_CardinalityType, LimitAssumption DEF TypeOK
  <2> QED BY <2>2, <2>3, <2>4, <1>2, <1>3 DEF Conservation
<1> QED BY <1>4, <1>5, <1>6

(* An abandoned wait takes nothing along, not even a permit already handed. *)
LEMMA DropWaitingIInv ==
  ASSUME IInv, NEW s \in Services, DropWaiting(s)
  PROVE  IInv'
<1> USE DEF IInv
<1>1. UNCHANGED <<debt, owing, adding, limit, todo, reserved, inflight>>
  BY DEF DropWaiting
<1>2. UNCHANGED <<UnitsUp, UnitsDown>>
  BY <1>1 DEF UnitsUp, UnitsDown
<1>3. /\ SemInv(Services)' /\ Waiting' \cup granted' \subseteq Waiting \cup granted
      /\ \/ granted' = granted /\ permits' = permits
         \/ /\ s \in granted
            /\ granted' = granted \ {s} /\ permits' = permits + 1
         \/ /\ s \in granted /\ permits' = permits
            /\ \E w \in Waiting : granted' = (granted \ {s}) \cup {w}
  BY AbandonedFacts, SemInvHolds DEF DropWaiting
<1>4. TypeOK' /\ NoIdlePermit'
  BY <1>1, <1>3 DEF TypeOK, SemInv
<1>5. Exclusive'
  BY <1>1, <1>3 DEF Exclusive, SemInv
<1>6. Conservation'
  <2>1. CASE granted' = granted /\ permits' = permits
    BY <2>1, <1>1, <1>2 DEF Conservation, Taken
  <2>2. CASE s \in granted /\ granted' = granted \ {s} /\ permits' = permits + 1
    <3>1. Taken' = Taken \ {s} /\ s \in Taken
      BY <2>2, <1>1, LimitAssumption DEF Taken, Exclusive, TypeOK
    <3>2. Cardinality(Taken') = Cardinality(Taken) - 1
      BY <3>1, Finiteness, FS_RemoveElement
    <3>3. /\ Cardinality(Taken) \in Nat /\ Cardinality(adding) \in Nat
          /\ Cardinality(UnitsUp) \in Nat /\ permits \in Nat
      BY Finiteness, FS_CardinalityType DEF TypeOK
    <3> QED BY <2>2, <3>2, <3>3, <1>1, <1>2 DEF Conservation
  <2>3. CASE s \in granted /\ permits' = permits
             /\ \E w \in Waiting : granted' = (granted \ {s}) \cup {w}
    <3>1. PICK w \in Waiting : granted' = (granted \ {s}) \cup {w}
      BY <2>3
    <3>2. w \in Services
      BY DEF Waiting, ToSet, TypeOK
    <3>3. /\ Taken' = (Taken \ {s}) \cup {w}
          /\ s \in Taken /\ w \notin Taken
      BY <2>3, <3>1, <3>2, <1>1, LimitAssumption DEF Taken, Exclusive, TypeOK
    <3>4. /\ IsFiniteSet(Taken \ {s}) /\ Cardinality(Taken) \in Nat
          /\ Cardinality(Taken \ {s}) = Cardinality(Taken) - 1
      BY <3>3, Finiteness, FS_RemoveElement, FS_CardinalityType
    <3>5. Cardinality((Taken \ {s}) \cup {w}) = Cardinality(Taken \ {s}) + 1
      BY <3>3, <3>4, FS_AddElement
    <3> QED BY <2>3, <3>3, <3>4, <3>5, <1>1, <1>2 DEF Conservation
  <2> QED BY <1>3, <2>1, <2>2, <2>3
<1> QED BY <1>4, <1>5, <1>6

(* set() swaps the ceiling and owes the difference in units to move.        *)
LEMMA SwapLimitIInv ==
  ASSUME IInv, NEW t \in Setters, NEW n \in Limits, SwapLimit(t, n)
  PROVE  IInv'
<1> USE DEF IInv
<1>1. /\ todo[t] = 0 /\ limit' = n /\ todo' = [todo EXCEPT ![t] = n - limit]
      /\ UNCHANGED <<permits, queue, granted, debt, owing, adding>>
      /\ UNCHANGED <<reserved, inflight>>
  BY DEF SwapLimit, debtVars
<1>2. /\ todo' \in [Setters -> -MaxPermits..MaxPermits]
      /\ Cardinality(UnitsUp') - Cardinality(UnitsDown')
           = Cardinality(UnitsUp) - Cardinality(UnitsDown) + (n - limit)
  BY <1>1, SwappedUnits
<1>3. TypeOK' /\ NoIdlePermit'
  BY <1>1, <1>2 DEF TypeOK, NoIdlePermit
<1>4. Exclusive'
  BY <1>1 DEF Exclusive, Waiting
<1>5. Conservation'
  <2>1. Taken' = Taken
    BY <1>1 DEF Taken
  <2>2. /\ Cardinality(UnitsUp) \in Nat /\ Cardinality(UnitsDown) \in Nat
        /\ Cardinality(Taken) \in Nat /\ Cardinality(adding) \in Nat
        /\ Cardinality(owing) \in Nat /\ permits \in Nat /\ debt \in Nat
        /\ limit \in Int /\ n \in Int
    BY Finiteness, FS_CardinalityType, LimitAssumption DEF TypeOK
  <2>3. /\ Cardinality(UnitsUp') \in Nat /\ Cardinality(UnitsDown') \in Nat
    <3>1. /\ UnitsUp' \in SUBSET (Setters \X (1..MaxPermits))
          /\ UnitsDown' \in SUBSET (Setters \X (1..MaxPermits))
      BY DEF UnitsUp, UnitsDown
    <3> QED BY <3>1, TokensFinite, FS_Subset, FS_CardinalityType
  <2> QED BY <1>1, <1>2, <2>1, <2>2, <2>3 DEF Conservation
<1> QED BY <1>3, <1>4, <1>5

(* One unit of a set(): released or acquired, at once or in two halves.     *)
LEMMA MoveUnitIInv ==
  ASSUME IInv, NEW t \in Setters, MoveUnit(t)
  PROVE  IInv'
<1> USE DEF IInv
<1>1. t \notin Midway /\ UNCHANGED <<limit, reserved, inflight>>
  BY DEF MoveUnit
<1>2. /\ Cardinality(UnitsUp) \in Nat /\ Cardinality(UnitsDown) \in Nat
      /\ Cardinality(Taken) \in Nat /\ Cardinality(adding) \in Nat
      /\ Cardinality(owing) \in Nat /\ permits \in Nat /\ debt \in Nat
      /\ limit \in Int /\ t \in Actors
      /\ t \notin Services /\ t \notin Calls
  BY Finiteness, FS_CardinalityType, LimitAssumption DEF TypeOK, Actors
<1>3. CASE todo[t] > 0 /\ Release(t) /\ todo' = [todo EXCEPT ![t] = @ - 1]
  <2>1. /\ todo' \in [Setters -> -MaxPermits..MaxPermits]
        /\ Cardinality(UnitsUp') = Cardinality(UnitsUp) - 1
        /\ UnitsDown' = UnitsDown
    BY <1>3, ReleasedUnit
  <2>2. /\ UNCHANGED <<permits, queue, granted, owing>>
        /\ \/ debt > 0 /\ debt' = debt - 1 /\ adding' = adding
           \/ debt' = debt /\ adding' = adding \cup {t}
    BY <1>3 DEF Release
  <2>3. Taken' = Taken /\ Waiting' = Waiting /\ t \notin Waiting
    BY <1>1, <1>2, <2>2 DEF Taken, Waiting, TypeOK, ToSet
  <2>4. TypeOK' /\ NoIdlePermit'
    BY <1>1, <1>2, <2>1, <2>2 DEF TypeOK, NoIdlePermit
  <2>5. Exclusive'
    BY <1>1, <1>2, <2>2, <2>3 DEF Exclusive, TypeOK, Midway
  <2>6. Conservation'
    <3>1. \/ debt' = debt - 1 /\ adding' = adding
          \/ debt' = debt /\ Cardinality(adding') = Cardinality(adding) + 1
      BY <1>1, <2>2, Finiteness, FS_AddElement DEF Midway
    <3> QED BY <3>1, <1>1, <1>2, <2>1, <2>2, <2>3 DEF Conservation
  <2> QED BY <2>4, <2>5, <2>6
<1>4. CASE todo[t] < 0 /\ Acquire(t) /\ todo' = [todo EXCEPT ![t] = @ + 1]
  <2>1. /\ todo' \in [Setters -> -MaxPermits..MaxPermits]
        /\ Cardinality(UnitsDown') = Cardinality(UnitsDown) - 1
        /\ UnitsUp' = UnitsUp
    BY <1>4, AcquiredUnit
  <2>2. /\ UNCHANGED <<queue, granted, debt, adding>>
        /\ \/ permits > 0 /\ permits' = permits - 1 /\ owing' = owing
           \/ permits' = permits /\ owing' = owing \cup {t}
    BY <1>4 DEF Acquire, ForgetPermit
  <2>3. Taken' = Taken /\ Waiting' = Waiting
    BY <1>1, <2>2 DEF Taken, Waiting
  <2>4. TypeOK' /\ NoIdlePermit'
    BY <1>1, <1>2, <2>1, <2>2 DEF TypeOK, NoIdlePermit
  <2>5. Exclusive'
    BY <1>1, <1>2, <2>2, <2>3 DEF Exclusive, TypeOK, Midway
  <2>6. Conservation'
    <3>1. \/ permits' = permits - 1 /\ owing' = owing
          \/ permits' = permits /\ Cardinality(owing') = Cardinality(owing) + 1
      BY <1>1, <2>2, Finiteness, FS_AddElement DEF Midway
    <3> QED BY <3>1, <1>1, <1>2, <2>1, <2>2, <2>3 DEF Conservation
  <2> QED BY <2>4, <2>5, <2>6
<1> QED BY <1>3, <1>4 DEF MoveUnit

(* The second half: the unit is booked as debt, or reaches the semaphore.   *)
LEMMA CompleteIInv ==
  ASSUME IInv, NEW a \in Actors, Complete(a)
  PROVE  IInv'
<1> USE DEF IInv
<1>1. UNCHANGED <<limit, todo, reserved, inflight>>
  BY DEF Complete
<1>2. UNCHANGED <<UnitsUp, UnitsDown>>
  BY <1>1 DEF UnitsUp, UnitsDown
<1>3. /\ Cardinality(UnitsUp) \in Nat /\ Cardinality(UnitsDown) \in Nat
      /\ Cardinality(Taken) \in Nat /\ Cardinality(adding) \in Nat
      /\ Cardinality(owing) \in Nat /\ permits \in Nat /\ debt \in Nat
      /\ limit \in Int
  BY Finiteness, FS_CardinalityType, LimitAssumption DEF TypeOK
<1>4. CASE Owe(a)
  <2>1. /\ a \in owing /\ owing' = owing \ {a} /\ debt' = debt + 1
        /\ UNCHANGED <<permits, queue, granted, adding>>
    BY <1>4 DEF Owe
  <2>2. Taken' = Taken /\ Waiting' = Waiting
    BY <1>1, <2>1 DEF Taken, Waiting
  <2>3. TypeOK' /\ NoIdlePermit'
    BY <1>1, <2>1 DEF TypeOK, NoIdlePermit
  <2>4. Exclusive'
    BY <1>1, <2>1, <2>2 DEF Exclusive
  <2>5. Cardinality(owing') = Cardinality(owing) - 1
    BY <2>1, Finiteness, FS_RemoveElement
  <2>6. Conservation'
    BY <1>1, <1>2, <1>3, <2>1, <2>2, <2>5 DEF Conservation
  <2> QED BY <2>3, <2>4, <2>6
<1>5. CASE Add(a)
  <2>1. /\ a \in adding /\ adding' = adding \ {a}
        /\ UNCHANGED <<debt, owing>>
    BY <1>5 DEF Add
  <2>2. /\ SemInv(Services)'
        /\ Waiting' \cup granted' = Waiting \cup granted
        /\ \/ permits' = permits + 1 /\ granted' = granted
           \/ /\ permits' = permits
              /\ \E s \in Waiting : granted' = granted \cup {s}
    BY <1>5, AddPermitFacts, SemInvHolds DEF Add
  <2>3. TypeOK' /\ NoIdlePermit'
    BY <1>1, <2>1, <2>2 DEF TypeOK, SemInv
  <2>4. Exclusive'
    BY <1>1, <2>1, <2>2 DEF Exclusive, SemInv
  <2>5. Cardinality(adding') = Cardinality(adding) - 1
    BY <2>1, Finiteness, FS_RemoveElement
  <2>6. permits' + Cardinality(Taken') = permits + Cardinality(Taken) + 1
    <3>1. CASE permits' = permits + 1 /\ granted' = granted
      BY <3>1, <1>1, <1>3 DEF Taken
    <3>2. CASE permits' = permits /\ \E s \in Waiting : granted' = granted \cup {s}
      <4>1. PICK s \in Waiting : granted' = granted \cup {s}
        BY <3>2
      <4>2. s \in Services
        BY DEF Waiting, ToSet, TypeOK
      <4>3. Taken' = Taken \cup {s} /\ s \notin Taken
        BY <4>1, <4>2, <1>1, LimitAssumption DEF Taken, Exclusive, TypeOK
      <4>4. Cardinality(Taken') = Cardinality(Taken) + 1
        BY <4>3, Finiteness, FS_AddElement
      <4> QED BY <3>2, <4>4, <1>3
    <3> QED BY <2>2, <3>1, <3>2
  <2>7. permits' \in Nat /\ Cardinality(Taken') \in Nat
    <3>1. IsFiniteSet(Services \cup Calls)
      BY LimitAssumption, FS_Union
    <3>2. Taken' \in SUBSET (Services \cup Calls)
      BY <2>3 DEF Taken, TypeOK
    <3> QED BY <3>1, <3>2, <2>3, FS_Subset, FS_CardinalityType DEF TypeOK
  <2>8. Conservation'
    BY <1>1, <1>2, <1>3, <2>1, <2>5, <2>6, <2>7 DEF Conservation
  <2> QED BY <2>3, <2>4, <2>8
<1> QED BY <1>4, <1>5 DEF Complete
-----------------------------------------------------------------------------
(* Every step keeps the invariant.                                          *)
LEMMA NextIInv == IInv /\ [Next]_vars => IInv'
<1> SUFFICES ASSUME IInv, [Next]_vars
             PROVE  IInv'
  OBVIOUS
<1>1. ASSUME NEW s \in Services, PollReady(s)  PROVE IInv'
  BY <1>1, PollReadyIInv
<1>2. ASSUME NEW s \in Services, NEW c \in Calls, Call(s, c)  PROVE IInv'
  BY <1>2, CallIInv
<1>3. ASSUME NEW s \in Services, DropReserved(s)  PROVE IInv'
  <2>1. s \notin inflight
    BY LimitAssumption DEF IInv, TypeOK
  <2>2. /\ s \in reserved \cup inflight /\ inflight' = inflight \ {s}
        /\ reserved' = reserved \ {s} /\ Release(s) /\ UNCHANGED <<limit, todo>>
    BY <1>3, <2>1 DEF DropReserved
  <2> QED BY <2>2, DropSlotIInv
<1>4. ASSUME NEW s \in Services, DropWaiting(s)  PROVE IInv'
  BY <1>4, DropWaitingIInv
<1>5. ASSUME NEW c \in Calls, DropCall(c)  PROVE IInv'
  <2>1. c \notin reserved
    BY LimitAssumption DEF IInv, TypeOK
  <2>2. /\ c \in reserved \cup inflight /\ inflight' = inflight \ {c}
        /\ reserved' = reserved \ {c} /\ Release(c) /\ UNCHANGED <<limit, todo>>
    BY <1>5, <2>1 DEF DropCall
  <2> QED BY <2>2, DropSlotIInv
<1>6. ASSUME NEW t \in Setters, MoveUnit(t)  PROVE IInv'
  BY <1>6, MoveUnitIInv
<1>7. ASSUME NEW t \in Setters, NEW n \in Limits, SwapLimit(t, n)  PROVE IInv'
  BY <1>7, SwapLimitIInv
<1>8. ASSUME NEW a \in Actors, Complete(a)  PROVE IInv'
  BY <1>8, CompleteIInv
<1>9. CASE UNCHANGED vars
  BY <1>9 DEF IInv, TypeOK, Exclusive, NoIdlePermit, Conservation, vars,
              debtVars, Waiting, Taken, UnitsUp, UnitsDown
<1> QED
  BY <1>1, <1>2, <1>3, <1>4, <1>5, <1>6, <1>7, <1>8, <1>9
     DEF Next, ServiceStep, SetterStep, DropService

(* IInv is an invariant of ConcurrencyLimit.                                *)
THEOREM IInvHolds == Spec => []IInv
BY InitIInv, NextIInv, PTL DEF Spec

(* The permits, the queue and the debt stay what their types say: the debt  *)
(* is never negative, whatever release() races with.                        *)
THEOREM TypeCorrect == Spec => []TypeOK
<1>1. IInv => TypeOK  BY DEF IInv
<1> QED BY <1>1, IInvHolds, PTL

(* No interleaving of completions, cancellations and any number of set()    *)
(* calls creates or loses a unit of capacity.                               *)
THEOREM CapacityConserved == Spec => []Conservation
<1>1. IInv => Conservation  BY DEF IInv
<1> QED BY <1>1, IInvHolds, PTL

(* A service is kept waiting only by a whole ceiling's worth of units that  *)
(* are in use or on their way back: no wake-up is lost, however completions *)
(* and set() calls race with the queue.                                     *)
THEOREM NobodyWaitsInVain ==
  Spec => [](queue # <<>> =>
               limit <= Cardinality(Taken) + Cardinality(adding) + Cardinality(UnitsUp))
<1>1. IInv => (queue # <<>> =>
                 limit <= Cardinality(Taken) + Cardinality(adding) + Cardinality(UnitsUp))
  <2> SUFFICES ASSUME IInv, queue # <<>>
               PROVE  limit <= Cardinality(Taken) + Cardinality(adding) + Cardinality(UnitsUp)
    OBVIOUS
  <2>1. permits = 0
    BY DEF IInv, NoIdlePermit
  <2>2. /\ Cardinality(Taken) \in Nat /\ Cardinality(adding) \in Nat
        /\ Cardinality(UnitsUp) \in Nat /\ Cardinality(UnitsDown) \in Nat
        /\ Cardinality(owing) \in Nat /\ debt \in Nat /\ limit \in Int
    BY Finiteness, FS_CardinalityType, LimitAssumption DEF IInv, TypeOK
  <2> QED BY <2>1, <2>2 DEF IInv, Conservation
<1> QED BY <1>1, IInvHolds, PTL
-----------------------------------------------------------------------------
(* All that is or may become a slot in use.  It grows only when release()  *)
(* finds no debt while others are about to book some.                       *)
Booked == limit + debt + Cardinality(owing)
            + Cardinality(UnitsDown) - Cardinality(UnitsUp)

(* Everything counted here is a number.                                     *)
LEMMA BookedType ==
  IInv => /\ Cardinality(UnitsUp) \in Nat /\ Cardinality(UnitsDown) \in Nat
          /\ Cardinality(adding) \in Nat /\ Cardinality(owing) \in Nat
          /\ Cardinality(Taken) \in Nat /\ permits \in Nat
          /\ debt \in Nat /\ limit \in Nat /\ Limits \subseteq Nat
          /\ Booked \in Int
<1> SUFFICES ASSUME IInv
             PROVE  /\ Cardinality(UnitsUp) \in Nat /\ Cardinality(UnitsDown) \in Nat
                    /\ Cardinality(adding) \in Nat /\ Cardinality(owing) \in Nat
                    /\ Cardinality(Taken) \in Nat /\ permits \in Nat
                    /\ debt \in Nat /\ limit \in Nat /\ Limits \subseteq Nat
                    /\ Booked \in Int
  OBVIOUS
<1>1. /\ Cardinality(UnitsUp) \in Nat /\ Cardinality(UnitsDown) \in Nat
      /\ Cardinality(adding) \in Nat /\ Cardinality(owing) \in Nat
      /\ Cardinality(Taken) \in Nat /\ permits \in Nat
      /\ debt \in Nat /\ limit \in Nat /\ Limits \subseteq Nat
  BY Finiteness, FS_CardinalityType, LimitAssumption DEF IInv, TypeOK
<1> QED BY <1>1 DEF Booked

(* So it is after any step.                                                 *)
LEMMA BookedTypeNext == IInv /\ [Next]_vars => Booked' \in Int
<1> DEFINE Number == Booked \in Int
<1>1. IInv => Number
  BY BookedType
<1>2. IInv /\ [Next]_vars => IInv'
  BY NextIInv
<1>3. IInv /\ [Next]_vars => Number'
  <2> HIDE DEF Number
  <2> QED BY <1>1, <1>2, PTL
<1> QED BY <1>3

(* No slot is in use that is not booked.                                    *)
LEMMA TakenIsBooked == IInv => Cardinality(Taken) <= Booked
BY BookedType DEF IInv, Conservation, Booked

(* Before anybody has called set(), only the ceiling is booked.             *)
LEMMA BookedAtFirst == Init => Booked = limit
<1> SUFFICES ASSUME Init PROVE Booked = limit
  OBVIOUS
<1>1. UnitsUp = {} /\ UnitsDown = {} /\ owing = {} /\ debt = 0
  BY DEF Init, DebtInit, UnitsUp, UnitsDown
<1>2. limit \in Int
  BY LimitAssumption DEF Init
<1> QED BY <1>1, <1>2, FS_EmptySet DEF Booked

(* What release() may book at most, when it finds no debt.                  *)
Jump(t) ==
  /\ todo[t] > 0 /\ t \notin owing
  /\ limit' = limit
  /\ Booked' <= limit + Cardinality(owing) + Cardinality(UnitsDown)

(* No other step, of a setter or of a request, books a unit more.           *)
LEMMA BookedMove ==
  ASSUME IInv, [Next]_vars
  PROVE  Booked' <= Booked \/ \E t \in Setters : Jump(t)
<1> USE DEF IInv
<1>1. /\ Cardinality(UnitsUp) \in Nat /\ Cardinality(UnitsDown) \in Nat
      /\ Cardinality(adding) \in Nat /\ Cardinality(owing) \in Nat
      /\ debt \in Nat /\ limit \in Nat /\ Limits \subseteq Nat
  BY BookedType
<1>2. ASSUME UNCHANGED <<limit, todo, owing>>,
             debt' = debt \/ (debt > 0 /\ debt' = debt - 1)
      PROVE  Booked' <= Booked
  <2>1. UNCHANGED <<UnitsUp, UnitsDown>>
    BY <1>2 DEF UnitsUp, UnitsDown
  <2> QED BY <1>1, <1>2, <2>1 DEF Booked
<1>3. ASSUME NEW s \in Services, ServiceStep(s)  PROVE Booked' <= Booked
  BY <1>2, <1>3 DEF ServiceStep, PollReady, DropService, DropReserved,
                    DropWaiting, Call, Release, debtVars
<1>4. ASSUME NEW c \in Calls, DropCall(c)  PROVE Booked' <= Booked
  BY <1>2, <1>4 DEF DropCall, Release
<1>5. ASSUME NEW t \in Setters, NEW n \in Limits, SwapLimit(t, n)
      PROVE  Booked' <= Booked
  <2>1. /\ Cardinality(UnitsUp') - Cardinality(UnitsDown')
             = Cardinality(UnitsUp) - Cardinality(UnitsDown) + (n - limit)
        /\ limit' = n /\ debt' = debt /\ owing' = owing
    BY <1>5, SwappedUnits DEF SwapLimit, debtVars
  <2>2. /\ Cardinality(UnitsUp') \in Nat /\ Cardinality(UnitsDown') \in Nat
    <3>1. /\ UnitsUp' \in SUBSET (Setters \X (1..MaxPermits))
          /\ UnitsDown' \in SUBSET (Setters \X (1..MaxPermits))
      BY DEF UnitsUp, UnitsDown
    <3> QED BY <3>1, TokensFinite, FS_Subset, FS_CardinalityType
  <2> QED BY <1>1, <2>1, <2>2 DEF Booked
<1>6. ASSUME NEW t \in Setters, MoveUnit(t)
      PROVE  Booked' <= Booked \/ Jump(t)
  <2>1. t \notin Midway /\ limit' = limit
    BY <1>6 DEF MoveUnit
  <2>2. CASE todo[t] > 0 /\ Release(t) /\ todo' = [todo EXCEPT ![t] = @ - 1]
    <3>1. /\ Cardinality(UnitsUp') = Cardinality(UnitsUp) - 1
          /\ UnitsDown' = UnitsDown
      BY <2>2, ReleasedUnit
    <3>2. CASE debt > 0 /\ debt' = debt - 1 /\ owing' = owing
      BY <3>1, <3>2, <2>1, <1>1 DEF Booked
    <3>3. CASE debt = 0 /\ debt' = 0 /\ owing' = owing
      <4>1. Cardinality(UnitsUp) > 0
        <5>1. <<t, todo[t]>> \in UnitsUp
          BY <2>2, LimitAssumption DEF UnitsUp, TypeOK
        <5> QED BY <5>1, Finiteness, FS_EmptySet, <1>1
      <4>2. Booked' <= limit + Cardinality(owing) + Cardinality(UnitsDown)
        BY <3>1, <3>3, <4>1, <2>1, <1>1 DEF Booked
      <4> QED BY <4>2, <2>1, <2>2 DEF Jump, Midway
    <3> QED BY <2>2, <3>2, <3>3 DEF Release
  <2>3. CASE todo[t] < 0 /\ Acquire(t) /\ todo' = [todo EXCEPT ![t] = @ + 1]
    <3>1. /\ Cardinality(UnitsDown') = Cardinality(UnitsDown) - 1
          /\ UnitsUp' = UnitsUp
      BY <2>3, AcquiredUnit
    <3>2. /\ debt' = debt
          /\ owing' = owing \/ Cardinality(owing') = Cardinality(owing) + 1
      BY <2>3, <2>1, Finiteness, FS_AddElement DEF Acquire, ForgetPermit, Midway
    <3> QED BY <3>1, <3>2, <2>1, <1>1 DEF Booked
  <2> QED BY <1>6, <2>2, <2>3 DEF MoveUnit
<1>7. ASSUME NEW a \in Actors, Complete(a)  PROVE Booked' <= Booked
  <2>1. CASE Owe(a)
    <3>1. /\ Cardinality(owing') = Cardinality(owing) - 1
          /\ debt' = debt + 1 /\ limit' = limit /\ todo' = todo
      BY <1>7, <2>1, Finiteness, FS_RemoveElement DEF Owe, Complete
    <3>2. UNCHANGED <<UnitsUp, UnitsDown>>
      BY <3>1 DEF UnitsUp, UnitsDown
    <3> QED BY <3>1, <3>2, <1>1 DEF Booked
  <2>2. CASE Add(a)
    BY <1>2, <1>7, <2>2 DEF Add, Complete
  <2> QED BY <1>7, <2>1, <2>2 DEF Complete
<1>8. CASE UNCHANGED vars
  BY <1>2, <1>8 DEF vars, debtVars
<1> QED BY <1>3, <1>4, <1>5, <1>6, <1>7, <1>8 DEF Next, SetterStep

(* With one setter no one else is about to book debt, and the jump ends at  *)
(* the ceiling in force.                                                    *)
OneSetter == \A t, u \in Setters : t = u

BookedInv == \E n \in Limits : Booked <= n

(* So some ceiling bounds what is booked.                                   *)
LEMMA BookedStep ==
  ASSUME OneSetter, IInv, BookedInv, [Next]_vars
  PROVE  BookedInv'
<1>1. IInv' /\ Booked \in Int /\ Booked' \in Int /\ Limits \subseteq Nat
  BY NextIInv, BookedTypeNext, BookedType
<1>2. CASE Booked' <= Booked
  BY <1>1, <1>2 DEF BookedInv
<1>3. ASSUME NEW t \in Setters, Jump(t) PROVE BookedInv'
  <2>1. owing = {}
    BY <1>3 DEF Jump, OneSetter, IInv, TypeOK
  <2>2. UnitsDown = {}
    BY <1>3, LimitAssumption DEF Jump, UnitsDown, OneSetter, IInv, TypeOK
  <2>3. Booked' <= limit' /\ limit' \in Limits
    BY <1>1, <1>3, <2>1, <2>2, FS_EmptySet, BookedType DEF Jump, IInv, TypeOK
  <2> QED BY <2>3 DEF BookedInv
<1> QED BY <1>2, <1>3, BookedMove

(* One thread calling set(), as the CPU controller does, never lets more    *)
(* slots be in use than the highest ceiling, whatever completions race it.  *)
THEOREM OneSetterWithinHighestCeiling ==
  OneSetter => (Spec => []WithinHighestCeiling)
<1> SUFFICES ASSUME OneSetter PROVE Spec => []WithinHighestCeiling
  OBVIOUS
<1>1. Init => BookedInv
  BY BookedAtFirst, LimitAssumption DEF Init, BookedInv
<1>2. IInv /\ BookedInv /\ [Next]_vars => BookedInv'
  BY BookedStep
<1>3. IInv /\ BookedInv => WithinHighestCeiling
  BY TakenIsBooked, BookedType DEF BookedInv, WithinHighestCeiling
<1> QED BY <1>1, <1>2, <1>3, IInvHolds, PTL DEF Spec
-----------------------------------------------------------------------------
(* With several setters, every other one may be about to book what its own  *)
(* set() takes back, and that is no more than a ceiling each.               *)

(* The ceilings are finitely many: one of them is the highest.              *)
Highest(L) == L \in Limits /\ \A n \in Limits : n <= L

(* It is found as the one with the least distance to tokio's maximum.       *)
LEMMA HighestExists == Limits # {} => \E L \in Limits : Highest(L)
<1> SUFFICES ASSUME Limits # {} PROVE \E L \in Limits : Highest(L)
  OBVIOUS
<1> DEFINE D == {MaxPermits - n : n \in Limits}
<1>1. D # {} /\ D \subseteq Nat
  <2>1. \A n \in Limits : MaxPermits - n \in Nat
    BY LimitAssumption
  <2> QED BY <2>1
<1>2. PICK d \in D : \A e \in D : ~ (<<e, d>> \in OpToRel(<, Nat))
  <2> HIDE DEF D
  <2> QED BY <1>1, NatLessThanWellFounded, WFMin
<1>3. \A e \in D : ~ (e < d)
  BY <1>1, <1>2 DEF OpToRel
<1>4. PICK L \in Limits : d = MaxPermits - L
  OBVIOUS
<1>5. \A n \in Limits : ~ (MaxPermits - n < MaxPermits - L)
  BY <1>3, <1>4
<1> QED BY <1>5, LimitAssumption DEF Highest

(* A set() lowers the ceiling by no more than the highest there is, and     *)
(* whoever is about to book a unit has one token fewer than that left.      *)
Pace(u, L) ==
  /\ -todo[u] <= L
  /\ u \in owing => todo[u] <= 0 /\ -todo[u] < L

(* It stays so.                                                             *)
LEMMA PaceStep ==
  ASSUME IInv, NEW L \in Limits, Highest(L), [Next]_vars,
         NEW u \in Setters, Pace(u, L)
  PROVE  Pace(u, L)'
<1>1. /\ todo[u] \in Int /\ limit \in Nat /\ limit <= L /\ L \in Nat
      /\ \A n \in Limits : n \in Nat
  BY LimitAssumption DEF IInv, TypeOK, Highest
<1>2. ASSUME todo' = todo, owing' \subseteq owing PROVE Pace(u, L)'
  BY <1>2 DEF Pace
<1>3. ASSUME NEW s \in Services, ServiceStep(s) PROVE Pace(u, L)'
  BY <1>2, <1>3 DEF ServiceStep, PollReady, DropService, DropReserved,
                    DropWaiting, Call, Release, debtVars
<1>4. ASSUME NEW c \in Calls, DropCall(c) PROVE Pace(u, L)'
  BY <1>2, <1>4 DEF DropCall, Release
<1>5. ASSUME NEW a \in Actors, Complete(a) PROVE Pace(u, L)'
  BY <1>2, <1>5 DEF Complete, Owe, Add
<1>6. ASSUME NEW t \in Setters, NEW n \in Limits, SwapLimit(t, n) PROVE Pace(u, L)'
  <2>1. /\ t \notin owing /\ owing' = owing
        /\ todo'[u] = IF u = t THEN n - limit ELSE todo[u]
    BY <1>6 DEF SwapLimit, Midway, debtVars, IInv, TypeOK
  <2> QED BY <1>1, <2>1 DEF Pace
<1>7. ASSUME NEW t \in Setters, MoveUnit(t) PROVE Pace(u, L)'
  <2>1. t \notin owing
    BY <1>7 DEF MoveUnit, Midway
  <2>2. CASE todo[t] > 0 /\ Release(t) /\ todo' = [todo EXCEPT ![t] = @ - 1]
    <3>1. owing' = owing /\ todo'[u] = IF u = t THEN todo[u] - 1 ELSE todo[u]
      BY <2>2 DEF Release, IInv, TypeOK
    <3> QED BY <1>1, <2>1, <2>2, <3>1 DEF Pace
  <2>3. CASE todo[t] < 0 /\ Acquire(t) /\ todo' = [todo EXCEPT ![t] = @ + 1]
    <3>1. /\ owing' \in {owing, owing \cup {t}}
          /\ todo'[u] = IF u = t THEN todo[u] + 1 ELSE todo[u]
      BY <2>3 DEF Acquire, ForgetPermit, IInv, TypeOK
    <3> QED BY <1>1, <2>1, <2>3, <3>1 DEF Pace
  <2> QED BY <1>7, <2>2, <2>3 DEF MoveUnit
<1> QED BY <1>2, <1>3, <1>4, <1>5, <1>6, <1>7
        DEF Next, SetterStep, vars, debtVars

(* All that others are about to book, and whoever is at it, fits in a       *)
(* ceiling for each of them.                                                *)
LEMMA OthersBook ==
  ASSUME IInv, NEW L \in Limits, Highest(L), \A u \in Setters : Pace(u, L),
         NEW t \in Setters, Jump(t)
  PROVE  Cardinality(owing) + Cardinality(UnitsDown) <= (Cardinality(Setters) - 1) * L
<1> DEFINE Others == Setters \ {t}
           Box == 1..L
           Booking == {p \in Others \X Box : p[1] \in owing /\ p[2] = 1 - todo[p[1]]}
<1>1. /\ L \in Nat /\ \A u \in Setters : todo[u] \in Int
      /\ owing \subseteq Setters /\ MaxPermits \in Nat
  BY LimitAssumption DEF IInv, TypeOK
<1>2. /\ IsFiniteSet(Others \X Box)
      /\ Cardinality(Others \X Box) = (Cardinality(Setters) - 1) * L
  <2>1. IsFiniteSet(Others) /\ Cardinality(Others) = Cardinality(Setters) - 1
    BY LimitAssumption, FS_RemoveElement
  <2>2. IsFiniteSet(Box) /\ Cardinality(Box) = L
    BY <1>1, FS_Interval
  <2> HIDE DEF Others, Box
  <2>3. /\ IsFiniteSet(Others \X Box)
        /\ Cardinality(Others \X Box) = Cardinality(Others) * Cardinality(Box)
    BY <2>1, <2>2, FS_Product
  <2> QED BY <2>1, <2>2, <2>3
<1>3. UnitsDown \subseteq Others \X Box
  BY <1>1 DEF UnitsDown, Pace, Jump
<1>4. UnitsDown \cap Booking = {}
  BY <1>1 DEF UnitsDown
<1>5. IsFiniteSet(Booking) /\ Cardinality(owing) <= Cardinality(Booking)
  <2>1. IsFiniteSet(Booking)
    <3>1. Booking \in SUBSET (Others \X Box)
      OBVIOUS
    <3> HIDE DEF Booking, Others, Box
    <3> QED BY <1>2, <3>1, FS_Subset
  <2> DEFINE f == [p \in Booking |-> p[1]]
  <2>2. f \in Surjection(Booking, owing)
    <3>1. ASSUME NEW u \in owing PROVE \E p \in Booking : f[p] = u
      <4>1. u \in Others /\ 1 - todo[u] \in Box
        BY <1>1 DEF Pace, Jump
      <4>2. <<u, 1 - todo[u]>> \in Booking
        BY <4>1
      <4> QED BY <4>2
    <3>2. f \in [Booking -> owing]
      OBVIOUS
    <3> HIDE DEF f, Booking
    <3> QED BY <3>1, <3>2 DEF Surjection
  <2> HIDE DEF f, Booking
  <2> QED BY <2>1, <2>2, FS_Surjection
<1>6. Cardinality(UnitsDown \cup Booking) <= (Cardinality(Setters) - 1) * L
  <2>1. UnitsDown \cup Booking \in SUBSET (Others \X Box)
    BY <1>3
  <2> HIDE DEF Booking, Others, Box
  <2> QED BY <1>2, <2>1, FS_Subset
<1>7. Cardinality(UnitsDown \cup Booking)
        = Cardinality(UnitsDown) + Cardinality(Booking)
  <2> HIDE DEF Booking
  <2> QED BY <1>4, <1>5, Finiteness, DisjointUnion DEF IInv
<1>8. /\ Cardinality(UnitsDown) \in Nat /\ Cardinality(owing) \in Nat
      /\ Cardinality(Booking) \in Nat /\ (Cardinality(Setters) - 1) * L \in Int
  <2>1. Cardinality(Booking) \in Nat /\ Cardinality(Setters) \in Nat
    <3> HIDE DEF Booking
    <3> QED BY <1>5, LimitAssumption, FS_CardinalityType
  <2> HIDE DEF Booking
  <2>2. \A x \in Int, y \in Int : (x - 1) * y \in Int
    OBVIOUS
  <2> QED BY <2>1, <2>2, <1>1, BookedType
<1> HIDE DEF Booking
<1> QED BY <1>5, <1>6, <1>7, <1>8

(* What set() calls that overlap keep to.                                   *)
SharedInv(L) ==
  /\ Booked <= Cardinality(Setters) * L
  /\ \A u \in Setters : Pace(u, L)

(* So no step leaves more booked than a ceiling for every setter.           *)
LEMMA SharedStep ==
  ASSUME NEW L \in Limits, Highest(L), IInv, SharedInv(L), [Next]_vars
  PROVE  SharedInv(L)'
<1>1. \A u \in Setters : Pace(u, L)'
  BY PaceStep DEF SharedInv
<1>2. /\ Booked \in Int /\ Booked' \in Int /\ L \in Nat
      /\ Cardinality(Setters) \in Nat
  BY BookedType, BookedTypeNext, LimitAssumption, FS_CardinalityType
<1>3. Cardinality(Setters) * L \in Int
  <2>1. \A x \in Int, y \in Int : x * y \in Int
    OBVIOUS
  <2> QED BY <1>2, <2>1
<1>4. CASE Booked' <= Booked
  BY <1>1, <1>2, <1>3, <1>4 DEF SharedInv
<1>5. ASSUME NEW t \in Setters, Jump(t) PROVE SharedInv(L)'
  <2>1. Cardinality(owing) + Cardinality(UnitsDown) <= (Cardinality(Setters) - 1) * L
    BY <1>5, OthersBook DEF SharedInv
  <2>2. limit <= L
    BY DEF IInv, TypeOK, Highest
  <2>3. (Cardinality(Setters) - 1) * L = Cardinality(Setters) * L - L
    <3>1. \A x \in Int, y \in Int : (x - 1) * y = x * y - y
      OBVIOUS
    <3> QED BY <1>2, <3>1
  <2>4. /\ Cardinality(owing) \in Nat /\ Cardinality(UnitsDown) \in Nat
        /\ limit \in Nat
    BY BookedType
  <2>5. Booked' <= Cardinality(Setters) * L
    BY <1>2, <1>3, <1>5, <2>1, <2>2, <2>3, <2>4 DEF Jump
  <2> QED BY <1>1, <2>5 DEF SharedInv
<1> QED BY <1>4, <1>5, BookedMove

(* However many threads call set() at once, and whatever requests end in    *)
(* between: never are more slots in use than the highest ceiling times the  *)
(* number of those threads.                                                 *)
THEOREM SettersWithinCeilings == Spec => []WithinCeilingPerSetter
<1>1. CASE Setters = {} \/ Limits = {}
  <2>1. Init => WithinCeilingPerSetter
    BY <1>1 DEF Init, WithinCeilingPerSetter
  <2>2. WithinCeilingPerSetter /\ [Next]_vars => WithinCeilingPerSetter'
    BY <1>1 DEF WithinCeilingPerSetter
  <2> QED BY <2>1, <2>2, PTL DEF Spec
<1>2. CASE Setters # {} /\ Limits # {}
  <2>1. PICK L \in Limits : Highest(L)
    BY <1>2, HighestExists
  <2>2. L \in Nat /\ Cardinality(Setters) \in Nat \ {0}
    BY <1>2, LimitAssumption, FS_CardinalityType, FS_EmptySet
  <2>3. Init => SharedInv(L)
    <3> SUFFICES ASSUME Init PROVE SharedInv(L)
      OBVIOUS
    <3>1. \A k \in Nat \ {0}, n \in Nat : n <= k * n
      OBVIOUS
    <3>2. limit <= L /\ limit \in Nat
      BY <2>1, LimitAssumption DEF Highest, Init
    <3>3. \A u \in Setters : todo[u] = 0 /\ u \notin owing
      BY DEF Init, DebtInit
    <3>4. Cardinality(Setters) * L \in Int /\ L <= Cardinality(Setters) * L
      <4>1. \A x \in Int, y \in Int : x * y \in Int
        OBVIOUS
      <4> QED BY <2>2, <3>1, <4>1
    <3> QED BY <2>2, <3>2, <3>3, <3>4, BookedAtFirst DEF SharedInv, Pace
  <2>4. IInv /\ SharedInv(L) /\ [Next]_vars => SharedInv(L)'
    BY <2>1, SharedStep
  <2>5. IInv /\ SharedInv(L) => WithinCeilingPerSetter
    <3> SUFFICES ASSUME IInv, SharedInv(L)
                 PROVE  Cardinality(Taken) <= Cardinality(Setters) * L
      BY DEF WithinCeilingPerSetter
    <3>1. Cardinality(Setters) * L \in Int
      <4>1. \A x \in Int, y \in Int : x * y \in Int
        OBVIOUS
      <4> QED BY <2>2, <4>1
    <3> QED BY <3>1, TakenIsBooked, BookedType DEF SharedInv
  <2> QED BY <2>3, <2>4, <2>5, IInvHolds, PTL DEF Spec
<1> QED BY <1>1, <1>2
-----------------------------------------------------------------------------
(* The limit on one thread is the ideal one.                                *)

(* IdealLimit counts as this module does.                                   *)
LEMMA SameCount == \A S : Ideal!Cardinality(S) = Cardinality(S)
BY DEF Ideal!Cardinality, Cardinality

(* Whoever is not taken may be admitted while the ceiling has room: at rest *)
(* a free permit is room, since there is no debt beside it.                 *)
LEMMA RoomAtRest ==
  ASSUME IInv, SerialInv, Busy = {}, permits > 0
  PROVE  Cardinality(Taken) < limit
<1>1. adding = {} /\ owing = {} /\ debt = 0
  BY DEF Busy, Midway, SerialInv
<1>2. \A t \in Setters : todo[t] = 0
  BY DEF Busy
<1>3. UnitsUp = {} /\ UnitsDown = {}
  BY <1>2, LimitAssumption DEF UnitsUp, UnitsDown
<1>4. permits + Cardinality(Taken) = limit
  <2>1. permits + Cardinality(Taken) + 0 + 0 = limit + 0 + 0 + 0
    BY <1>1, <1>3, FS_EmptySet DEF IInv, Conservation
  <2>2. permits \in Nat /\ Cardinality(Taken) \in Nat /\ limit \in Int
    BY Finiteness, FS_CardinalityType, LimitAssumption DEF IInv, TypeOK
  <2> QED BY <2>1, <2>2
<1>5. permits \in Nat /\ Cardinality(Taken) \in Nat /\ limit \in Int
  BY Finiteness, FS_CardinalityType, LimitAssumption DEF IInv, TypeOK
<1> QED BY <1>4, <1>5

(* A unit that is about to be added while somebody waits is room, too.      *)
LEMMA RoomWhenAdding ==
  ASSUME IInv, SerialInv, NEW a \in adding, queue # <<>>
  PROVE  Cardinality(Taken) < limit
<1>1. debt = 0 /\ permits = 0
  BY DEF IInv, NoIdlePermit, SerialInv
<1>2. Busy = {a}
  BY DEF SerialInv, Busy, Midway
<1>3. owing = {} /\ adding = {a}
  BY <1>2 DEF Busy, Midway, IInv, Exclusive
<1>4. UnitsDown = {}
  <2>1. ASSUME NEW t \in Setters PROVE todo[t] \in Int /\ todo[t] >= 0
    <3>1. CASE t = a
      BY <3>1, LimitAssumption DEF SerialInv, IInv, TypeOK
    <3>2. CASE t # a
      BY <3>2, <1>2 DEF Busy
    <3> QED BY <3>1, <3>2
  <2> QED BY <2>1, LimitAssumption DEF UnitsDown
<1>5. /\ Cardinality(adding) = 1 /\ Cardinality(owing) = 0
      /\ Cardinality(UnitsDown) = 0
  BY <1>3, <1>4, FS_EmptySet, FS_Singleton
<1>6. /\ Cardinality(UnitsUp) \in Nat /\ Cardinality(Taken) \in Nat
      /\ limit \in Int
  BY Finiteness, FS_CardinalityType, LimitAssumption DEF IInv, TypeOK
<1>7. 0 + Cardinality(Taken) + 1 + Cardinality(UnitsUp) = limit + 0 + 0 + 0
  BY <1>1, <1>5 DEF IInv, Conservation
<1> QED BY <1>6, <1>7

(* A slot that is dropped leaves, and its unit is on its way.               *)
LEMMA LeaveStep ==
  ASSUME IInv, SerialInv, Busy = {}, NEW h \in Services \cup Calls,
         h \in reserved \cup inflight, h \notin granted,
         inflight' = inflight \ {h}, reserved' = reserved \ {h},
         Release(h), UNCHANGED <<limit, todo>>
  PROVE  SerialInv' /\ Ideal!Leave(h)
<1>1. h \in Taken /\ Taken' = Taken \ {h}
  BY DEF Taken, Release
<1>2. h \notin Setters /\ Midway = {} /\ \A t \in Setters : todo[t] = 0
  BY LimitAssumption DEF Busy
<1>3. Busy' \subseteq {h}
  BY <1>2 DEF Release, Busy, Midway
<1>4. SerialInv'
  BY <1>2, <1>3 DEF SerialInv, Release, Midway
<1> QED BY <1>1, <1>4 DEF Ideal!Leave

(* poll_ready admits, or changes nothing that counts.                       *)
LEMMA PollReadyIdeal ==
  ASSUME IInv, SerialInv, Busy = {}, NEW s \in Services, PollReady(s)
  PROVE  SerialInv' /\ (Ideal!Admit(s) \/ UNCHANGED <<limit, Taken>>)
<1>1. /\ s \notin reserved
      /\ UNCHANGED <<debt, owing, adding, limit, todo, inflight>>
  BY DEF PollReady
<1>2. s \notin inflight
  BY LimitAssumption DEF IInv, TypeOK
<1>3. Busy' = Busy
  BY <1>1 DEF Busy, Midway
<1>4. CASE Acquired(s) /\ reserved' = reserved \cup {s}
  <2>1. \/ s \in granted /\ granted' = granted \ {s} /\ permits' = permits
        \/ /\ s \notin granted /\ granted' = granted
           /\ permits > 0 /\ permits' = permits - 1
    BY <1>4 DEF Acquired, ForgetPermit
  <2>2. owing = {} /\ adding = {} /\ permits \in Int
    BY DEF Busy, Midway, IInv, TypeOK
  <2>3. SerialInv'
    BY <1>1, <1>3, <2>1, <2>2 DEF SerialInv
  <2>4. CASE s \in granted /\ granted' = granted \ {s}
    BY <1>1, <1>4, <2>3, <2>4 DEF Taken
  <2>5. CASE s \notin granted /\ granted' = granted /\ permits > 0
    <3>1. s \notin Taken /\ Taken' = Taken \cup {s}
      BY <1>1, <1>2, <1>4, <2>5 DEF Taken
    <3> QED BY <1>1, <2>3, <2>5, <3>1, RoomAtRest, SameCount DEF Ideal!Admit
  <2> QED BY <2>1, <2>4, <2>5
<1>5. CASE Enqueued(s) /\ UNCHANGED reserved
  BY <1>1, <1>3, <1>5 DEF Enqueued, SerialInv, Taken
<1> QED BY <1>4, <1>5 DEF PollReady

(* call passes the slot on.                                                 *)
LEMMA CallIdeal ==
  ASSUME IInv, SerialInv, NEW s \in Services, NEW c \in Calls, Call(s, c)
  PROVE  SerialInv' /\ Ideal!Pass(s, c)
<1>1. /\ s \in reserved /\ c \notin inflight
      /\ reserved' = reserved \ {s} /\ inflight' = inflight \cup {c}
      /\ UNCHANGED <<permits, queue, granted, debt, owing, adding, limit, todo>>
  BY DEF Call, debtVars
<1>2. SerialInv'
  BY <1>1 DEF SerialInv, Busy, Midway
<1>3. s \in Taken /\ c \notin Taken /\ Taken' = (Taken \ {s}) \cup {c}
  BY <1>1, LimitAssumption DEF IInv, TypeOK, Exclusive, Taken
<1> QED BY <1>1, <1>2, <1>3 DEF Ideal!Pass

(* A service that has been handed nothing leaves the queue unnoticed.       *)
LEMMA DropWaitingIdeal ==
  ASSUME SerialInv, NEW s \in Services, DropWaiting(s), Prompt
  PROVE  SerialInv' /\ UNCHANGED <<limit, Taken>>
<1>1. s \notin granted
  BY DEF Prompt
<1>2. UNCHANGED <<permits, granted, debt, owing, adding, limit, todo, reserved, inflight>>
  BY <1>1 DEF DropWaiting, Abandoned
<1> QED BY <1>2 DEF SerialInv, Busy, Midway, Taken

(* set() moves the ceiling at once, and then its units one by one.          *)
LEMMA SetterIdeal ==
  ASSUME IInv, SerialInv, Busy = {}, NEW t \in Setters, NEW n \in Limits, SwapLimit(t, n)
  PROVE  SerialInv' /\ Ideal!Set(n)
<1>1. /\ limit' = n /\ todo' = [todo EXCEPT ![t] = n - limit]
      /\ UNCHANGED <<permits, queue, granted, debt, owing, adding, reserved, inflight>>
  BY DEF SwapLimit, debtVars
<1>2. owing = {} /\ adding = {} /\ \A u \in Setters : todo[u] = 0
  BY DEF Busy, Midway
<1>3. Busy' \subseteq {t}
  BY <1>1, <1>2 DEF Busy, Midway, IInv, TypeOK
<1>4. SerialInv'
  BY <1>1, <1>2, <1>3 DEF SerialInv
<1>5. Taken' = Taken
  BY <1>1 DEF Taken
<1> QED BY <1>1, <1>4, <1>5 DEF Ideal!Set

(* A unit that a set() moves is nobody's slot.                              *)
LEMMA MoveUnitIdeal ==
  ASSUME IInv, SerialInv, NEW t \in Setters, MoveUnit(t), Busy \subseteq {t}
  PROVE  SerialInv' /\ UNCHANGED <<limit, Taken>>
<1>1. /\ t \notin Midway /\ UNCHANGED <<limit, reserved, inflight>>
      /\ todo[t] \in Int /\ debt \in Nat /\ permits \in Nat
  BY LimitAssumption DEF MoveUnit, IInv, TypeOK
<1>2. owing = {} /\ adding = {} /\ \A u \in Setters : u # t => todo[u] = 0
  BY <1>1 DEF Busy, Midway
<1>3. CASE todo[t] > 0 /\ Release(t) /\ todo' = [todo EXCEPT ![t] = @ - 1]
  <2>1. \A u \in Setters : todo'[u] = IF u = t THEN todo[t] - 1 ELSE todo[u]
    BY <1>3 DEF IInv, TypeOK
  <2>2. /\ owing' = {} /\ UNCHANGED <<permits, granted>>
        /\ \/ debt > 0 /\ debt' = debt - 1 /\ adding' = {}
           \/ debt = 0 /\ debt' = 0 /\ adding' = {t}
    BY <1>2, <1>3 DEF Release
  <2>3. Busy' \subseteq {t}
    BY <1>2, <2>1, <2>2 DEF Busy, Midway
  <2>4. SerialInv'
    BY <1>1, <1>3, <2>1, <2>2, <2>3 DEF SerialInv
  <2> QED BY <1>1, <2>2, <2>4 DEF Taken
<1>4. CASE todo[t] < 0 /\ Acquire(t) /\ todo' = [todo EXCEPT ![t] = @ + 1]
  <2>1. \A u \in Setters : todo'[u] = IF u = t THEN todo[t] + 1 ELSE todo[u]
    BY <1>4 DEF IInv, TypeOK
  <2>2. /\ adding' = {} /\ UNCHANGED <<granted, debt>>
        /\ \/ permits > 0 /\ permits' = permits - 1 /\ owing' = {}
           \/ permits = 0 /\ permits' = 0 /\ owing' = {t}
    BY <1>2, <1>4 DEF Acquire, ForgetPermit
  <2>3. Busy' \subseteq {t}
    BY <1>2, <2>1, <2>2 DEF Busy, Midway
  <2>4. SerialInv'
    BY <1>1, <1>4, <2>1, <2>2, <2>3 DEF SerialInv
  <2> QED BY <1>1, <2>2, <2>4 DEF Taken
<1> QED BY <1>3, <1>4 DEF MoveUnit

(* The second half of an operation hands a permit to a waiter, or is        *)
(* nobody's business.                                                       *)
LEMMA CompleteIdeal ==
  ASSUME IInv, SerialInv, NEW a \in Actors, Complete(a)
  PROVE  SerialInv' /\ (Ideal!Next \/ UNCHANGED <<limit, Taken>>)
<1>1. /\ UNCHANGED <<limit, todo, reserved, inflight>>
      /\ permits \in Nat /\ debt \in Nat
  BY DEF Complete, IInv, TypeOK
<1>2. CASE Owe(a)
  <2>1. /\ a \in owing /\ owing' = owing \ {a} /\ debt' = debt + 1
        /\ UNCHANGED <<permits, queue, granted, adding>>
    BY <1>2 DEF Owe
  <2>2. permits = 0 /\ Busy \subseteq {a} /\ adding = {} /\ Busy' \subseteq {a}
    BY <1>1, <2>1 DEF SerialInv, Busy, Midway, IInv, Exclusive
  <2>3. SerialInv'
    BY <1>1, <2>1, <2>2 DEF SerialInv
  <2> QED BY <1>1, <2>1, <2>3 DEF Taken
<1>3. CASE Add(a)
  <2>1. /\ a \in adding /\ adding' = adding \ {a} /\ AddPermit
        /\ UNCHANGED <<debt, owing>>
    BY <1>3 DEF Add
  <2>2. debt = 0 /\ Busy' \subseteq {a} /\ owing = {}
    BY <1>1, <2>1 DEF SerialInv, Busy, Midway, IInv, Exclusive
  <2>3. SerialInv'
    BY <1>1, <2>1, <2>2 DEF SerialInv
  <2>4. CASE queue = <<>>
    BY <1>1, <2>1, <2>3, <2>4 DEF AddPermit, Taken
  <2>5. CASE queue # <<>>
    <3> DEFINE h == Head(queue)
    <3>1. h \in Services /\ h \in Waiting
      BY <2>5, HeadTailFacts DEF IInv, TypeOK, Exclusive, Waiting
    <3>2. granted' = granted \cup {h}
      BY <2>1, <2>5 DEF AddPermit
    <3> HIDE DEF h
    <3>3. h \notin Taken /\ Taken' = Taken \cup {h}
      BY <1>1, <3>1, <3>2, LimitAssumption DEF Taken, IInv, TypeOK, Exclusive
    <3>4. Cardinality(Taken) < limit
      BY <2>1, <2>5, RoomWhenAdding
    <3> QED BY <1>1, <2>3, <3>1, <3>3, <3>4, SameCount DEF Ideal!Next, Ideal!Admit
  <2> QED BY <2>4, <2>5
<1> QED BY <1>2, <1>3 DEF Complete

(* Every step of the serial limit is one of the ideal limit, or none.       *)
LEMMA SerialStepIdeal ==
  ASSUME IInv, SerialInv, [SerialNext /\ Prompt]_vars
  PROVE  SerialInv' /\ [Ideal!Next]_<<limit, Taken>>
<1>1. CASE UNCHANGED vars
  BY <1>1 DEF vars, debtVars, SerialInv, Busy, Midway, Taken
<1>2. ASSUME Busy = {}, Next, Prompt
      PROVE  SerialInv' /\ [Ideal!Next]_<<limit, Taken>>
  <2>1. ASSUME NEW s \in Services, PollReady(s)
        PROVE  SerialInv' /\ [Ideal!Next]_<<limit, Taken>>
    BY <1>2, <2>1, PollReadyIdeal DEF Ideal!Next
  <2>2. ASSUME NEW s \in Services, NEW c \in Calls, Call(s, c)
        PROVE  SerialInv' /\ [Ideal!Next]_<<limit, Taken>>
    BY <2>2, CallIdeal DEF Ideal!Next
  <2>3. ASSUME NEW s \in Services, DropReserved(s)
        PROVE  SerialInv' /\ [Ideal!Next]_<<limit, Taken>>
    <3>1. s \notin inflight /\ s \notin granted
      BY <2>3, LimitAssumption DEF DropReserved, IInv, TypeOK, Exclusive
    <3>2. SerialInv' /\ Ideal!Leave(s)
      BY <1>2, <2>3, <3>1, LeaveStep DEF DropReserved
    <3> QED BY <3>2 DEF Ideal!Next
  <2>4. ASSUME NEW s \in Services, DropWaiting(s)
        PROVE  SerialInv' /\ [Ideal!Next]_<<limit, Taken>>
    BY <1>2, <2>4, DropWaitingIdeal
  <2>5. ASSUME NEW c \in Calls, DropCall(c)
        PROVE  SerialInv' /\ [Ideal!Next]_<<limit, Taken>>
    <3>1. c \notin reserved /\ c \notin granted
      BY LimitAssumption DEF IInv, TypeOK
    <3>2. SerialInv' /\ Ideal!Leave(c)
      BY <1>2, <2>5, <3>1, LeaveStep DEF DropCall
    <3> QED BY <3>2 DEF Ideal!Next
  <2>6. ASSUME NEW t \in Setters, MoveUnit(t)
        PROVE  SerialInv' /\ [Ideal!Next]_<<limit, Taken>>
    BY <1>2, <2>6, MoveUnitIdeal
  <2>7. ASSUME NEW t \in Setters, NEW n \in Limits, SwapLimit(t, n)
        PROVE  SerialInv' /\ [Ideal!Next]_<<limit, Taken>>
    BY <1>2, <2>7, SetterIdeal DEF Ideal!Next
  <2>8. ASSUME NEW a \in Actors, Complete(a)
        PROVE  SerialInv' /\ [Ideal!Next]_<<limit, Taken>>
    BY <2>8, CompleteIdeal
  <2> QED BY <1>2, <2>1, <2>2, <2>3, <2>4, <2>5, <2>6, <2>7, <2>8
             DEF Next, ServiceStep, SetterStep, DropService
<1>3. ASSUME Busy # {}, Resume
      PROVE  SerialInv' /\ [Ideal!Next]_<<limit, Taken>>
  <2>1. PICK a \in Busy : Complete(a) \/ (a \in Setters /\ MoveUnit(a))
    BY <1>3 DEF Resume
  <2>2. a \in Actors /\ Busy \subseteq {a}
    BY DEF Busy, Midway, IInv, TypeOK, SerialInv, Actors
  <2>3. CASE Complete(a)
    BY <2>2, <2>3, CompleteIdeal
  <2>4. CASE a \in Setters /\ MoveUnit(a)
    BY <2>2, <2>4, MoveUnitIdeal
  <2> QED BY <2>1, <2>3, <2>4
<1> QED BY <1>1, <1>2, <1>3 DEF SerialNext

(* Serial steps are steps of the limit.                                     *)
LEMMA SerialIsLimit == IInv /\ [SerialNext /\ Prompt]_vars => [Next]_vars
<1> SUFFICES ASSUME IInv, SerialNext PROVE Next
  OBVIOUS
<1>1. CASE Resume
  <2>1. PICK a \in Busy : Complete(a) \/ (a \in Setters /\ MoveUnit(a))
    BY <1>1 DEF Resume
  <2>2. a \in Actors
    BY DEF Busy, Midway, IInv, TypeOK, Actors
  <2> QED BY <2>1, <2>2 DEF Next, SetterStep
<1> QED BY <1>1 DEF SerialNext

(* On one thread, and as long as no service is dropped with a permit it was *)
(* handed and has not polled for, the limiter with its semaphore and its    *)
(* debt admits exactly as the ideal limit does: below the ceiling in force. *)
THEOREM SerialImplementsIdeal == PromptSpec => ImplementsIdeal
<1>1. Init => SerialInv /\ Ideal!Init
  BY DEF Init, DebtInit, SemInit, SerialInv, Busy, Midway, Ideal!Init, Taken
<1>2. IInv /\ SerialInv /\ [SerialNext /\ Prompt]_vars
        => IInv' /\ SerialInv' /\ [Ideal!Next]_<<limit, Taken>>
  BY SerialStepIdeal, SerialIsLimit, NextIInv
<1>3. IInv /\ SerialInv /\ [SerialNext /\ Prompt]_vars => [Ideal!Next]_<<limit, Taken>>
  BY <1>2
<1> QED BY InitIInv, <1>1, <1>2, <1>3, PTL DEF PromptSpec, ImplementsIdeal, Ideal!Spec

(* The ideal limit admits below the ceiling in force, and moving it evicts  *)
(* nobody: some ceiling always bounds the holders.                          *)
LEMMA IdealStepWithin ==
  ASSUME IInv, WithinHighestCeiling, [Ideal!Next]_<<limit, Taken>>
  PROVE  WithinHighestCeiling'
<1>1. IsFiniteSet(Taken) /\ Cardinality(Taken) \in Nat
  BY Finiteness, FS_CardinalityType DEF IInv
<1>2. limit \in Limits /\ Limits \subseteq Nat
  BY LimitAssumption DEF IInv, TypeOK
<1>3. ASSUME Taken' = Taken PROVE WithinHighestCeiling'
  BY <1>3 DEF WithinHighestCeiling
<1>4. ASSUME NEW n \in Limits, Ideal!Set(n) PROVE WithinHighestCeiling'
  BY <1>3, <1>4 DEF Ideal!Set
<1>5. ASSUME NEW s \in Services, Ideal!Admit(s) PROVE WithinHighestCeiling'
  <2>1. s \notin Taken /\ Taken' = Taken \cup {s} /\ Cardinality(Taken) < limit
    BY <1>5, SameCount DEF Ideal!Admit
  <2>2. Cardinality(Taken') = Cardinality(Taken) + 1
    BY <1>1, <2>1, FS_AddElement
  <2>3. Cardinality(Taken') <= limit
    BY <1>1, <1>2, <2>1, <2>2
  <2> QED BY <1>2, <2>3 DEF WithinHighestCeiling
<1>6. ASSUME NEW s \in Services, NEW c \in Calls, Ideal!Pass(s, c)
      PROVE  WithinHighestCeiling'
  <2>1. s \in Taken /\ c \notin Taken /\ Taken' = (Taken \ {s}) \cup {c}
    BY <1>6 DEF Ideal!Pass
  <2>2. /\ IsFiniteSet(Taken \ {s})
        /\ Cardinality(Taken \ {s}) = Cardinality(Taken) - 1
    BY <1>1, <2>1, FS_RemoveElement
  <2>3. Cardinality((Taken \ {s}) \cup {c}) = Cardinality(Taken \ {s}) + 1
    BY <2>1, <2>2, FS_AddElement
  <2>4. Cardinality(Taken') = Cardinality(Taken)
    BY <1>1, <2>1, <2>2, <2>3
  <2> QED BY <2>4 DEF WithinHighestCeiling
<1>7. ASSUME NEW h \in Services \cup Calls, Ideal!Leave(h)
      PROVE  WithinHighestCeiling'
  <2>1. h \in Taken /\ Taken' = Taken \ {h}
    BY <1>7 DEF Ideal!Leave
  <2>2. Cardinality(Taken') = Cardinality(Taken) - 1
    BY <1>1, <2>1, FS_RemoveElement
  <2> QED BY <1>1, <1>2, <2>2 DEF WithinHighestCeiling
<1> QED BY <1>3, <1>4, <1>5, <1>6, <1>7 DEF Ideal!Next

(* On one thread, any number of callers of set() keep to the highest        *)
(* ceiling, as one caller does beside concurrent requests: it is the        *)
(* overlap of their calls that costs.                                       *)
THEOREM SerialWithinHighestCeiling == PromptSpec => []WithinHighestCeiling
<1>1. Init => WithinHighestCeiling
  <2> SUFFICES ASSUME Init PROVE WithinHighestCeiling
    OBVIOUS
  <2>1. Taken = {} /\ limit \in Limits /\ limit \in Nat
    BY LimitAssumption DEF Init, DebtInit, SemInit, Taken
  <2> QED BY <2>1, FS_EmptySet DEF WithinHighestCeiling
<1>2. IInv /\ [SerialNext /\ Prompt]_vars => IInv'
  BY SerialIsLimit, NextIInv
<1>3. IInv /\ WithinHighestCeiling /\ [Ideal!Next]_<<limit, Taken>>
        => WithinHighestCeiling'
  BY IdealStepWithin
<1> QED BY InitIInv, SerialImplementsIdeal, <1>1, <1>2, <1>3, PTL
        DEF PromptSpec, ImplementsIdeal, Ideal!Spec
=============================================================================
