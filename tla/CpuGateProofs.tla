---------------------------- MODULE CpuGateProofs ----------------------------
(***************************************************************************)
(* Proofs about CpuGate, for any number of workers, services and calls and *)
(* any reserve: however the hooks of the runtime race with each other and  *)
(* with the requests, every idle worker is accounted for and the reserve   *)
(* is kept; without races the gate implements IdealLimit; and a Server on  *)
(* the workers the gate looks at comes to rest only when nobody waits.     *)
(***************************************************************************)
EXTENDS SerialGate, Server, SemaphoreFacts, FiniteSetTheorems

(* The invariant of the gate holds that of its semaphore.                   *)
LEMMA SemInvHolds == IInv => SemInv(Services)
BY DEF IInv, TypeOK, Exclusive, SemInv

(* Everything GateConservation counts is finite.                            *)
LEMMA Finiteness ==
  ASSUME TypeOK
  PROVE  /\ IsFiniteSet(Taken) /\ IsFiniteSet(adding) /\ IsFiniteSet(owing)
         /\ IsFiniteSet(parked)
         /\ Cardinality(Taken) \in Nat /\ Cardinality(adding) \in Nat
         /\ Cardinality(owing) \in Nat /\ Cardinality(parked) \in Nat
<1>1. IsFiniteSet(Services \cup Calls)
  BY GateAssumption, FS_Union
<1>2. IsFiniteSet(Workers \cup (Services \cup Calls))
  BY <1>1, GateAssumption, FS_Union
<1>3. /\ Taken \subseteq Services \cup Calls
      /\ adding \subseteq Workers \cup (Services \cup Calls)
  BY DEF TypeOK, Taken, Actors
<1>4. IsFiniteSet(Taken) /\ IsFiniteSet(adding)
  BY <1>1, <1>2, <1>3, FS_Subset
<1>5. IsFiniteSet(owing) /\ IsFiniteSet(parked)
  BY GateAssumption, FS_Subset DEF TypeOK
<1> QED BY <1>4, <1>5, FS_CardinalityType

(* The initial state: the reserve is all there is to account for.           *)
LEMMA InitIInv == Init => IInv
<1> SUFFICES ASSUME Init PROVE IInv
  OBVIOUS
<1>1. TypeOK
  BY GateAssumption DEF Init, DebtInit, SemInit, TypeOK
<1>2. Waiting = {} /\ Taken = {}
  BY DEF Init, DebtInit, SemInit, Waiting, ToSet, Taken
<1>3. Exclusive /\ NoIdlePermit
  BY <1>2 DEF Init, DebtInit, SemInit, Exclusive, NoIdlePermit, IsInjective
<1>4. GateConservation
  BY <1>1, <1>2, FS_EmptySet, GateAssumption
     DEF Init, DebtInit, SemInit, GateConservation, TypeOK
<1> QED BY <1>1, <1>3, <1>4 DEF IInv

(* A worker that goes idle pays debt off, or is about to add a permit.      *)
LEMMA ParkIInv ==
  ASSUME IInv, NEW w \in Workers, Park(w) PROVE IInv'
<1> USE DEF IInv
<1>1. /\ w \notin parked /\ w \notin adding /\ w \notin owing
      /\ w \notin granted /\ w \notin Waiting /\ w \notin reserved /\ w \notin admitted
      /\ parked' = parked \cup {w} /\ UNCHANGED <<reserved, admitted>>
      /\ UNCHANGED <<permits, queue, granted, owing>>
      /\ \/ debt > 0 /\ debt' = debt - 1 /\ adding' = adding
         \/ debt' = debt /\ adding' = adding \cup {w}
  BY GateAssumption DEF Park, Midway, Release, TypeOK, Waiting, ToSet
<1>2. Waiting' = Waiting /\ Taken' = Taken
  BY <1>1 DEF Waiting, Taken
<1>3. TypeOK' /\ NoIdlePermit'
  BY <1>1 DEF TypeOK, NoIdlePermit, Actors
<1>4. Exclusive'
  BY <1>1, <1>2 DEF Exclusive
<1>5. Cardinality(parked') = Cardinality(parked) + 1
  BY <1>1, Finiteness, FS_AddElement
<1>6. \/ debt' = debt - 1 /\ adding' = adding
      \/ debt' = debt /\ Cardinality(adding') = Cardinality(adding) + 1
  BY <1>1, Finiteness, FS_AddElement
<1>7. GateConservation'
  <2>1. permits' = permits /\ owing' = owing
    BY <1>1
  <2>2. /\ Cardinality(Taken) \in Nat /\ Cardinality(adding) \in Nat
        /\ Cardinality(owing) \in Nat /\ Cardinality(parked) \in Nat
        /\ permits \in Nat /\ debt \in Nat /\ Reserve \in Nat
    BY Finiteness, GateAssumption DEF TypeOK
  <2>3. GateConservation
    OBVIOUS
  <2> HIDE DEF IInv
  <2> QED BY <2>1, <2>2, <2>3, <1>2, <1>5, <1>6 DEF GateConservation
<1> QED BY <1>3, <1>4, <1>7

(* A worker that wakes up takes a permit back, or is about to owe one.      *)
LEMMA UnparkIInv ==
  ASSUME IInv, NEW w \in Workers, Unpark(w) PROVE IInv'
<1> USE DEF IInv
<1>1. /\ w \in parked /\ w \notin adding /\ w \notin owing
      /\ parked' = parked \ {w} /\ UNCHANGED <<reserved, admitted>>
      /\ UNCHANGED <<queue, granted, adding, debt>>
      /\ \/ permits > 0 /\ permits' = permits - 1 /\ owing' = owing
         \/ permits' = permits /\ owing' = owing \cup {w}
  BY DEF Unpark, Midway, Acquire, ForgetPermit
<1>2. Waiting' = Waiting /\ Taken' = Taken
  BY <1>1 DEF Waiting, Taken
<1>3. TypeOK' /\ NoIdlePermit'
  BY <1>1 DEF TypeOK, NoIdlePermit
<1>4. Exclusive'
  BY <1>1, <1>2 DEF Exclusive
<1>5. Cardinality(parked') = Cardinality(parked) - 1
  BY <1>1, Finiteness, FS_RemoveElement
<1>6. \/ permits' = permits - 1 /\ owing' = owing
      \/ permits' = permits /\ Cardinality(owing') = Cardinality(owing) + 1
  BY <1>1, Finiteness, FS_AddElement
<1>7. GateConservation'
  <2>1. debt' = debt /\ adding' = adding
    BY <1>1
  <2>2. /\ Cardinality(Taken) \in Nat /\ Cardinality(adding) \in Nat
        /\ Cardinality(owing) \in Nat /\ Cardinality(parked) \in Nat
        /\ permits \in Nat /\ debt \in Nat /\ Reserve \in Nat
    BY Finiteness, GateAssumption DEF TypeOK
  <2>3. GateConservation
    OBVIOUS
  <2> HIDE DEF IInv
  <2> QED BY <2>1, <2>2, <2>3, <1>2, <1>5, <1>6 DEF GateConservation
<1> QED BY <1>3, <1>4, <1>7

(* poll_ready takes a permit, or the place in the queue.                    *)
LEMMA PollReadyIInv ==
  ASSUME IInv, NEW s \in Services, PollReady(s) PROVE IInv'
<1> USE DEF IInv
<1>1. /\ s \notin reserved \cup adding /\ s \notin admitted
      /\ UNCHANGED <<debt, owing, adding, parked, admitted>>
  BY GateAssumption DEF PollReady, TypeOK
<1>2. CASE Acquired(s) /\ reserved' = reserved \cup {s}
  <2>1. /\ SemInv(Services)' /\ Waiting' = Waiting /\ s \notin granted'
        /\ \/ s \in granted /\ granted' = granted \ {s} /\ permits' = permits
           \/ /\ s \notin granted /\ granted' = granted /\ permits' = permits - 1
              /\ Waiting = {}
    BY <1>2, AcquiredFacts, SemInvHolds
  <2>2. TypeOK' /\ NoIdlePermit'
    BY <2>1, <1>1, <1>2 DEF TypeOK, SemInv
  <2>3. Exclusive'
    BY <2>1, <1>1, <1>2 DEF Exclusive, SemInv
  <2>4. \/ Taken' = Taken /\ permits' = permits
        \/ Taken' = Taken \cup {s} /\ s \notin Taken /\ permits' = permits - 1
    BY <2>1, <1>1, <1>2 DEF Taken
  <2>5. \/ Cardinality(Taken') = Cardinality(Taken) /\ permits' = permits
        \/ Cardinality(Taken') = Cardinality(Taken) + 1 /\ permits' = permits - 1
    BY <2>4, Finiteness, FS_AddElement
  <2>6. GateConservation'
    BY <2>5, <1>1, Finiteness, GateAssumption DEF GateConservation, TypeOK
  <2> QED BY <2>2, <2>3, <2>6
<1>3. CASE Enqueued(s) /\ UNCHANGED reserved
  <2>1. /\ SemInv(Services)' /\ Waiting' = Waiting \cup {s}
        /\ s \notin granted \cup Waiting
        /\ granted' = granted /\ permits' = permits
    BY <1>3, EnqueuedFacts, SemInvHolds
  <2>2. TypeOK' /\ NoIdlePermit'
    BY <2>1, <1>1, <1>3 DEF TypeOK, SemInv
  <2>3. Exclusive'
    BY <2>1, <1>1, <1>3 DEF Exclusive, SemInv
  <2>4. GateConservation'
    BY <2>1, <1>1, <1>3 DEF GateConservation, Taken
  <2> QED BY <2>2, <2>3, <2>4
<1> QED BY <1>2, <1>3 DEF PollReady

(* call hands the admission over.                                           *)
LEMMA CallIInv ==
  ASSUME IInv, NEW s \in Services, NEW c \in Calls, Call(s, c) PROVE IInv'
<1> USE DEF IInv
<1>1. /\ s \in reserved /\ c \notin admitted /\ c \notin adding
      /\ reserved' = reserved \ {s} /\ admitted' = admitted \cup {c}
      /\ UNCHANGED <<permits, queue, granted, debt, owing, adding, parked>>
  BY DEF Call, debtVars
<1>2. s \notin granted /\ s \notin admitted /\ c \notin granted /\ c \notin reserved
  BY <1>1, GateAssumption DEF TypeOK, Exclusive
<1>3. Waiting' = Waiting
  BY <1>1 DEF Waiting
<1>4. TypeOK' /\ NoIdlePermit'
  BY <1>1 DEF TypeOK, NoIdlePermit
<1>5. Exclusive'
  BY <1>1, <1>2, <1>3 DEF Exclusive, TypeOK
<1>6. Cardinality(Taken') = Cardinality(Taken)
  <2>1. /\ Taken' = (Taken \ {s}) \cup {c} /\ s \in Taken /\ c \notin Taken
    BY <1>1, <1>2 DEF Taken
  <2>2. /\ IsFiniteSet(Taken \ {s})
        /\ Cardinality(Taken \ {s}) = Cardinality(Taken) - 1
    BY <2>1, Finiteness, FS_RemoveElement
  <2>3. Cardinality((Taken \ {s}) \cup {c}) = Cardinality(Taken \ {s}) + 1
    BY <2>1, <2>2, FS_AddElement
  <2> QED BY <2>1, <2>2, <2>3, Finiteness
<1>7. GateConservation'
  BY <1>1, <1>6 DEF GateConservation
<1> QED BY <1>4, <1>5, <1>7

(* An Admission that is dropped pays debt off, or is about to be a permit.  *)
LEMMA DropAdmissionIInv ==
  ASSUME IInv, NEW h \in reserved \cup admitted, Release(h),
         reserved' = reserved \ {h}, admitted' = admitted \ {h},
         UNCHANGED parked
  PROVE  IInv'
<1> USE DEF IInv
<1>1. /\ h \in Actors /\ h \notin granted /\ h \notin Waiting
      /\ h \notin adding /\ h \notin Workers
  BY GateAssumption DEF TypeOK, Exclusive, Actors, Waiting, ToSet
<1>2. /\ UNCHANGED <<permits, queue, granted, owing>>
      /\ \/ debt > 0 /\ debt' = debt - 1 /\ adding' = adding
         \/ debt' = debt /\ adding' = adding \cup {h}
  BY DEF Release
<1>3. Waiting' = Waiting
  BY <1>2 DEF Waiting
<1>4. TypeOK' /\ NoIdlePermit'
  BY <1>1, <1>2 DEF TypeOK, NoIdlePermit
<1>5. Exclusive'
  BY <1>1, <1>2, <1>3 DEF Exclusive, TypeOK
<1>6. Taken' = Taken \ {h} /\ h \in Taken
  BY <1>1, <1>2 DEF Taken
<1>7. Cardinality(Taken') = Cardinality(Taken) - 1
  BY <1>6, Finiteness, FS_RemoveElement
<1>8. \/ debt' = debt - 1 /\ adding' = adding
      \/ debt' = debt /\ Cardinality(adding') = Cardinality(adding) + 1
  BY <1>1, <1>2, Finiteness, FS_AddElement
<1>9. GateConservation'
  BY <1>2, <1>7, <1>8, Finiteness, GateAssumption DEF GateConservation, TypeOK
<1> QED BY <1>4, <1>5, <1>9

(* An abandoned wait takes nothing along, not even a permit already handed. *)
LEMMA DropWaitingIInv ==
  ASSUME IInv, NEW s \in Services, DropWaiting(s) PROVE IInv'
<1> USE DEF IInv
<1>1. UNCHANGED <<debt, owing, adding, parked, reserved, admitted>>
  BY DEF DropWaiting
<1>2. /\ SemInv(Services)' /\ Waiting' \cup granted' \subseteq Waiting \cup granted
      /\ \/ granted' = granted /\ permits' = permits
         \/ /\ s \in granted
            /\ granted' = granted \ {s} /\ permits' = permits + 1
         \/ /\ s \in granted /\ permits' = permits
            /\ \E w \in Waiting : granted' = (granted \ {s}) \cup {w}
  BY AbandonedFacts, SemInvHolds DEF DropWaiting
<1>3. TypeOK' /\ NoIdlePermit'
  BY <1>1, <1>2 DEF TypeOK, SemInv
<1>4. Exclusive'
  BY <1>1, <1>2 DEF Exclusive, SemInv
<1>5. permits' + Cardinality(Taken') = permits + Cardinality(Taken)
  <2>1. CASE granted' = granted /\ permits' = permits
    BY <2>1, <1>1 DEF Taken
  <2>2. CASE s \in granted /\ granted' = granted \ {s} /\ permits' = permits + 1
    <3>1. Taken' = Taken \ {s} /\ s \in Taken
      BY <2>2, <1>1, GateAssumption DEF Taken, Exclusive, TypeOK
    <3>2. Cardinality(Taken') = Cardinality(Taken) - 1
      BY <3>1, Finiteness, FS_RemoveElement
    <3> QED BY <2>2, <3>2, Finiteness DEF TypeOK
  <2>3. CASE s \in granted /\ permits' = permits
             /\ \E w \in Waiting : granted' = (granted \ {s}) \cup {w}
    <3>1. PICK w \in Waiting : granted' = (granted \ {s}) \cup {w}
      BY <2>3
    <3>2. w \in Services
      BY DEF Waiting, ToSet, TypeOK
    <3>3. /\ Taken' = (Taken \ {s}) \cup {w}
          /\ s \in Taken /\ w \notin Taken
      BY <2>3, <3>1, <3>2, <1>1, GateAssumption DEF Taken, Exclusive, TypeOK
    <3>4. /\ IsFiniteSet(Taken \ {s})
          /\ Cardinality(Taken \ {s}) = Cardinality(Taken) - 1
      BY <3>3, Finiteness, FS_RemoveElement
    <3>5. Cardinality((Taken \ {s}) \cup {w}) = Cardinality(Taken \ {s}) + 1
      BY <3>3, <3>4, FS_AddElement
    <3> QED BY <2>3, <3>3, <3>4, <3>5, Finiteness
  <2> QED BY <1>2, <2>1, <2>2, <2>3
<1>6. GateConservation'
  <2>1. permits' \in Nat /\ Cardinality(Taken') \in Nat
    <3>1. IsFiniteSet(Services \cup Calls)
      BY GateAssumption, FS_Union
    <3>2. Taken' \in SUBSET (Services \cup Calls)
      BY <1>3 DEF Taken, TypeOK
    <3> QED BY <3>1, <3>2, <1>3, FS_Subset, FS_CardinalityType DEF TypeOK
  <2> QED BY <2>1, <1>1, <1>5, Finiteness, GateAssumption DEF GateConservation, TypeOK
<1> QED BY <1>3, <1>4, <1>6

(* The second half: the unit is booked as debt, or reaches the semaphore.   *)
LEMMA CompleteIInv ==
  ASSUME IInv, NEW a \in Actors, Complete(a) PROVE IInv'
<1> USE DEF IInv
<1>1. UNCHANGED <<parked, reserved, admitted>>
  BY DEF Complete
<1>2. CASE Owe(a)
  <2>1. /\ a \in owing /\ owing' = owing \ {a} /\ debt' = debt + 1
        /\ UNCHANGED <<permits, queue, granted, adding>>
    BY <1>2 DEF Owe
  <2>2. Taken' = Taken /\ Waiting' = Waiting
    BY <1>1, <2>1 DEF Taken, Waiting
  <2>3. TypeOK' /\ NoIdlePermit'
    BY <1>1, <2>1 DEF TypeOK, NoIdlePermit
  <2>4. Exclusive'
    BY <1>1, <2>1, <2>2 DEF Exclusive
  <2>5. Cardinality(owing') = Cardinality(owing) - 1
    BY <2>1, Finiteness, FS_RemoveElement
  <2>6. GateConservation'
    BY <1>1, <2>1, <2>2, <2>5, Finiteness, GateAssumption DEF GateConservation, TypeOK
  <2> QED BY <2>3, <2>4, <2>6
<1>3. CASE Add(a)
  <2>1. /\ a \in adding /\ adding' = adding \ {a}
        /\ UNCHANGED <<debt, owing>>
    BY <1>3 DEF Add
  <2>2. /\ SemInv(Services)'
        /\ Waiting' \cup granted' = Waiting \cup granted
        /\ \/ permits' = permits + 1 /\ granted' = granted
           \/ /\ permits' = permits
              /\ \E s \in Waiting : granted' = granted \cup {s}
    BY <1>3, AddPermitFacts, SemInvHolds DEF Add
  <2>3. TypeOK' /\ NoIdlePermit'
    BY <1>1, <2>1, <2>2 DEF TypeOK, SemInv
  <2>4. Exclusive'
    BY <1>1, <2>1, <2>2 DEF Exclusive, SemInv
  <2>5. Cardinality(adding') = Cardinality(adding) - 1
    BY <2>1, Finiteness, FS_RemoveElement
  <2>6. permits' + Cardinality(Taken') = permits + Cardinality(Taken) + 1
    <3>1. CASE permits' = permits + 1 /\ granted' = granted
      BY <3>1, <1>1, Finiteness DEF Taken, TypeOK
    <3>2. CASE permits' = permits /\ \E s \in Waiting : granted' = granted \cup {s}
      <4>1. PICK s \in Waiting : granted' = granted \cup {s}
        BY <3>2
      <4>2. s \in Services
        BY DEF Waiting, ToSet, TypeOK
      <4>3. Taken' = Taken \cup {s} /\ s \notin Taken
        BY <4>1, <4>2, <1>1, GateAssumption DEF Taken, Exclusive, TypeOK
      <4>4. Cardinality(Taken') = Cardinality(Taken) + 1
        BY <4>3, Finiteness, FS_AddElement
      <4> QED BY <3>2, <4>4, Finiteness DEF TypeOK
    <3> QED BY <2>2, <3>1, <3>2
  <2>7. permits' \in Nat /\ Cardinality(Taken') \in Nat
    <3>1. IsFiniteSet(Services \cup Calls)
      BY GateAssumption, FS_Union
    <3>2. Taken' \in SUBSET (Services \cup Calls)
      BY <2>3 DEF Taken, TypeOK
    <3> QED BY <3>1, <3>2, <2>3, FS_Subset, FS_CardinalityType DEF TypeOK
  <2>8. GateConservation'
    BY <1>1, <2>1, <2>5, <2>6, <2>7, Finiteness, GateAssumption
       DEF GateConservation, TypeOK
  <2> QED BY <2>3, <2>4, <2>8
<1> QED BY <1>2, <1>3 DEF Complete
-----------------------------------------------------------------------------
(* Every step keeps the invariant.                                          *)
LEMMA NextIInv == IInv /\ [Next]_vars => IInv'
<1> SUFFICES ASSUME IInv, [Next]_vars PROVE IInv'
  OBVIOUS
<1>1. CASE UNCHANGED vars
  BY <1>1 DEF vars, debtVars, IInv, TypeOK, Exclusive, NoIdlePermit, GateConservation,
     Taken, Waiting
<1>2. ASSUME NEW w \in Workers, WorkerStep(w) PROVE IInv'
  BY <1>2, ParkIInv, UnparkIInv DEF WorkerStep
<1>3. ASSUME NEW c \in Calls, FirstPollOrDrop(c) PROVE IInv'
  <2>1. /\ c \in reserved \cup admitted /\ Release(c) /\ UNCHANGED parked
        /\ reserved' = reserved \ {c} /\ admitted' = admitted \ {c}
    BY <1>3, GateAssumption DEF FirstPollOrDrop, IInv, TypeOK
  <2> QED BY <2>1, DropAdmissionIInv
<1>4. ASSUME NEW s \in Services, DropReserved(s) PROVE IInv'
  <2>1. /\ s \in reserved \cup admitted /\ Release(s) /\ UNCHANGED parked
        /\ reserved' = reserved \ {s} /\ admitted' = admitted \ {s}
    BY <1>4, GateAssumption DEF DropReserved, IInv, TypeOK
  <2> QED BY <2>1, DropAdmissionIInv
<1>5. ASSUME NEW s \in Services, ServiceStep(s) PROVE IInv'
  BY <1>4, <1>5, PollReadyIInv, DropWaitingIInv, CallIInv DEF ServiceStep
<1>6. ASSUME NEW a \in Actors, Complete(a) PROVE IInv'
  BY <1>6, CompleteIInv
<1> QED BY <1>1, <1>2, <1>3, <1>5, <1>6 DEF Next

(* IInv is an invariant of CpuGate.                                         *)
THEOREM IInvHolds == Spec => []IInv
BY InitIInv, NextIInv, PTL DEF Spec

(* The permits and the debt keep their types: whatever the hooks race with, *)
(* neither ever goes below zero, and no request waits twice.                *)
THEOREM TypeCorrect == Spec => []TypeOK
<1>1. IInv => TypeOK
  BY DEF IInv
<1> QED BY <1>1, IInvHolds, PTL

(* Hooks of many workers and requests of many tasks share one debt, and no  *)
(* interleaving of them creates or loses an idle worker.                    *)
THEOREM IdleWorkersConserved == Spec => []GateConservation
<1>1. IInv => GateConservation
  BY DEF IInv
<1> QED BY <1>1, IInvHolds, PTL

(* A service is kept waiting at the gate only when the idle workers are all *)
(* reserved, claimed or just being offered: no unpark, park or release that *)
(* races with the queue loses a wake-up.                                    *)
THEOREM WaitsOnlyForWorkers ==
  Spec => [](queue # <<>> =>
               Cardinality(parked) <= Reserve + Cardinality(Taken) + Cardinality(adding))
<1>1. IInv => (queue # <<>> =>
                 Cardinality(parked) <= Reserve + Cardinality(Taken) + Cardinality(adding))
  <2> SUFFICES ASSUME IInv, queue # <<>>
               PROVE  Cardinality(parked) <= Reserve + Cardinality(Taken) + Cardinality(adding)
    OBVIOUS
  <2>1. permits = 0
    BY DEF IInv, NoIdlePermit
  <2>2. /\ Cardinality(Taken) \in Nat /\ Cardinality(adding) \in Nat
        /\ Cardinality(parked) \in Nat /\ Cardinality(owing) \in Nat
        /\ debt \in Nat /\ Reserve \in Nat
    BY Finiteness, FS_CardinalityType, GateAssumption DEF IInv, TypeOK
  <2> QED BY <2>1, <2>2 DEF IInv, GateConservation
<1> QED BY <1>1, IInvHolds, PTL
-----------------------------------------------------------------------------
(* Whatever step the gate takes, only an unpark hook adds to what is owed,  *)
(* and it has just taken its worker out of the parked ones.                 *)
LEMMA OwedStep ==
  ASSUME IInv, OwedByRunning, [Next]_vars
  PROVE  OwedByRunning'
<1> DEFINE up == Workers \ parked
<1> USE DEF IInv, TypeOK
<1>1. /\ IsFiniteSet(up) /\ Cardinality(up) \in Nat
      /\ IsFiniteSet(owing) /\ Cardinality(owing) \in Nat
      /\ debt \in Nat /\ Reserve \in Nat /\ Cardinality(Workers) \in Nat
      /\ owing \subseteq up
  BY Finiteness, GateAssumption, FS_Subset, FS_CardinalityType DEF OwedByRunning
<1>2. ASSUME parked' = parked, owing' = owing, debt' = debt \/ (debt > 0 /\ debt' = debt - 1)
      PROVE  OwedByRunning'
  BY <1>1, <1>2 DEF OwedByRunning
<1>3. ASSUME NEW w \in Workers, Park(w) PROVE OwedByRunning'
  <2>1. /\ w \in up /\ w \notin owing /\ parked' = parked \cup {w}
        /\ owing' = owing
        /\ (debt > 0 /\ debt' = debt - 1) \/ (debt = 0 /\ debt' = 0)
    BY <1>3 DEF Park, Release, Midway
  <2>2. /\ Workers \ parked' = up \ {w} /\ owing \subseteq up \ {w}
        /\ owing' \cap parked' = {}
    BY <1>1, <2>1
  <2>3. /\ IsFiniteSet(up \ {w}) /\ Cardinality(up \ {w}) = Cardinality(up) - 1
    <3>1. IsFiniteSet(up) /\ w \in up
      BY <1>1, <2>1
    <3> HIDE DEF up
    <3> QED BY <3>1, FS_RemoveElement
  <2>4. Cardinality(owing) <= Cardinality(up \ {w})
    BY <2>2, <2>3, FS_Subset
  <2>5. Reserve <= Cardinality(Workers) => debt + Cardinality(owing) <= Cardinality(up)
    BY DEF OwedByRunning
  <2>6. Reserve <= Cardinality(Workers)
          => debt' + Cardinality(owing') <= Cardinality(up \ {w})
    BY <1>1, <2>1, <2>3, <2>4, <2>5
  <2> QED BY <2>2, <2>6 DEF OwedByRunning
<1>4. ASSUME NEW w \in Workers, Unpark(w) PROVE OwedByRunning'
  <2>1. /\ w \in parked /\ w \notin owing /\ parked' = parked \ {w} /\ debt' = debt
        /\ owing' = owing \/ owing' = owing \cup {w}
    BY <1>4 DEF Unpark, Acquire, ForgetPermit, Midway
  <2>2. Workers \ parked' = up \cup {w} /\ w \notin up /\ owing' \cap parked' = {}
    BY <1>1, <2>1
  <2>3. Cardinality(up \cup {w}) = Cardinality(up) + 1
    BY <1>1, <2>2, FS_AddElement
  <2>4. \/ Cardinality(owing') = Cardinality(owing)
        \/ Cardinality(owing') = Cardinality(owing) + 1
    BY <1>1, <2>1, FS_AddElement
  <2>5. Reserve <= Cardinality(Workers) => debt + Cardinality(owing) <= Cardinality(up)
    BY DEF OwedByRunning
  <2>6. Reserve <= Cardinality(Workers)
          => debt' + Cardinality(owing') <= Cardinality(up \cup {w})
    BY <1>1, <2>1, <2>3, <2>4, <2>5
  <2> QED BY <2>2, <2>6 DEF OwedByRunning
<1>5. ASSUME NEW s \in Services, ServiceStep(s) PROVE OwedByRunning'
  BY <1>2, <1>5 DEF ServiceStep, PollReady, DropReserved, DropWaiting, Call,
     Release, debtVars
<1>6. ASSUME NEW c \in Calls, FirstPollOrDrop(c) PROVE OwedByRunning'
  BY <1>2, <1>6 DEF FirstPollOrDrop, Release
<1>7. ASSUME NEW a \in Actors, Complete(a) PROVE OwedByRunning'
  <2>1. CASE Add(a)
    BY <1>2, <1>7, <2>1 DEF Complete, Add
  <2>2. CASE Owe(a)
    <3>1. /\ a \in owing /\ owing' = owing \ {a} /\ debt' = debt + 1 /\ parked' = parked
      BY <1>7, <2>2 DEF Complete, Owe
    <3>2. Cardinality(owing') = Cardinality(owing) - 1
      BY <1>1, <3>1, FS_RemoveElement
    <3> QED BY <1>1, <3>1, <3>2 DEF OwedByRunning
  <2> QED BY <1>7, <2>1, <2>2 DEF Complete
<1>8. CASE UNCHANGED vars
  BY <1>2, <1>8 DEF vars, debtVars
<1> QED BY <1>3, <1>4, <1>5, <1>6, <1>7, <1>8 DEF Next, WorkerStep

(* All that is owed is owed for workers that are running.                   *)
LEMMA OwedHolds == Spec => []OwedByRunning
<1>1. Init => OwedByRunning
  <2> SUFFICES ASSUME Init PROVE OwedByRunning
    OBVIOUS
  <2>1. owing = {} /\ parked = {} /\ debt = Reserve /\ Workers \ parked = Workers
    BY DEF Init, DebtInit
  <2> QED BY <2>1, FS_EmptySet, GateAssumption, FS_CardinalityType DEF OwedByRunning
<1>2. IInv /\ OwedByRunning /\ [Next]_vars => OwedByRunning'
  BY OwedStep
<1> QED BY <1>1, <1>2, IInvHolds, PTL DEF Spec

(* What is parked and what is running are all the workers.                  *)
LEMMA ParkedOrRunning ==
  ASSUME TypeOK
  PROVE  /\ Cardinality(parked) + Cardinality(Workers \ parked) = Cardinality(Workers)
         /\ Cardinality(parked) \in Nat /\ Cardinality(Workers \ parked) \in Nat
<1> DEFINE up == Workers \ parked
<1>1. IsFiniteSet(parked) /\ IsFiniteSet(up) /\ parked \cap up = {}
  BY GateAssumption, FS_Subset DEF TypeOK
<1>2. parked \cup up = Workers
  BY DEF TypeOK
<1>3. Cardinality(parked) \in Nat /\ Cardinality(up) \in Nat
  BY <1>1, FS_CardinalityType
<1>4. Cardinality(parked \cup up)
        = Cardinality(parked) + Cardinality(up) - Cardinality(parked \cap up)
  BY <1>1, FS_Union
<1> HIDE DEF up
<1>5. Cardinality(Workers) = Cardinality(parked) + Cardinality(up) - 0
  BY <1>1, <1>2, <1>4, FS_EmptySet
<1> QED BY <1>3, <1>5 DEF up

(* No interleaving of hooks, first polls and cancellations ever eats into   *)
(* the reserve.                                                             *)
THEOREM ReserveKept == Spec => []ClaimsWithinSpare
<1>1. IInv /\ OwedByRunning => ClaimsWithinSpare
  <2> SUFFICES ASSUME IInv, OwedByRunning, Reserve <= Cardinality(Workers)
               PROVE  permits + Cardinality(Taken) + Cardinality(adding)
                        <= Cardinality(Workers) - Reserve
    BY DEF ClaimsWithinSpare
  <2>1. TypeOK /\ GateConservation
    BY DEF IInv
  <2>2. /\ permits \in Nat /\ debt \in Nat /\ Reserve \in Nat
        /\ Cardinality(Taken) \in Nat /\ Cardinality(adding) \in Nat
        /\ Cardinality(owing) \in Nat /\ Cardinality(parked) \in Nat
        /\ Cardinality(Workers \ parked) \in Nat
    BY <2>1, Finiteness, ParkedOrRunning, GateAssumption DEF TypeOK
  <2>3. debt + Cardinality(owing) <= Cardinality(Workers \ parked)
    BY DEF OwedByRunning
  <2> QED BY <2>1, <2>2, <2>3, ParkedOrRunning DEF GateConservation
<1> QED BY <1>1, IInvHolds, OwedHolds, PTL

(* A machine at rest owes nothing and offers all its spare workers, however *)
(* its hooks raced before.                                                  *)
THEOREM RestIsExact == Spec => []RestOffersSpare
<1>1. IInv /\ OwedByRunning => RestOffersSpare
  <2> SUFFICES ASSUME IInv, OwedByRunning, Reserve <= Cardinality(Workers),
                      parked = Workers, Midway = {}
               PROVE  debt = 0 /\ permits + Cardinality(Taken) = Cardinality(Workers) - Reserve
    BY DEF RestOffersSpare
  <2>1. TypeOK /\ GateConservation
    BY DEF IInv
  <2>2. /\ permits \in Nat /\ debt \in Nat /\ Reserve \in Nat
        /\ Cardinality(Taken) \in Nat /\ Cardinality(Workers) \in Nat
    BY <2>1, Finiteness, GateAssumption, FS_CardinalityType DEF TypeOK
  <2>3. owing = {} /\ adding = {} /\ Workers \ parked = {}
    BY DEF Midway
  <2>4. Cardinality(owing) = 0 /\ Cardinality(adding) = 0 /\ Cardinality(Workers \ parked) = 0
    BY <2>3, FS_EmptySet
  <2>5. debt = 0
    BY <2>2, <2>4 DEF OwedByRunning
  <2> QED BY <2>1, <2>2, <2>4, <2>5 DEF GateConservation
<1> QED BY <1>1, IInvHolds, OwedHolds, PTL
-----------------------------------------------------------------------------
(* The gate without races is the ideal limit.                               *)

(* IdealLimit counts as this module does.                                   *)
LEMMA SameCount == \A S : Ideal!Cardinality(S) = Cardinality(S)
BY DEF Ideal!Cardinality, Cardinality

(* A free permit, or one that is about to be added while somebody waits,    *)
(* stands for an idle worker nobody claims.                                 *)
LEMMA Room ==
  ASSUME IInv, SerialInv,
         \/ Midway = {} /\ permits > 0
         \/ adding # {} /\ queue # <<>>
  PROVE  Cardinality(Taken) < Spare
<1>1. /\ permits \in Nat /\ debt \in Nat /\ Reserve \in Nat
      /\ Cardinality(Taken) \in Nat /\ Cardinality(adding) \in Nat
      /\ Cardinality(owing) \in Nat /\ Cardinality(parked) \in Nat
  BY Finiteness, GateAssumption DEF IInv, TypeOK
<1>2. GateConservation
  BY DEF IInv
<1>3. CASE Midway = {} /\ permits > 0
  <2>1. owing = {} /\ adding = {} /\ debt = 0
    BY <1>3 DEF Midway, SerialInv
  <2>2. Cardinality(owing) = 0 /\ Cardinality(adding) = 0
    BY <2>1, FS_EmptySet
  <2> QED BY <1>1, <1>2, <1>3, <2>1, <2>2 DEF GateConservation, Spare
<1>4. CASE adding # {} /\ queue # <<>>
  <2>1. debt = 0 /\ permits = 0
    BY <1>4 DEF SerialInv, IInv, NoIdlePermit
  <2>2. PICK a \in adding : adding = {a}
    BY <1>4 DEF SerialInv, Midway
  <2>3. owing = {}
    BY <2>2 DEF SerialInv, Midway, IInv, Exclusive
  <2>4. Cardinality(owing) = 0 /\ Cardinality(adding) = 1
    BY <2>2, <2>3, FS_EmptySet, FS_Singleton
  <2> QED BY <1>1, <1>2, <2>1, <2>4 DEF GateConservation, Spare
<1> QED BY <1>3, <1>4

(* The hooks move the ceiling, by the worker that parks or wakes up.        *)
LEMMA HookIdeal ==
  ASSUME IInv, SerialInv, Midway = {}, NEW w \in Workers, WorkerStep(w)
  PROVE  SerialInv' /\ \E n \in -Reserve..Cardinality(Workers) : Ideal!Set(n)
<1>1. /\ parked' \subseteq Workers
      /\ UNCHANGED <<granted, reserved, admitted>>
      /\ Release(w) \/ Acquire(w)
  BY DEF WorkerStep, Park, Unpark, Release, Acquire, ForgetPermit, IInv, TypeOK
<1>2. Taken' = Taken
  BY <1>1 DEF Taken
<1>3. Spare' \in -Reserve..Cardinality(Workers)
  <2>1. IsFiniteSet(Workers) /\ Reserve \in Nat
    BY GateAssumption
  <2>2. /\ Cardinality(parked') \in Nat /\ Cardinality(Workers) \in Nat
        /\ Cardinality(parked') <= Cardinality(Workers)
    BY <1>1, <2>1, FS_Subset, FS_CardinalityType
  <2> QED BY <2>1, <2>2 DEF Spare
<1>4. SerialInv'
  <2>1. owing = {} /\ adding = {} /\ permits \in Nat /\ debt \in Nat
    BY DEF Midway, IInv, TypeOK
  <2> QED BY <1>1, <2>1 DEF SerialInv, Midway, Release, Acquire, ForgetPermit
<1> QED BY <1>2, <1>3, <1>4 DEF Ideal!Set

(* An admission that is dropped or used up leaves.                          *)
LEMMA LeaveIdeal ==
  ASSUME IInv, SerialInv, Midway = {}, NEW h \in Services \cup Calls,
         h \in reserved \cup admitted, h \notin granted,
         admitted' = admitted \ {h}, reserved' = reserved \ {h},
         Release(h), UNCHANGED parked
  PROVE  SerialInv' /\ Ideal!Leave(h)
<1>1. h \in Taken /\ Taken' = Taken \ {h}
  BY DEF Taken, Release
<1>2. SerialInv'
  BY DEF SerialInv, Release, Midway
<1> QED BY <1>1, <1>2 DEF Ideal!Leave, Spare

(* poll_ready admits while a worker is to spare, or changes nothing.        *)
LEMMA PollReadyIdeal ==
  ASSUME IInv, SerialInv, Midway = {}, NEW s \in Services, PollReady(s)
  PROVE  SerialInv' /\ (Ideal!Admit(s) \/ UNCHANGED <<Spare, Taken>>)
<1>1. /\ s \notin reserved /\ s \notin admitted
      /\ UNCHANGED <<debt, owing, adding, parked, admitted>>
  BY GateAssumption DEF PollReady, IInv, TypeOK
<1>2. Spare' = Spare
  BY <1>1 DEF Spare
<1>3. owing = {} /\ adding = {} /\ permits \in Nat
  BY DEF Midway, IInv, TypeOK
<1>4. CASE Acquired(s) /\ reserved' = reserved \cup {s}
  <2>1. \/ s \in granted /\ granted' = granted \ {s} /\ permits' = permits
        \/ /\ s \notin granted /\ granted' = granted
           /\ permits > 0 /\ permits' = permits - 1
    BY <1>4 DEF Acquired, ForgetPermit
  <2>2. SerialInv'
    BY <1>1, <1>3, <2>1 DEF SerialInv, Midway
  <2>3. CASE s \in granted /\ granted' = granted \ {s}
    BY <1>1, <1>2, <1>4, <2>2, <2>3 DEF Taken
  <2>4. CASE s \notin granted /\ granted' = granted /\ permits > 0
    <3>1. s \notin Taken /\ Taken' = Taken \cup {s}
      BY <1>1, <1>4, <2>4 DEF Taken
    <3> QED BY <1>2, <2>2, <2>4, <3>1, Room, SameCount DEF Ideal!Admit
  <2> QED BY <2>1, <2>3, <2>4
<1>5. CASE Enqueued(s) /\ UNCHANGED reserved
  BY <1>1, <1>2, <1>5 DEF Enqueued, SerialInv, Midway, Taken
<1> QED BY <1>4, <1>5 DEF PollReady

(* call passes the admission on.                                            *)
LEMMA CallIdeal ==
  ASSUME IInv, SerialInv, NEW s \in Services, NEW c \in Calls, Call(s, c)
  PROVE  SerialInv' /\ Ideal!Pass(s, c)
<1>1. /\ s \in reserved /\ c \notin admitted
      /\ reserved' = reserved \ {s} /\ admitted' = admitted \cup {c}
      /\ UNCHANGED <<permits, queue, granted, debt, owing, adding, parked>>
  BY DEF Call, debtVars
<1>2. SerialInv' /\ Spare' = Spare
  BY <1>1 DEF SerialInv, Midway, Spare
<1>3. s \in Taken /\ c \notin Taken /\ Taken' = (Taken \ {s}) \cup {c}
  BY <1>1, GateAssumption DEF IInv, TypeOK, Exclusive, Taken
<1> QED BY <1>2, <1>3 DEF Ideal!Pass

(* A service that has been handed nothing leaves the queue unnoticed.       *)
LEMMA DropWaitingIdeal ==
  ASSUME SerialInv, NEW s \in Services, DropWaiting(s), Prompt
  PROVE  SerialInv' /\ UNCHANGED <<Spare, Taken>>
<1>1. s \notin granted
  BY DEF Prompt
<1>2. UNCHANGED <<permits, granted, debt, owing, adding, parked, reserved, admitted>>
  BY <1>1 DEF DropWaiting, Abandoned
<1> QED BY <1>2 DEF SerialInv, Midway, Taken, Spare

(* The second half of a hook or of a release hands a permit to a waiter, or *)
(* is nobody's business.                                                    *)
LEMMA CompleteIdeal ==
  ASSUME IInv, SerialInv, NEW a \in Actors, Complete(a)
  PROVE  SerialInv' /\ (Ideal!Next \/ UNCHANGED <<Spare, Taken>>)
<1>1. /\ UNCHANGED <<parked, reserved, admitted>> /\ Spare' = Spare
      /\ permits \in Nat /\ debt \in Nat
  BY DEF Complete, IInv, TypeOK, Spare
<1>2. CASE Owe(a)
  <2>1. /\ a \in owing /\ owing' = owing \ {a} /\ debt' = debt + 1
        /\ UNCHANGED <<permits, queue, granted, adding>>
    BY <1>2 DEF Owe
  <2>2. permits = 0 /\ adding = {} /\ owing' = {}
    BY <2>1 DEF SerialInv, Midway, IInv, Exclusive
  <2>3. SerialInv'
    BY <2>1, <2>2 DEF SerialInv, Midway
  <2> QED BY <1>1, <2>1, <2>3 DEF Taken
<1>3. CASE Add(a)
  <2>1. /\ a \in adding /\ adding' = adding \ {a} /\ AddPermit
        /\ UNCHANGED <<debt, owing>>
    BY <1>3 DEF Add
  <2>2. debt = 0 /\ owing = {} /\ adding' = {}
    BY <2>1 DEF SerialInv, Midway, IInv, Exclusive
  <2>3. SerialInv'
    BY <2>1, <2>2 DEF SerialInv, Midway
  <2>4. CASE queue = <<>>
    BY <1>1, <2>1, <2>3, <2>4 DEF AddPermit, Taken
  <2>5. CASE queue # <<>>
    <3> DEFINE h == Head(queue)
    <3>1. h \in Services /\ h \in Waiting
      BY <2>5, HeadTailFacts DEF IInv, TypeOK, Exclusive, Waiting
    <3>2. granted' = granted \cup {h}
      BY <2>1, <2>5 DEF AddPermit
    <3> HIDE DEF h
    <3>3. h \notin Taken /\ Taken' = Taken \cup {h}
      BY <1>1, <3>1, <3>2, GateAssumption DEF Taken, IInv, TypeOK, Exclusive
    <3>4. Cardinality(Taken) < Spare
      BY <2>1, <2>5, Room
    <3> QED BY <1>1, <2>3, <3>1, <3>3, <3>4, SameCount DEF Ideal!Next, Ideal!Admit
  <2> QED BY <2>4, <2>5
<1> QED BY <1>2, <1>3 DEF Complete

(* Every step of the serial gate is one of the ideal limit, or none.        *)
LEMMA SerialStepIdeal ==
  ASSUME IInv, SerialInv, [SerialNext /\ Prompt]_vars
  PROVE  SerialInv' /\ [Ideal!Next]_<<Spare, Taken>>
<1>1. CASE UNCHANGED vars
  BY <1>1 DEF vars, debtVars, SerialInv, Midway, Taken, Spare
<1>2. ASSUME NEW a \in Actors, Complete(a)
      PROVE  SerialInv' /\ [Ideal!Next]_<<Spare, Taken>>
  BY <1>2, CompleteIdeal
<1>3. ASSUME Midway = {}, Next, Prompt
      PROVE  SerialInv' /\ [Ideal!Next]_<<Spare, Taken>>
  <2>1. ASSUME NEW w \in Workers, WorkerStep(w)
        PROVE  SerialInv' /\ [Ideal!Next]_<<Spare, Taken>>
    BY <1>3, <2>1, HookIdeal DEF Ideal!Next
  <2>2. ASSUME NEW s \in Services, PollReady(s)
        PROVE  SerialInv' /\ [Ideal!Next]_<<Spare, Taken>>
    BY <1>3, <2>2, PollReadyIdeal DEF Ideal!Next
  <2>3. ASSUME NEW s \in Services, NEW c \in Calls, Call(s, c)
        PROVE  SerialInv' /\ [Ideal!Next]_<<Spare, Taken>>
    BY <2>3, CallIdeal DEF Ideal!Next
  <2>4. ASSUME NEW s \in Services, DropReserved(s)
        PROVE  SerialInv' /\ [Ideal!Next]_<<Spare, Taken>>
    <3>1. /\ s \in reserved /\ s \notin admitted /\ s \notin granted
          /\ reserved' = reserved \ {s} /\ admitted' = admitted \ {s}
          /\ Release(s) /\ parked' = parked
      BY <2>4, GateAssumption DEF DropReserved, IInv, TypeOK, Exclusive
    <3>2. SerialInv' /\ Ideal!Leave(s)
      BY <1>3, <3>1, LeaveIdeal
    <3> QED BY <3>2 DEF Ideal!Next
  <2>5. ASSUME NEW s \in Services, DropWaiting(s)
        PROVE  SerialInv' /\ [Ideal!Next]_<<Spare, Taken>>
    BY <1>3, <2>5, DropWaitingIdeal
  <2>6. ASSUME NEW c \in Calls, FirstPollOrDrop(c)
        PROVE  SerialInv' /\ [Ideal!Next]_<<Spare, Taken>>
    <3>1. /\ c \in admitted /\ c \notin reserved /\ c \notin granted
          /\ reserved' = reserved \ {c} /\ admitted' = admitted \ {c}
          /\ Release(c) /\ parked' = parked
      BY <2>6, GateAssumption DEF FirstPollOrDrop, IInv, TypeOK
    <3>2. SerialInv' /\ Ideal!Leave(c)
      BY <1>3, <3>1, LeaveIdeal
    <3> QED BY <3>2 DEF Ideal!Next
  <2> QED BY <1>2, <1>3, <2>1, <2>2, <2>3, <2>4, <2>5, <2>6 DEF Next, ServiceStep
<1> QED BY <1>1, <1>2, <1>3 DEF SerialNext

(* Without races the gate admits exactly as an ideal limit does whose       *)
(* ceiling is the idle workers beyond the reserve, whatever debt it has.    *)
THEOREM SerialImplementsIdeal == PromptSpec => ImplementsIdeal
<1>1. Init => SerialInv /\ Ideal!Init
  <2> SUFFICES ASSUME Init PROVE SerialInv /\ Ideal!Init
    OBVIOUS
  <2>1. SerialInv /\ Taken = {} /\ parked = {}
    BY DEF Init, DebtInit, SemInit, SerialInv, Midway, Taken
  <2>2. Cardinality(parked) = 0 /\ Cardinality(Workers) \in Nat /\ Reserve \in Nat
    BY <2>1, FS_EmptySet, FS_CardinalityType, GateAssumption
  <2> QED BY <2>1, <2>2 DEF Ideal!Init, Spare
<1>2. SerialNext => Next
  BY DEF SerialNext, Next
<1>3. IInv /\ SerialInv /\ [SerialNext /\ Prompt]_vars
        => IInv' /\ SerialInv' /\ [Ideal!Next]_<<Spare, Taken>>
  BY <1>2, SerialStepIdeal, NextIInv
<1>4. IInv /\ SerialInv /\ [SerialNext /\ Prompt]_vars => [Ideal!Next]_<<Spare, Taken>>
  BY <1>3
<1> QED BY InitIInv, <1>1, <1>3, <1>4, PTL DEF PromptSpec, ImplementsIdeal, Ideal!Spec
-----------------------------------------------------------------------------
(* Server: the gate under tasks that run on the workers it looks at.        *)

(* Whatever the tasks of the server do, the gate takes a step of its own or *)
(* none.                                                                    *)
LEMMA ServerStepIsGateStep ==
  ASSUME ServerInv, [ServerNext]_serverVars
  PROVE  [Next]_vars
<1>1. ASSUME NEW w \in Workers, Doze(w) \/ Wake(w) PROVE [Next]_vars
  BY <1>1 DEF Doze, Wake, Next, WorkerStep
<1>2. ASSUME NEW w \in Workers, PollStep(w) PROVE [Next]_vars
  <2>1. Svc \in Services
    BY ServerAssumption
  <2>2. CASE ServeRecv(w) \/ ServeTimesOut(w)
    BY <2>2 DEF ServeRecv, ServeTimesOut
  <2>3. CASE ServeAsks(w)
    <3>1. PollReady(Svc) \/ UNCHANGED vars
      BY <2>3 DEF ServeAsks
    <3> QED BY <2>1, <3>1 DEF Next, ServiceStep
  <2>4. CASE ServeStarts(w)
    <3>1. Head(line) \in Calls /\ Call(Svc, Head(line))
      BY <2>4, HeadTailFacts
         DEF ServeStarts, ServerInv, ServerTypeOK, LineIsQueued
    <3> QED BY <2>1, <3>1 DEF Next, ServiceStep
  <2>5. ASSUME NEW r \in Calls, Enqueue(w, r) \/ Answer(w, r) \/ Suspend(w, r)
        PROVE  [Next]_vars
    BY <2>5 DEF Enqueue, Answer, Suspend
  <2>6. ASSUME NEW r \in Calls, FirstPoll(w, r) PROVE [Next]_vars
    BY <2>6 DEF FirstPoll, Next
  <2> QED BY <1>2, <2>2, <2>3, <2>4, <2>5, <2>6 DEF PollStep
<1>3. CASE \E a \in Actors : Complete(a) /\ UNCHANGED taskVars
  BY <1>3 DEF Next
<1>4. CASE \/ \E w \in Workers, t \in Tasks : Pick(w, t)
           \/ \E r \in Calls : Arrive(r) \/ Resume(r)
           \/ Elapse \/ UNCHANGED serverVars
  BY <1>4 DEF Pick, Arrive, Resume, Elapse, serverVars
<1> QED BY <1>1, <1>2, <1>3, <1>4 DEF ServerNext

(* Nobody runs anything, and nobody waits, at first.                        *)
LEMMA InitServerInv == ServerInit => ServerInv
<1> SUFFICES ASSUME ServerInit PROVE ServerInv
  OBVIOUS
<1>1. IInv /\ parked = {} /\ reserved = {} /\ admitted = {}
  <2>1. Init
    BY DEF ServerInit
  <2>2. IInv
    BY <2>1, InitIInv
  <2> QED BY <2>1, <2>2 DEF Init
<1>2. ServerTypeOK
  <2>1. TypeOK
    BY <1>1 DEF IInv
  <2>2. /\ run \in [Workers -> Tasks \cup {Nothing}]
        /\ stage \in [Calls -> {"new", "arrived", "queued", "spawned", "resumed", "pending"}]
    BY DEF ServerInit
  <2>3. line \in Seq(Calls)
    BY DEF ServerInit
  <2>4. at \in {"recv", "gate"} /\ late \in BOOLEAN
    BY DEF ServerInit
  <2> QED BY <2>1, <2>2, <2>3, <2>4 DEF ServerTypeOK
<1>3. line = <<>> /\ at = "recv" /\ ToSet(line) = {} /\ IsInjective(line)
  BY DEF ServerInit, ToSet, IsInjective
<1> QED BY <1>1, <1>2, <1>3
     DEF ServerInv, ParkedAreIdle, GateIsAsked, SlotIsUsed, LineIsQueued, ClaimIsSpawned

(* Who waits at the gate, or was let through, stays so until it polls.      *)
LEMMA GateKeepsPlace ==
  ASSUME IInv,
         \/ UNCHANGED vars
         \/ \E w \in Workers : Park(w) \/ Unpark(w)
         \/ \E c \in Calls : FirstPollOrDrop(c)
         \/ \E a \in Actors : Complete(a)
  PROVE  Waiting' \cup granted' = Waiting \cup granted /\ reserved' = reserved
<1>1. CASE UNCHANGED vars
  BY <1>1 DEF vars, debtVars, Waiting
<1>2. CASE \E w \in Workers : Park(w) \/ Unpark(w)
  BY <1>2 DEF Park, Unpark, Release, Acquire, ForgetPermit, Waiting
<1>3. CASE \E c \in Calls : FirstPollOrDrop(c)
  BY <1>3 DEF FirstPollOrDrop, Release, Waiting
<1>4. CASE \E a \in Actors : Complete(a)
  <2> PICK a \in Actors : Complete(a)
    BY <1>4
  <2>1. CASE Owe(a)
    BY <2>1 DEF Complete, Owe, Waiting
  <2>2. CASE Add(a)
    BY <2>2, SemInvHolds, AddPermitFacts DEF Complete, Add
  <2> QED BY <2>1, <2>2 DEF Complete
<1> QED BY <1>1, <1>2, <1>3, <1>4

(* The runtime: workers park, wake up and pick tasks.                       *)
LEMMA RuntimeServerInv ==
  ASSUME ServerInv, TypeOK', IInv', NEW w \in Workers,
         Doze(w) \/ Wake(w) \/ \E t \in Tasks : Pick(w, t)
  PROVE  ServerInv'
<1> USE ServerAssumption DEF ServerInv
<1>1. CASE Doze(w) \/ Wake(w)
  <2>1. /\ Waiting' \cup granted' = Waiting \cup granted /\ reserved' = reserved
        /\ admitted' = admitted /\ UNCHANGED taskVars
        /\ \A v \in parked' : run[v] = Nothing
    BY <1>1, GateKeepsPlace DEF Doze, Wake, Park, Unpark, ParkedAreIdle
  <2> QED BY <2>1 DEF taskVars, ServerTypeOK, ParkedAreIdle, GateIsAsked, SlotIsUsed,
                      ServeRuns, LineIsQueued, ClaimIsSpawned
<1>2. ASSUME NEW t \in Tasks, Pick(w, t) PROVE ServerInv'
  <2>1. /\ w \notin parked /\ run[w] = Nothing
        /\ run' = [run EXCEPT ![w] = t]
        /\ UNCHANGED <<permits, queue, granted, debt, owing, adding, parked, reserved, admitted>>
        /\ UNCHANGED <<stage, line, at, late>>
    BY <1>2 DEF Pick, vars, debtVars
  <2>2. ServerTypeOK'
    BY <2>1 DEF ServerTypeOK
  <2>3. ServeRuns => ServeRuns'
    BY <2>1 DEF ServeRuns, ServerTypeOK
  <2>4. ParkedAreIdle'
    BY <2>1 DEF ParkedAreIdle, ServerTypeOK, IInv, TypeOK
  <2> QED BY <2>1, <2>2, <2>3, <2>4
       DEF GateIsAsked, SlotIsUsed, LineIsQueued, ClaimIsSpawned, Waiting
<1> QED BY <1>1, <1>2

(* The queue's worker: while it waits at the gate it is run, or the gate    *)
(* knows that it waits; and a slot it has is used in the same poll.         *)
LEMMA ServeServerInv ==
  ASSUME ServerInv, TypeOK', IInv', NEW w \in Workers,
         ServeRecv(w) \/ ServeTimesOut(w) \/ ServeAsks(w) \/ ServeStarts(w)
  PROVE  ServerInv'
<1> USE ServerAssumption DEF ServerInv
<1>1. /\ w \notin parked /\ run[w] = Serve
      /\ line \in Seq(Calls) /\ stage \in [Calls -> {"new", "arrived", "queued", "spawned", "resumed", "pending"}]
      /\ run \in [Workers -> Tasks \cup {Nothing}]
  BY DEF ServeRecv, ServeTimesOut, ServeAsks, ServeStarts, ParkedAreIdle, ServerTypeOK
<1>2. CASE ServeRecv(w)
  <2>1. /\ at = "recv"
        /\ UNCHANGED <<permits, queue, granted, debt, owing, adding, parked, reserved, admitted>>
        /\ UNCHANGED <<stage, line>>
        /\ \/ line = <<>> /\ run' = [run EXCEPT ![w] = Nothing] /\ UNCHANGED <<at, late>>
           \/ line # <<>> /\ at' = "gate" /\ late' = FALSE /\ UNCHANGED run
    BY <1>2 DEF ServeRecv, Yield, vars, debtVars
  <2>2. ServerTypeOK' /\ ParkedAreIdle'
    BY <1>1, <2>1 DEF ServerTypeOK, ParkedAreIdle, IInv, TypeOK
  <2>3. GateIsAsked' /\ SlotIsUsed'
    BY <1>1, <2>1 DEF GateIsAsked, SlotIsUsed, ServeRuns
  <2> QED BY <2>1, <2>2, <2>3 DEF LineIsQueued, ClaimIsSpawned
<1>3. CASE ServeTimesOut(w)
  <2>1. /\ line # <<>> /\ Head(line) \in Calls /\ Head(line) \in ToSet(line)
        /\ Tail(line) \in Seq(Calls) /\ IsInjective(Tail(line))
        /\ ToSet(Tail(line)) = ToSet(line) \ {Head(line)}
    BY <1>1, <1>3, HeadTailFacts DEF ServeTimesOut, LineIsQueued
  <2>2. /\ UNCHANGED <<permits, queue, granted, debt, owing, adding, parked, reserved, admitted>>
        /\ stage' = [stage EXCEPT ![Head(line)] = "new"]
        /\ line' = Tail(line) /\ at' = "recv" /\ late' = FALSE /\ run' = run
        /\ Svc \notin reserved
    BY <1>3 DEF ServeTimesOut, vars, debtVars
  <2>3. ServerTypeOK' /\ ParkedAreIdle' /\ GateIsAsked' /\ SlotIsUsed'
    BY <1>1, <2>1, <2>2
       DEF ServerTypeOK, ParkedAreIdle, GateIsAsked, SlotIsUsed
  <2>4. LineIsQueued'
    BY <1>1, <2>1, <2>2 DEF LineIsQueued
  <2>5. ClaimIsSpawned'
    BY <1>1, <2>1, <2>2 DEF LineIsQueued, ClaimIsSpawned, IInv, TypeOK
  <2> QED BY <2>3, <2>4, <2>5
<1>4. CASE ServeAsks(w)
  <2>1. /\ at = "gate" /\ Svc \notin reserved /\ UNCHANGED <<stage, line, at, late>>
        /\ IF Svc \in reserved' THEN run' = run ELSE run' = [run EXCEPT ![w] = Nothing]
    BY <1>4 DEF ServeAsks, Yield
  <2>2. /\ UNCHANGED <<parked, admitted>>
        /\ Svc \notin reserved' => Svc \in Waiting' \cup granted'
    BY <1>4, SemInvHolds, EnqueuedFacts DEF ServeAsks, PollReady, vars, debtVars, Waiting
  <2>3. ServerTypeOK' /\ ParkedAreIdle'
    BY <1>1, <2>1, <2>2 DEF ServerTypeOK, ParkedAreIdle, IInv, TypeOK
  <2>4. GateIsAsked' /\ SlotIsUsed'
    BY <1>1, <2>1, <2>2 DEF GateIsAsked, SlotIsUsed, ServeRuns
  <2> QED BY <2>1, <2>2, <2>3, <2>4 DEF LineIsQueued, ClaimIsSpawned
<1>5. CASE ServeStarts(w)
  <2>1. /\ line # <<>> /\ Head(line) \in Calls /\ Head(line) \in ToSet(line)
        /\ Tail(line) \in Seq(Calls) /\ IsInjective(Tail(line))
        /\ ToSet(Tail(line)) = ToSet(line) \ {Head(line)}
    BY <1>1, <1>5, HeadTailFacts DEF ServeStarts, LineIsQueued
  <2>2. /\ UNCHANGED parked /\ Svc \notin reserved'
        /\ admitted' = admitted \cup {Head(line)}
        /\ stage' = [stage EXCEPT ![Head(line)] = "spawned"]
        /\ line' = Tail(line) /\ at' = "recv" /\ late' = FALSE /\ run' = run
    BY <1>5 DEF ServeStarts, Call
  <2>3. ServerTypeOK' /\ ParkedAreIdle' /\ GateIsAsked' /\ SlotIsUsed'
    BY <1>1, <2>1, <2>2
       DEF ServerTypeOK, ParkedAreIdle, GateIsAsked, SlotIsUsed
  <2>4. LineIsQueued'
    BY <1>1, <2>1, <2>2 DEF LineIsQueued
  <2>5. ClaimIsSpawned'
    BY <1>1, <2>1, <2>2 DEF ClaimIsSpawned, IInv, TypeOK
  <2> QED BY <2>3, <2>4, <2>5
<1> QED BY <1>2, <1>3, <1>4, <1>5

(* A connection joins the line once, behind everybody else.                 *)
LEMMA EnqueueServerInv ==
  ASSUME ServerInv, TypeOK', IInv', NEW w \in Workers, NEW r \in Calls, Enqueue(w, r)
  PROVE  ServerInv'
<1> USE ServerAssumption DEF ServerInv
<1>1. /\ run[w] = r /\ stage[r] = "arrived" /\ r # Serve
      /\ stage' = [stage EXCEPT ![r] = "queued"]
      /\ line' = Append(line, r)
      /\ run' = [run EXCEPT ![w] = Nothing]
      /\ UNCHANGED <<permits, queue, granted, debt, owing, adding, parked, reserved, admitted>>
      /\ UNCHANGED <<at, late>>
  BY DEF Enqueue, Yield, vars, debtVars
<1>2. /\ line \in Seq(Calls) /\ run \in [Workers -> Tasks \cup {Nothing}]
      /\ stage \in [Calls -> {"new", "arrived", "queued", "spawned", "resumed", "pending"}]
  BY DEF ServerTypeOK
<1>3. r \notin ToSet(line) /\ r \notin admitted
  BY <1>1 DEF LineIsQueued, ClaimIsSpawned
<1>4. /\ Append(line, r) \in Seq(Calls) /\ Append(line, r) # <<>>
      /\ IsInjective(Append(line, r))
      /\ ToSet(Append(line, r)) = ToSet(line) \cup {r}
  BY <1>2, <1>3, AppendFacts DEF LineIsQueued
<1>5. ServerTypeOK' /\ ParkedAreIdle'
  BY <1>1, <1>2, <1>4 DEF ServerTypeOK, ParkedAreIdle, IInv, TypeOK
<1>6. GateIsAsked' /\ SlotIsUsed'
  BY <1>1, <1>2 DEF GateIsAsked, SlotIsUsed, ServeRuns, Waiting
<1>7. LineIsQueued'
  <2>1. ToSet(line) \subseteq Calls
    BY <1>2 DEF ToSet
  <2> QED BY <1>1, <1>2, <1>4, <2>1 DEF LineIsQueued
<1>8. ClaimIsSpawned'
  BY <1>1, <1>2, <1>3 DEF ClaimIsSpawned, IInv, TypeOK
<1> QED BY <1>5, <1>6, <1>7, <1>8

(* What happens to a request outside the line leaves the line alone.        *)
LEMMA RequestServerInv ==
  ASSUME ServerInv, TypeOK', IInv', NEW r \in Calls,
         \/ \E w \in Workers : FirstPoll(w, r) \/ Answer(w, r) \/ Suspend(w, r)
         \/ Arrive(r) \/ Resume(r)
  PROVE  ServerInv'
<1> USE ServerAssumption DEF ServerInv
<1>1. /\ line \in Seq(Calls) /\ run \in [Workers -> Tasks \cup {Nothing}]
      /\ stage \in [Calls -> {"new", "arrived", "queued", "spawned", "resumed", "pending"}]
      /\ ToSet(line) \subseteq Calls /\ admitted \subseteq Calls
  BY DEF ServerTypeOK, IInv, TypeOK, ToSet
<1>2. /\ UNCHANGED <<parked, reserved, line, at, late>>
      /\ Waiting' \cup granted' = Waiting \cup granted
      /\ \E x \in {"arrived", "resumed", "new", "pending"} : stage' = [stage EXCEPT ![r] = x]
      /\ stage[r] # "queued" /\ admitted' \subseteq admitted
      /\ stage[r] = "spawned" => r \notin admitted'
  BY GateKeepsPlace
     DEF FirstPoll, FirstPollOrDrop, Answer, Suspend, Arrive, Resume, vars, debtVars, Waiting
<1>3. \/ run' = run
      \/ \E w \in Workers : run[w] = r /\ run' = [run EXCEPT ![w] = Nothing]
  BY DEF FirstPoll, Answer, Suspend, Arrive, Resume, Yield
<1>4. ServerTypeOK' /\ ParkedAreIdle'
  BY <1>1, <1>2, <1>3 DEF ServerTypeOK, ParkedAreIdle, IInv, TypeOK
<1>5. ServeRuns => ServeRuns'
  BY <1>1, <1>3 DEF ServeRuns
<1>6. GateIsAsked' /\ SlotIsUsed'
  BY <1>2, <1>5 DEF GateIsAsked, SlotIsUsed
<1>7. LineIsQueued' /\ ClaimIsSpawned'
  BY <1>1, <1>2 DEF LineIsQueued, ClaimIsSpawned
<1> QED BY <1>4, <1>6, <1>7

(* Every step keeps the invariant of the server.                            *)
LEMMA NextServerInv == ServerInv /\ [ServerNext]_serverVars => ServerInv'
<1> SUFFICES ASSUME ServerInv, [ServerNext]_serverVars PROVE ServerInv'
  OBVIOUS
<1>1. IInv' /\ TypeOK'
  <2>1. [Next]_vars /\ IInv
    BY ServerStepIsGateStep DEF ServerInv
  <2>2. IInv'
    BY <2>1, NextIInv
  <2> QED BY <2>2 DEF IInv
<1>2. ASSUME NEW w \in Workers, Doze(w) \/ Wake(w) \/ \E t \in Tasks : Pick(w, t)
      PROVE  ServerInv'
  BY <1>1, <1>2, RuntimeServerInv
<1>3. ASSUME NEW w \in Workers, PollStep(w) PROVE ServerInv'
  BY <1>1, <1>3, ServeServerInv, EnqueueServerInv, RequestServerInv DEF PollStep
<1>4. ASSUME NEW r \in Calls, Arrive(r) \/ Resume(r) PROVE ServerInv'
  BY <1>1, <1>4, RequestServerInv
<1>5. ASSUME \/ Elapse \/ UNCHANGED serverVars
             \/ \E a \in Actors : Complete(a) /\ UNCHANGED taskVars
      PROVE  ServerInv'
  <2>1. /\ Waiting' \cup granted' = Waiting \cup granted /\ reserved' = reserved
        /\ UNCHANGED <<parked, admitted, run, stage, line, at>> /\ late' \in BOOLEAN
    BY <1>5, GateKeepsPlace
       DEF ServerInv, Elapse, serverVars, taskVars, vars, Complete, ServerTypeOK
  <2> QED BY <1>1, <2>1 DEF ServerInv, ServerTypeOK, ParkedAreIdle, GateIsAsked,
                            SlotIsUsed, ServeRuns, LineIsQueued, ClaimIsSpawned
<1> QED BY <1>2, <1>3, <1>4, <1>5 DEF ServerNext

(* The invariant of the server holds throughout.                            *)
LEMMA ServerInvHolds == ServerSpec => []ServerInv
BY InitServerInv, NextServerInv, PTL DEF ServerSpec

(* The state of the server keeps its types.                                 *)
THEOREM ServerTypeCorrect == ServerSpec => []ServerTypeOK
<1>1. ServerInv => ServerTypeOK
  BY DEF ServerInv
<1> QED BY ServerInvHolds, <1>1, PTL

(* The gate of the server behaves as a gate on its own does.                *)
THEOREM ServerImplementsGate == ServerSpec => Spec
<1>1. ServerInit => Init
  BY DEF ServerInit
<1>2. ServerInv /\ [ServerNext]_serverVars => [Next]_vars
  BY ServerStepIsGateStep
<1> QED BY <1>1, <1>2, ServerInvHolds, PTL DEF ServerSpec, Spec

(* With at least one worker beyond the reserve the server comes to rest     *)
(* only when nobody waits: the gate then offers a permit, so a task that    *)
(* waits at it would have been woken.                                       *)
THEOREM RestsWhenDone ==
  Reserve < Cardinality(Workers) => (ServerSpec => []RestIsDone)
<1> SUFFICES ASSUME Reserve < Cardinality(Workers) PROVE ServerSpec => []RestIsDone
  OBVIOUS
<1>1. ServerInv /\ RestOffersSpare => RestIsDone
  <2> SUFFICES ASSUME ServerInv, RestOffersSpare,
                      parked = Workers, Midway = {}, Runnable = {}
               PROVE  line = <<>> /\ admitted = {} /\ reserved = {}
    BY DEF RestIsDone
  <2> USE ServerAssumption
  <2>1. \A w \in Workers : run[w] = Nothing
    BY DEF ServerInv, ParkedAreIdle
  <2>2. \A t \in Tasks : ~Woken(t) /\ t # Nothing
    BY <2>1 DEF Runnable, Tasks
  <2>3. ~ServeRuns
    BY <2>1 DEF ServeRuns
  <2>4. reserved = {}
    BY <2>3 DEF ServerInv, SlotIsUsed, IInv, TypeOK
  <2>5. admitted = {}
    <3>1. admitted \subseteq Calls /\ \A r \in admitted : stage[r] = "spawned"
      BY DEF ServerInv, ClaimIsSpawned, IInv, TypeOK
    <3> QED BY <2>2, <3>1 DEF Woken, Tasks
  <2>6. at = "recv" => line = <<>>
    BY <2>2 DEF Woken, Tasks
  <2>7. ~(at = "gate")
    <3> SUFFICES ASSUME at = "gate" PROVE FALSE
      OBVIOUS
    <3>1. Svc \notin granted /\ Svc \in Waiting
      BY <2>2, <2>3 DEF Woken, Tasks, ServerInv, GateIsAsked
    <3>2. granted = {} /\ queue # <<>>
      BY <3>1 DEF ServerInv, IInv, TypeOK, Waiting, ToSet
    <3>3. permits = 0 /\ Taken = {}
      BY <2>4, <2>5, <3>2 DEF ServerInv, IInv, NoIdlePermit, Taken
    <3>4. 0 + 0 = Cardinality(Workers) - Reserve
      <4>1. Cardinality(Workers) \in Nat /\ Reserve \in Nat
        BY GateAssumption, FS_CardinalityType
      <4>2. permits + Cardinality(Taken) = Cardinality(Workers) - Reserve
        BY <4>1 DEF RestOffersSpare
      <4> QED BY <3>3, <4>2, FS_EmptySet
    <3> QED BY <3>4, GateAssumption, FS_CardinalityType
  <2> QED BY <2>4, <2>5, <2>6, <2>7 DEF ServerInv, ServerTypeOK
<1> QED BY <1>1, ServerInvHolds, ServerImplementsGate, RestIsExact, PTL
=============================================================================
