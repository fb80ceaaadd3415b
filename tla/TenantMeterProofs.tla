--------------------------- MODULE TenantMeterProofs ---------------------------
(***************************************************************************)
(* Proofs about TenantMeter and SerialMeter, for any number of pollers and *)
(* requests and any clock.  IInv is inductive: RequestPlaces says what a   *)
(* step finds when a flush or a draw returns, and so who is counted in     *)
(* inflight; the exchange claims no more than the room its claim saw,      *)
(* because attributed is still what it was and accumulated only grows.     *)
(* The bills are summed over any set of requests (LedgerKept), and none    *)
(* outruns the growth of the rate (GrowthBilledOnce).                      *)
(* One handler at a time (SerialInv), a span is accrued to those who were  *)
(* there for it: the totals are IdealMeter's, no bill exceeds presence,    *)
(* every draw is granted in full, and time alone is billed.                *)
(***************************************************************************)
EXTENDS SerialMeter, FiniteSetTheorems, TLAPS

(* A saturating difference of two times is a time.                          *)
LEMMA SatSubNat ==
  ASSUME NEW x \in Nat, NEW y \in Nat PROVE SatSub(x, y) \in Nat /\ SatSub(x, y) <= x
BY DEF SatSub

(* A share is a natural number: accrue divides by no zero.                  *)
LEMMA ShareNat ==
  ASSUME NEW x \in Nat, NEW n \in Nat, n # 0 PROVE x \div n \in Nat
OBVIOUS

(* A step that counts nobody in or out and moves no member.                 *)
LEMMA CountKept ==
  ASSUME InflightIsMembers, inflight' = inflight,
         \A r \in Requests : Member(r)' <=> Member(r)
  PROVE  InflightIsMembers'
<1>1. {r \in Requests : Member(r)}' = {r \in Requests : Member(r)}
  OBVIOUS
<1> QED BY <1>1 DEF InflightIsMembers

(* fetch_add counts a newcomer in.                                          *)
LEMMA CountJoined ==
  ASSUME InflightIsMembers, NEW r \in Requests, ~ Member(r), Member(r)',
         inflight' = inflight + 1,
         \A q \in Requests \ {r} : Member(q)' <=> Member(q)
  PROVE  InflightIsMembers'
<1> DEFINE M == {q \in Requests : Member(q)}
<1>1. IsFiniteSet(M)
  BY FS_Subset, MeterAssumption
<1>2. M' = M \cup {r} /\ r \notin M
  OBVIOUS
<1>3. Cardinality(M \cup {r}) = Cardinality(M) + 1
  <2> HIDE DEF M
  <2> QED BY <1>1, <1>2, FS_AddElement
<1>4. inflight = Cardinality(M)
  BY DEF InflightIsMembers
<1>5. inflight' = Cardinality(M')
  <2> HIDE DEF M
  <2> QED BY <1>2, <1>3, <1>4
<1> QED BY <1>5 DEF InflightIsMembers

(* fetch_sub counts a member out, so there is one to count.                 *)
LEMMA CountParted ==
  ASSUME InflightIsMembers, NEW r \in Requests, Member(r)
  PROVE  /\ inflight \in Nat /\ inflight - 1 \in Nat
         /\ ( /\ inflight' = inflight - 1
              /\ ~ Member(r)'
              /\ \A q \in Requests \ {r} : Member(q)' <=> Member(q) )
            => InflightIsMembers'
<1> DEFINE M == {q \in Requests : Member(q)}
<1>1. IsFiniteSet(M)
  BY FS_Subset, MeterAssumption
<1>2. r \in M
  OBVIOUS
<1>3. /\ Cardinality(M \ {r}) = Cardinality(M) - 1 /\ Cardinality(M) \in Nat
      /\ Cardinality(M \ {r}) \in Nat
  <2> HIDE DEF M
  <2>1. IsFiniteSet(M \ {r})
    BY <1>1, FS_RemoveElement
  <2> QED BY <1>1, <1>2, <2>1, FS_RemoveElement, FS_CardinalityType
<1>4. inflight = Cardinality(M)
  BY DEF InflightIsMembers
<1>5. inflight \in Nat /\ inflight - 1 \in Nat
  <2> HIDE DEF M
  <2> QED BY <1>3, <1>4
<1>6. ASSUME inflight' = inflight - 1, ~ Member(r)',
             \A q \in Requests \ {r} : Member(q)' <=> Member(q)
      PROVE  InflightIsMembers'
  <2>1. M' = M \ {r}
    BY <1>6
  <2>2. inflight' = Cardinality(M')
    <3> HIDE DEF M
    <3> QED BY <1>3, <1>4, <1>6, <2>1
  <2> QED BY <2>2 DEF InflightIsMembers
<1> QED BY <1>5, <1>6
-----------------------------------------------------------------------------
(* The initial state.                                                       *)
LEMMA InitIInv == Init => IInv
<1> SUFFICES ASSUME Init PROVE IInv
  OBVIOUS
<1>1. TypeOK
  BY MeterAssumption DEF Init, TypeOK, Actors, Labels, Open
<1>2. {r \in Requests : Member(r)} = {}
  BY DEF Init, Member, Actors, Drawing, Flushing
<1>3. InflightIsMembers
  BY <1>2, FS_EmptySet DEF Init, InflightIsMembers
<1>4. /\ \A p \in Pollers : PollerPlaces(p)
      /\ \A r \in Requests : RequestPlaces(r)
  BY MeterAssumption DEF Init, PollerPlaces, RequestPlaces, Actors, Flushing, Drawing
<1>5. /\ \A r \in Requests : seen[r] <= rate
      /\ \A r \in Requests : pc[r] = "exchange" => base[r] + span[r] <= accumulated
      /\ BilledWithinMeasured
  BY MeterAssumption DEF Init, Actors, BilledWithinMeasured
<1> QED BY <1>1, <1>3, <1>4, <1>5 DEF IInv

(* The steps of a flush, on behalf of a poller or of a request.             *)
LEMMA BankFacts ==
  ASSUME TypeOK, NEW a \in Actors, NEW to \in {Open} \cup 0..MaxTime, Bank(a, to),
         at' \in [Actors -> 0..MaxTime],
         UNCHANGED <<clock, rate, inflight, accumulated, attributed, unattributed,
                     share, base, seen, owed>>
  PROVE  /\ TypeOK'
         /\ \/ /\ pc' = [pc EXCEPT ![a] = next[a]]
               /\ next' = [next EXCEPT ![a] = "idle"] /\ span' = span
            \/ /\ pc' = [pc EXCEPT ![a] = "accrue"] /\ next' = next
               /\ \E t \in Nat : span' = [span EXCEPT ![a] = t]
<1>1. CASE gate = Open
  BY <1>1 DEF Bank, Return, Goto, TypeOK, Labels
<1>2. CASE gate # Open
  <2>1. gate \in Nat /\ at[a] \in Nat
    BY <1>2, MeterAssumption DEF TypeOK
  <2>2. SatSub(at[a], gate) \in Nat
    BY <2>1, SatSubNat
  <2> QED BY <1>2, <2>2 DEF Bank, Goto, TypeOK, Labels
<1> QED BY <1>1, <1>2

LEMMA FlushIInv ==
  ASSUME IInv, NEW a \in Actors, FlushStep(a) PROVE IInv'
<1> USE DEF IInv
<1>1. CASE Flush(a)
  <2>1. /\ TypeOK'
        /\ \/ /\ pc' = [pc EXCEPT ![a] = next[a]]
              /\ next' = [next EXCEPT ![a] = "idle"] /\ span' = span
           \/ /\ pc' = [pc EXCEPT ![a] = "accrue"] /\ next' = next
              /\ \E t \in Nat : span' = [span EXCEPT ![a] = t]
    <3>1. at' \in [Actors -> 0..MaxTime] /\ at[a] \in 0..MaxTime
      BY <1>1, MeterAssumption DEF Flush, Reading, TypeOK
    <3> QED BY <1>1, <3>1, BankFacts DEF Flush
  <2>2. /\ \A p \in Pollers : PollerPlaces(p)'
        /\ \A r \in Requests : RequestPlaces(r)'
        /\ \A r \in Requests : Member(r)' <=> Member(r)
    BY <1>1, <2>1, MeterAssumption DEF Flush, TypeOK, Actors,
       PollerPlaces, RequestPlaces, Member, Flushing, Drawing
  <2>3. /\ \A r \in Requests : pc'[r] = "exchange" => pc[r] = "exchange"
        /\ \A r \in Requests : pc[r] = "exchange" => span'[r] = span[r]
    BY <1>1, <2>1 DEF Flush, TypeOK, RequestPlaces, PollerPlaces, Actors, Flushing
  <2>4. InflightIsMembers'
    BY <1>1, <2>2, CountKept DEF Flush
  <2>5. \A r \in Requests : pc'[r] = "exchange" => base'[r] + span'[r] <= accumulated'
    BY <1>1, <2>3 DEF Flush
  <2> QED BY <1>1, <2>1, <2>2, <2>4, <2>5 DEF Flush, BilledWithinMeasured
<1>2. CASE AccrueLoad(a)
  <2>1. share' \in [Actors -> Nat]
    BY <1>2, ShareNat DEF AccrueLoad, TypeOK
  <2>2. TypeOK'
    BY <1>2, <2>1 DEF AccrueLoad, Goto, meterVars, TypeOK, Labels
  <2>3. /\ \A p \in Pollers : PollerPlaces(p)'
        /\ \A r \in Requests : RequestPlaces(r)'
        /\ \A r \in Requests : Member(r)' <=> Member(r)
    BY <1>2, MeterAssumption DEF AccrueLoad, Goto, TypeOK, Actors,
       PollerPlaces, RequestPlaces, Member, Flushing, Drawing
  <2>4. InflightIsMembers'
    BY <1>2, <2>3, CountKept DEF AccrueLoad, meterVars
  <2>5. \A r \in Requests : pc'[r] = "exchange" => base'[r] + span'[r] <= accumulated'
    BY <1>2 DEF AccrueLoad, Goto, meterVars, TypeOK, Actors
  <2> QED BY <1>2, <2>2, <2>3, <2>4, <2>5 DEF AccrueLoad, meterVars, BilledWithinMeasured
<1>3. CASE AccrueRate(a)
  <2>1. TypeOK' /\ rate' >= rate
    BY <1>3 DEF AccrueRate, Goto, TypeOK, Labels
  <2>2. /\ \A p \in Pollers : PollerPlaces(p)'
        /\ \A r \in Requests : RequestPlaces(r)'
        /\ \A r \in Requests : Member(r)' <=> Member(r)
    BY <1>3, MeterAssumption DEF AccrueRate, Goto, TypeOK, Actors,
       PollerPlaces, RequestPlaces, Member, Flushing, Drawing
  <2>3. InflightIsMembers'
    BY <1>3, <2>2, CountKept DEF AccrueRate
  <2>4. /\ \A r \in Requests : seen'[r] <= rate'
        /\ \A r \in Requests : pc'[r] = "exchange" => base'[r] + span'[r] <= accumulated'
    BY <1>3, <2>1 DEF AccrueRate, Goto, TypeOK, Actors
  <2> QED BY <1>3, <2>1, <2>2, <2>3, <2>4 DEF AccrueRate, BilledWithinMeasured
<1>4. CASE AccrueBank(a)
  <2>1. TypeOK' /\ accumulated' >= accumulated
    BY <1>4 DEF AccrueBank, Return, Goto, TypeOK, Labels
  <2>2. /\ \A p \in Pollers : PollerPlaces(p)'
        /\ \A r \in Requests : RequestPlaces(r)'
        /\ \A r \in Requests : Member(r)' <=> Member(r)
    BY <1>4, MeterAssumption DEF AccrueBank, Return, Goto, TypeOK, Actors,
       PollerPlaces, RequestPlaces, Member, Flushing, Drawing
  <2>3. InflightIsMembers'
    BY <1>4, <2>2, CountKept DEF AccrueBank
  <2>4. \A r \in Requests : pc'[r] = "exchange" => pc[r] = "exchange" /\ span'[r] = span[r]
    BY <1>4 DEF AccrueBank, Return, Goto, TypeOK, RequestPlaces, PollerPlaces,
       Actors, Flushing
  <2>5. \A r \in Requests : pc'[r] = "exchange" => base'[r] + span'[r] <= accumulated'
    BY <1>4, <2>1, <2>4 DEF AccrueBank, TypeOK, Actors
  <2>6. BilledWithinMeasured'
    BY <1>4, <2>1 DEF AccrueBank, BilledWithinMeasured, TypeOK
  <2> QED BY <1>4, <2>1, <2>2, <2>3, <2>5, <2>6 DEF AccrueBank
<1> QED BY <1>1, <1>2, <1>3, <1>4 DEF FlushStep

(* The steps of a poller.                                                   *)
LEMMA StartFlushIInv ==
  ASSUME IInv, NEW a \in Actors, NEW label \in Labels, StartFlush(a, label),
         \/ a \in Pollers /\ pc[a] = "idle" /\ label \in {"inner", "idle"}
         \/ a \in Requests /\ pc[a] = "out" /\ label = "join"
         \/ a \in Requests /\ pc[a] = "live" /\ label = "part"
  PROVE  IInv'
<1> USE DEF IInv
<1>1. TypeOK'
  BY DEF StartFlush, Goto, meterVars, TypeOK, Labels
<1>2. /\ \A p \in Pollers : PollerPlaces(p)'
      /\ \A r \in Requests : RequestPlaces(r)'
      /\ \A r \in Requests : Member(r)' <=> Member(r)
  BY MeterAssumption DEF StartFlush, Goto, TypeOK, Actors,
     PollerPlaces, RequestPlaces, Member, Flushing, Drawing
<1>3. InflightIsMembers'
  BY <1>2, CountKept DEF StartFlush, meterVars
<1>4. \A r \in Requests : pc'[r] = "exchange" => base'[r] + span'[r] <= accumulated'
  BY DEF StartFlush, Goto, meterVars, TypeOK
<1> QED BY <1>1, <1>2, <1>3, <1>4 DEF StartFlush, meterVars, BilledWithinMeasured

LEMMA PollerIInv ==
  ASSUME IInv, NEW p \in Pollers, PollerStep(p) PROVE IInv'
<1> USE DEF IInv
<1>0. p \in Actors /\ p \notin Requests
  BY MeterAssumption DEF Actors
<1>1. CASE PollReady(p)
  BY <1>0, <1>1, StartFlushIInv DEF PollReady, Labels
<1>2. CASE Settle(p)
  BY <1>0, <1>2, StartFlushIInv DEF Settle, Labels
<1>3. CASE Shut(p)
  <2>1. TypeOK'
    BY <1>0, <1>3, MeterAssumption DEF Shut, Goto, TypeOK, Labels
  <2>2. /\ \A q \in Pollers : PollerPlaces(q)'
        /\ \A r \in Requests : RequestPlaces(r)'
        /\ \A r \in Requests : Member(r)' <=> Member(r)
    BY <1>0, <1>3 DEF Shut, Goto, TypeOK, Actors,
       PollerPlaces, RequestPlaces, Member, Flushing, Drawing
  <2>3. InflightIsMembers'
    BY <1>3, <2>2, CountKept DEF Shut
  <2>4. \A r \in Requests : pc'[r] = "exchange" => base'[r] + span'[r] <= accumulated'
    BY <1>0, <1>3 DEF Shut, Goto, TypeOK
  <2> QED BY <1>3, <2>1, <2>2, <2>3, <2>4 DEF Shut, BilledWithinMeasured
<1>4. CASE OpenGate(p)
  <2>1. /\ TypeOK'
        /\ \/ /\ pc' = [pc EXCEPT ![p] = next[p]]
              /\ next' = [next EXCEPT ![p] = "idle"] /\ span' = span
           \/ /\ pc' = [pc EXCEPT ![p] = "accrue"] /\ next' = next
              /\ \E t \in Nat : span' = [span EXCEPT ![p] = t]
    <3>1. at' \in [Actors -> 0..MaxTime]
      BY <1>0, <1>4, MeterAssumption DEF OpenGate, TypeOK
    <3>2. Open \in {Open} \cup 0..MaxTime
      OBVIOUS
    <3>3. /\ Bank(p, Open)
          /\ UNCHANGED <<clock, rate, inflight, accumulated, attributed, unattributed,
                         share, base, seen, owed>>
      BY <1>4 DEF OpenGate
    <3> QED BY <1>0, <3>1, <3>2, <3>3, BankFacts
  <2>2. /\ \A q \in Pollers : PollerPlaces(q)'
        /\ \A r \in Requests : RequestPlaces(r)'
        /\ \A r \in Requests : Member(r)' <=> Member(r)
    BY <1>0, <1>4, <2>1 DEF OpenGate, TypeOK, Actors,
       PollerPlaces, RequestPlaces, Member, Flushing, Drawing
  <2>3. InflightIsMembers'
    BY <1>4, <2>2, CountKept DEF OpenGate
  <2>4. \A r \in Requests : pc'[r] = "exchange" => base'[r] + span'[r] <= accumulated'
    BY <1>0, <1>4, <2>1 DEF OpenGate, TypeOK, Actors, PollerPlaces, Flushing
  <2> QED BY <1>4, <2>1, <2>2, <2>3, <2>4 DEF OpenGate, BilledWithinMeasured
<1> QED BY <1>1, <1>2, <1>3, <1>4 DEF PollerStep

(* The steps of a request.                                                  *)
LEMMA RequestIInv ==
  ASSUME IInv, NEW r \in Requests, RequestStep(r) PROVE IInv'
<1> USE DEF IInv
<1>0. r \in Actors /\ r \notin Pollers
  BY MeterAssumption DEF Actors
<1>1. CASE Admit(r)
  BY <1>0, <1>1, StartFlushIInv DEF Admit, Labels
<1>2. CASE Finish(r)
  BY <1>0, <1>2, StartFlushIInv DEF Finish, Labels
<1>3. CASE Join(r)
  <2>1. TypeOK'
    BY <1>0, <1>3 DEF Join, Goto, localVars, TypeOK, Labels
  <2>2. /\ \A p \in Pollers : PollerPlaces(p)'
        /\ \A q \in Requests : RequestPlaces(q)'
        /\ ~ Member(r) /\ Member(r)'
        /\ \A q \in Requests \ {r} : Member(q)' <=> Member(q)
    BY <1>0, <1>3 DEF Join, Goto, TypeOK, Actors,
       PollerPlaces, RequestPlaces, Member, Flushing, Drawing
  <2>3. InflightIsMembers'
    BY <1>3, <2>2, CountJoined DEF Join
  <2>4. \A q \in Requests : pc'[q] = "exchange" => base'[q] + span'[q] <= accumulated'
    BY <1>0, <1>3 DEF Join, Goto, localVars, TypeOK, Actors
  <2> QED BY <1>3, <2>1, <2>2, <2>3, <2>4 DEF Join, BilledWithinMeasured
<1>4. CASE See(r)
  <2>1. TypeOK'
    BY <1>0, <1>4 DEF See, Goto, meterVars, localVars, TypeOK, Labels
  <2>2. /\ \A p \in Pollers : PollerPlaces(p)'
        /\ \A q \in Requests : RequestPlaces(q)'
        /\ \A q \in Requests : Member(q)' <=> Member(q)
    BY <1>0, <1>4 DEF See, Goto, TypeOK, Actors,
       PollerPlaces, RequestPlaces, Member, Flushing, Drawing
  <2>3. InflightIsMembers'
    BY <1>4, <2>2, CountKept DEF See, meterVars
  <2>4. /\ \A q \in Requests : seen'[q] <= rate'
        /\ \A q \in Requests : pc'[q] = "exchange" => base'[q] + span'[q] <= accumulated'
    BY <1>0, <1>4 DEF See, Goto, meterVars, localVars, TypeOK, Actors
  <2> QED BY <1>4, <2>1, <2>2, <2>3, <2>4 DEF See, meterVars, BilledWithinMeasured
<1>5. CASE Part(r)
  <2>1. inflight - 1 \in Nat
    BY <1>5, CountParted DEF Part, Member
  <2>2. TypeOK'
    BY <1>0, <1>5, <2>1 DEF Part, Goto, localVars, TypeOK, Labels
  <2>3. /\ \A p \in Pollers : PollerPlaces(p)'
        /\ \A q \in Requests : RequestPlaces(q)'
        /\ Member(r) /\ ~ Member(r)'
        /\ \A q \in Requests \ {r} : Member(q)' <=> Member(q)
    BY <1>0, <1>5 DEF Part, Goto, TypeOK, Actors,
       PollerPlaces, RequestPlaces, Member, Flushing, Drawing
  <2>4. InflightIsMembers'
    BY <1>5, <2>3, CountParted DEF Part
  <2>5. \A q \in Requests : pc'[q] = "exchange" => base'[q] + span'[q] <= accumulated'
    BY <1>0, <1>5 DEF Part, Goto, localVars, TypeOK, Actors
  <2> QED BY <1>5, <2>2, <2>3, <2>4, <2>5 DEF Part, BilledWithinMeasured
<1>6. CASE Draw(r)
  <2>1. rate - seen[r] \in Nat
    BY DEF TypeOK
  <2>2. TypeOK'
    BY <1>0, <1>6, <2>1 DEF Draw, Goto, meterVars, TypeOK, Labels
  <2>3. /\ \A p \in Pollers : PollerPlaces(p)'
        /\ \A q \in Requests : RequestPlaces(q)'
        /\ \A q \in Requests : Member(q)' <=> Member(q)
    BY <1>0, <1>6 DEF Draw, Goto, TypeOK, Actors,
       PollerPlaces, RequestPlaces, Member, Flushing, Drawing
  <2>4. InflightIsMembers'
    BY <1>6, <2>3, CountKept DEF Draw, meterVars
  <2>5. /\ \A q \in Requests : seen'[q] <= rate'
        /\ \A q \in Requests : pc'[q] = "exchange" => base'[q] + span'[q] <= accumulated'
    BY <1>0, <1>6 DEF Draw, Goto, meterVars, TypeOK, Actors
  <2> QED BY <1>6, <2>2, <2>3, <2>4, <2>5 DEF Draw, meterVars, BilledWithinMeasured
<1>7. CASE Claim(r)
  <2> DEFINE credit == Min({share[r], SatSub(accumulated, attributed)})
  <2>1. /\ credit \in Nat
        /\ credit <= SatSub(accumulated, attributed)
    <3>1. share[r] \in Nat /\ SatSub(accumulated, attributed) \in Nat
      BY <1>0, SatSubNat DEF TypeOK
    <3> QED BY <3>1 DEF Min
  <2>2. attributed + credit <= accumulated
    <3> HIDE DEF credit
    <3> QED BY <2>1 DEF TypeOK, SatSub, BilledWithinMeasured
  <2>3. \/ /\ pc' = [pc EXCEPT ![r] = next[r]] /\ next' = [next EXCEPT ![r] = "idle"]
           /\ share' = [share EXCEPT ![r] = 0] /\ span' = span /\ base' = base
        \/ /\ pc' = [pc EXCEPT ![r] = "exchange"] /\ next' = next /\ share' = share
           /\ span' = [span EXCEPT ![r] = credit]
           /\ base' = [base EXCEPT ![r] = attributed]
    BY <1>7 DEF Claim, Return, Goto
  <2>4. pc[r] = "claim" /\ UNCHANGED <<clock, meterVars, at, seen, owed>>
    BY <1>7 DEF Claim
  <2> HIDE DEF credit
  <2>5. TypeOK'
    BY <1>0, <2>1, <2>3, <2>4 DEF meterVars, TypeOK, Labels
  <2>6. /\ \A p \in Pollers : PollerPlaces(p)'
        /\ \A q \in Requests : RequestPlaces(q)'
        /\ \A q \in Requests : Member(q)' <=> Member(q)
    BY <1>0, <2>3, <2>4 DEF TypeOK, Actors,
       PollerPlaces, RequestPlaces, Member, Flushing, Drawing
  <2>7. InflightIsMembers'
    BY <2>4, <2>6, CountKept DEF meterVars
  <2>8. \A q \in Requests : pc'[q] = "exchange" => base'[q] + span'[q] <= accumulated'
    BY <1>0, <2>1, <2>2, <2>3, <2>4 DEF meterVars, TypeOK, Actors, RequestPlaces, Drawing
  <2> QED BY <2>4, <2>5, <2>6, <2>7, <2>8 DEF meterVars, BilledWithinMeasured
<1>8. CASE Exchange(r)
  <2>1. TypeOK'
    BY <1>0, <1>8 DEF Exchange, Return, Goto, TypeOK, Labels
  <2>2. /\ \A p \in Pollers : PollerPlaces(p)'
        /\ \A q \in Requests : RequestPlaces(q)'
        /\ \A q \in Requests : Member(q)' <=> Member(q)
    BY <1>0, <1>8 DEF Exchange, Return, Goto, TypeOK, Actors,
       PollerPlaces, RequestPlaces, Member, Flushing, Drawing
  <2>3. InflightIsMembers'
    BY <1>8, <2>2, CountKept DEF Exchange
  <2>4. BilledWithinMeasured'
    BY <1>0, <1>8 DEF Exchange, BilledWithinMeasured
  <2>5. \A q \in Requests : pc'[q] = "exchange" => base'[q] + span'[q] <= accumulated'
    BY <1>0, <1>8 DEF Exchange, Return, Goto, TypeOK, Actors, RequestPlaces, Drawing
  <2> QED BY <1>8, <2>1, <2>2, <2>3, <2>4, <2>5 DEF Exchange
<1> QED BY <1>1, <1>2, <1>3, <1>4, <1>5, <1>6, <1>7, <1>8 DEF RequestStep
-----------------------------------------------------------------------------
(* Every step keeps the invariant.                                          *)
LEMMA NextIInv == IInv /\ [Next]_vars => IInv'
<1> SUFFICES ASSUME IInv, [Next]_vars PROVE IInv'
  OBVIOUS
<1>1. CASE Tick
  <2>1. UNCHANGED <<meterVars, pc, next, localVars, seen, owed>> /\ clock' \in 0..MaxTime
    BY <1>1, MeterAssumption DEF Tick, IInv, TypeOK
  <2>2. TypeOK'
    BY <2>1 DEF IInv, TypeOK, meterVars, localVars
  <2>3. /\ \A p \in Pollers : PollerPlaces(p)'
        /\ \A r \in Requests : RequestPlaces(r)'
        /\ \A r \in Requests : Member(r)' <=> Member(r)
    BY <2>1 DEF IInv, PollerPlaces, RequestPlaces, Member
  <2>4. InflightIsMembers'
    BY <2>1, <2>3, CountKept DEF IInv, meterVars
  <2> QED BY <2>1, <2>2, <2>3, <2>4 DEF IInv, meterVars, localVars, BilledWithinMeasured
<1>2. ASSUME NEW a \in Actors, Step(a) PROVE IInv'
  BY <1>2, FlushIInv, PollerIInv, RequestIInv DEF Step
<1>3. CASE UNCHANGED vars
  <2>1. UNCHANGED <<clock, gate, rate, inflight, accumulated, attributed, unattributed,
                    pc, next, at, span, share, base, seen, owed>>
    BY <1>3 DEF vars, meterVars, localVars
  <2>2. TypeOK' /\ BilledWithinMeasured'
    BY <2>1 DEF IInv, TypeOK, BilledWithinMeasured
  <2>3. /\ \A p \in Pollers : PollerPlaces(p)'
        /\ \A r \in Requests : RequestPlaces(r)'
        /\ \A r \in Requests : Member(r)' <=> Member(r)
    BY <2>1 DEF IInv, PollerPlaces, RequestPlaces, Member
  <2>4. InflightIsMembers'
    BY <2>1, <2>3, CountKept DEF IInv
  <2> QED BY <2>1, <2>2, <2>3, <2>4 DEF IInv
<1> QED BY <1>1, <1>2, <1>3 DEF Next

(* IInv is an invariant of TenantMeter.                                     *)
THEOREM IInvHolds == Spec => []IInv
BY InitIInv, NextIInv, PTL DEF Spec

(* Every field keeps its type: no span and no growth is ever negative, and  *)
(* inflight never goes below zero.                                          *)
THEOREM TypeCorrect == Spec => []TypeOK
<1>1. IInv => TypeOK
  BY DEF IInv
<1> QED BY <1>1, IInvHolds, PTL

(* However draws, accruals and flushes interleave, what is billed never     *)
(* exceeds what was measured.                                               *)
THEOREM NeverOverbilled == Spec => []BilledWithinMeasured
<1>1. IInv => BilledWithinMeasured
  BY DEF IInv
<1> QED BY <1>1, IInvHolds, PTL

(* inflight counts each request once, from its enter to its leave.          *)
THEOREM OccupiersCounted == Spec => []InflightIsMembers
<1>1. IInv => InflightIsMembers
  BY DEF IInv
<1> QED BY <1>1, IInvHolds, PTL
(* A step of one thread changes nothing that belongs to another.            *)
LEMMA OthersUntouched ==
  ASSUME NEW a \in Actors, Step(a), IInv
  PROVE  /\ clock' = clock
         /\ \A b \in Actors \ {a} :
              /\ pc'[b] = pc[b] /\ next'[b] = next[b]
              /\ at'[b] = at[b] /\ span'[b] = span[b] /\ share'[b] = share[b]
         /\ \A r \in Requests \ {a} : seen'[r] = seen[r] /\ owed'[r] = owed[r]
<1>0. TypeOK
  BY DEF IInv
<1> USE <1>0 DEF TypeOK
<1>1. CASE FlushStep(a)
  BY <1>1 DEF FlushStep, Flush, AccrueLoad, AccrueRate, AccrueBank, Bank, Reading,
              Return, Goto, meterVars
<1>2. CASE PollerStep(a)
  BY <1>2 DEF PollerStep, PollReady, Settle, StartFlush, Shut, OpenGate, Bank,
              Return, Goto, meterVars
<1>3. CASE RequestStep(a)
  <2>1. CASE Admit(a) \/ Join(a) \/ See(a) \/ Finish(a) \/ Part(a)
    BY <2>1 DEF Admit, Join, See, Finish, Part, StartFlush, Goto, meterVars, localVars
  <2>2. CASE Draw(a)
    BY <2>2 DEF Draw, Goto, meterVars
  <2>3. CASE Claim(a)
    BY <2>3 DEF Claim, Return, Goto, meterVars
  <2>4. CASE Exchange(a)
    BY <2>4 DEF Exchange, Return, Goto
  <2> QED BY <1>3, <2>1, <2>2, <2>3, <2>4 DEF RequestStep
<1> QED BY <1>1, <1>2, <1>3 DEF Step
-----------------------------------------------------------------------------
(* Sums over finite sets.  MapThenSumSet sets its terms aside one by one;   *)
(* that this is well defined, and what it yields, is shown by looking at a  *)
(* least set for which it would fail.                                       *)

\* the element set aside next
Pick(s) == CHOOSE x \in s : TRUE

\* h is the recursive function in the definition of the fold
Adds(f, S, h) ==
  h = [s \in SUBSET S |-> IF s = {} THEN 0 ELSE f[Pick(s)] + h[s \ {Pick(s)}]]

Total(f, S) == (CHOOSE h : Adds(f, S, h))[S]

(* Among subsets of a finite set one is least.                              *)
LEMMA LeastSet ==
  ASSUME NEW S, IsFiniteSet(S), NEW B, B \subseteq SUBSET S, B # {}
  PROVE  \E s \in B : \A t \in B : t \subseteq s => t = s
<1>1. FiniteSubsetsOf(S) = SUBSET S
  BY FS_FiniteSubsetsOfFinite
<1>2. IsWellFoundedOn(StrictSubsetOrdering(S), SUBSET S)
  BY <1>1, FS_StrictSubsetOrderingWellFounded
<1>3. PICK s \in B : \A t \in B : ~ (<<t, s>> \in StrictSubsetOrdering(S))
  BY <1>2, WFMin
<1>4. \A t \in B : t \subseteq s => t = s
  BY <1>3 DEF StrictSubsetOrdering
<1> QED BY <1>4

(* There is an element to set aside.                                        *)
LEMMA PickIn ==
  ASSUME NEW s, s # {} PROVE Pick(s) \in s
BY DEF Pick

(* Two such functions agree where both are defined: a least set on which    *)
(* they differ is not empty, and they agree on what is left of it.          *)
LEMMA AddsUnique ==
  ASSUME NEW S, IsFiniteSet(S), NEW f, NEW T \in SUBSET S, NEW U \in SUBSET S,
         NEW h, NEW k, Adds(f, T, h), Adds(f, U, k),
         NEW V \in SUBSET (T \cap U)
  PROVE  h[V] = k[V]
<1> DEFINE B == {s \in SUBSET (T \cap U) : h[s] # k[s]}
<1> SUFFICES ASSUME B # {} PROVE FALSE
  OBVIOUS
<1>1. PICK s \in B : \A t \in B : t \subseteq s => t = s
  <2> B \subseteq SUBSET S
    OBVIOUS
  <2> HIDE DEF B
  <2> QED BY LeastSet
<1>2. s # {}
  BY DEF Adds
<1>3. Pick(s) \in s
  BY <1>2, PickIn
<1>4. s \ {Pick(s)} \notin B
  <2> HIDE DEF B
  <2> QED BY <1>1, <1>3
<1>5. h[s \ {Pick(s)}] = k[s \ {Pick(s)}]
  BY <1>4
<1>6. h[s] = f[Pick(s)] + h[s \ {Pick(s)}] /\ k[s] = f[Pick(s)] + k[s \ {Pick(s)}]
  BY <1>2 DEF Adds
<1> QED BY <1>5, <1>6

(* There is one: for a least set without, it is put together from those of  *)
(* its proper subsets.                                                      *)
LEMMA AddsExists ==
  ASSUME NEW S, IsFiniteSet(S), NEW f
  PROVE  \E h : Adds(f, S, h)
<1> DEFINE B == {T \in SUBSET S : ~ \E h : Adds(f, T, h)}
<1> SUFFICES ASSUME B # {} PROVE FALSE
  OBVIOUS
<1>1. PICK T \in B : \A U \in B : U \subseteq T => U = T
  <2> B \subseteq SUBSET S
    OBVIOUS
  <2> HIDE DEF B
  <2> QED BY LeastSet
<1> DEFINE H(U) == CHOOSE h : Adds(f, U, h)
<1>2. \A U \in SUBSET T : U # T => Adds(f, U, H(U))
  <2> SUFFICES ASSUME NEW U \in SUBSET T, U # T PROVE \E h : Adds(f, U, h)
    OBVIOUS
  <2> QED BY <1>1
<1> DEFINE Rest(s) == s \ {Pick(s)}
           g == [s \in SUBSET T |-> IF s = {} THEN 0 ELSE f[Pick(s)] + H(Rest(s))[Rest(s)]]
<1>3. \A s \in SUBSET T : s # {} => g[Rest(s)] = H(Rest(s))[Rest(s)]
  <2> SUFFICES ASSUME NEW s \in SUBSET T, s # {} PROVE g[Rest(s)] = H(Rest(s))[Rest(s)]
    OBVIOUS
  <2> DEFINE U == Rest(s)
  <2>1. U \in SUBSET T /\ U # T
    BY PickIn
  <2>2. Adds(f, U, H(U))
    BY <1>2, <2>1
  <2>3. CASE U = {}
    <3> HIDE DEF H
    <3> QED BY <2>1, <2>2, <2>3 DEF Adds
  <2>4. CASE U # {}
    <3> DEFINE V == Rest(U)
    <3>1. V \in SUBSET U /\ V # T
      BY <2>1
    <3>2. Adds(f, V, H(V))
      BY <1>2, <2>1, <3>1
    <3>3. H(U)[V] = H(V)[V]
      <4> HIDE DEF H, U, V
      <4>1. U \in SUBSET S /\ V \in SUBSET S /\ V \in SUBSET (U \cap V)
        BY <2>1, <3>1
      <4> QED BY <2>2, <3>2, <4>1, AddsUnique
    <3>4. H(U)[U] = f[Pick(U)] + H(U)[V]
      <4> HIDE DEF H
      <4> QED BY <2>2, <2>4 DEF Adds
    <3>5. g[U] = f[Pick(U)] + H(V)[V]
      BY <2>1, <2>4
    <3> QED BY <3>3, <3>4, <3>5
  <2> QED BY <2>3, <2>4
<1>4. Adds(f, T, g)
  <2> HIDE DEF H
  <2> QED BY <1>3 DEF Adds
<1> QED BY <1>4, <1>1

(* So a sum is its terms, one at a time.                                    *)
LEMMA TotalStep ==
  ASSUME NEW S, IsFiniteSet(S), NEW f
  PROVE  /\ Total(f, {}) = 0
         /\ S # {} => Total(f, S) = f[Pick(S)] + Total(f, S \ {Pick(S)})
<1> DEFINE h == CHOOSE h : Adds(f, S, h)
           U == S \ {Pick(S)}
           k == CHOOSE k : Adds(f, U, k)
           z == CHOOSE z : Adds(f, {}, z)
<1>1. Adds(f, S, h)
  BY AddsExists
<1>2. Adds(f, U, k)
  <2> IsFiniteSet(U)
    BY FS_Subset
  <2> HIDE DEF U
  <2> QED BY AddsExists
<1>3. Adds(f, {}, z)
  BY AddsExists, FS_EmptySet
<1>4. Total(f, {}) = 0
  <2> z[{}] = 0
    <3> HIDE DEF z
    <3> QED BY <1>3 DEF Adds
  <2> QED BY DEF Total
<1>5. ASSUME S # {} PROVE Total(f, S) = f[Pick(S)] + Total(f, U)
  <2>1. h[U] = k[U]
    <3> U \in SUBSET S
      OBVIOUS
    <3> HIDE DEF h, k, U
    <3> QED BY <1>1, <1>2, AddsUnique
  <2>2. h[S] = f[Pick(S)] + h[U]
    <3> HIDE DEF h
    <3> QED BY <1>1, <1>5 DEF Adds
  <2> QED BY <2>1, <2>2 DEF Total
<1> QED BY <1>4, <1>5

(* A sum of natural numbers is one; ...                                     *)
LEMMA TotalNat ==
  ASSUME NEW S, IsFiniteSet(S), NEW f, \A x \in S : f[x] \in Nat
  PROVE  Total(f, S) \in Nat
<1> DEFINE B == {T \in SUBSET S : Total(f, T) \notin Nat}
<1> SUFFICES ASSUME B # {} PROVE FALSE
  OBVIOUS
<1>1. PICK T \in B : \A U \in B : U \subseteq T => U = T
  <2> B \subseteq SUBSET S
    OBVIOUS
  <2> HIDE DEF B
  <2> QED BY LeastSet
<1>2. IsFiniteSet(T) /\ T \in SUBSET S
  BY FS_Subset
<1>3. T # {}
  <2>1. Total(f, {}) = 0
    BY TotalStep
  <2>2. Total(f, T) \notin Nat
    OBVIOUS
  <2> HIDE DEF B
  <2> QED BY <2>1, <2>2
<1>4. Pick(T) \in T
  BY <1>3, PickIn
<1>5. Total(f, T \ {Pick(T)}) \in Nat
  BY <1>1, <1>4
<1>6. Total(f, T) = f[Pick(T)] + Total(f, T \ {Pick(T)})
  BY <1>2, <1>3, TotalStep
<1> QED BY <1>2, <1>4, <1>5, <1>6

(* ... a sum of zeros is zero; ...                                          *)
LEMMA TotalZero ==
  ASSUME NEW S, IsFiniteSet(S), NEW f, \A x \in S : f[x] = 0
  PROVE  Total(f, S) = 0
<1> DEFINE B == {T \in SUBSET S : Total(f, T) # 0}
<1> SUFFICES ASSUME B # {} PROVE FALSE
  OBVIOUS
<1>1. PICK T \in B : \A U \in B : U \subseteq T => U = T
  <2> B \subseteq SUBSET S
    OBVIOUS
  <2> HIDE DEF B
  <2> QED BY LeastSet
<1>2. IsFiniteSet(T) /\ T \in SUBSET S
  BY FS_Subset
<1>3. T # {}
  BY <1>2, TotalStep
<1>4. Pick(T) \in T
  BY <1>3, PickIn
<1>5. Total(f, T \ {Pick(T)}) = 0
  BY <1>1, <1>4
<1>6. Total(f, T) = f[Pick(T)] + Total(f, T \ {Pick(T)})
  BY <1>2, <1>3, TotalStep
<1> QED BY <1>2, <1>4, <1>5, <1>6

(* ... and a sum grows by what one of its terms grows.                      *)
LEMMA TotalGrows ==
  ASSUME NEW S, IsFiniteSet(S), NEW f, NEW g, NEW a, NEW d \in Nat,
         \A x \in S : f[x] \in Nat,
         \A x \in S : g[x] = IF x = a THEN f[x] + d ELSE f[x]
  PROVE  Total(g, S) = Total(f, S) + (IF a \in S THEN d ELSE 0)
<1> DEFINE Gain(T) == IF a \in T THEN d ELSE 0
           B == {T \in SUBSET S : Total(g, T) # Total(f, T) + Gain(T)}
<1> SUFFICES ASSUME B # {} PROVE FALSE
  OBVIOUS
<1>1. PICK T \in B : \A U \in B : U \subseteq T => U = T
  <2> B \subseteq SUBSET S
    OBVIOUS
  <2> HIDE DEF B
  <2> QED BY LeastSet
<1>2. IsFiniteSet(T) /\ T \in SUBSET S
  BY FS_Subset
<1>3. T # {}
  BY <1>2, TotalStep
<1> DEFINE U == T \ {Pick(T)}
<1>4. Pick(T) \in T
  BY <1>3, PickIn
<1>5. Total(g, U) = Total(f, U) + Gain(U)
  BY <1>1, <1>4
<1>6. /\ Total(f, T) = f[Pick(T)] + Total(f, U)
      /\ Total(g, T) = g[Pick(T)] + Total(g, U)
  BY <1>2, <1>3, TotalStep
<1>7. Total(f, U) \in Nat
  <2>1. IsFiniteSet(U) /\ \A x \in U : f[x] \in Nat
    BY <1>2, FS_Subset
  <2> HIDE DEF U
  <2> QED BY <2>1, TotalNat
<1>8. Gain(T) = IF Pick(T) = a THEN d ELSE Gain(U)
  BY <1>4
<1>9. Total(g, T) = Total(f, T) + Gain(T)
  <2>1. f[Pick(T)] \in Nat /\ g[Pick(T)] = IF Pick(T) = a THEN f[Pick(T)] + d ELSE f[Pick(T)]
    BY <1>2, <1>4
  <2>2. Pick(T) = a => Gain(U) = 0
    OBVIOUS
  <2>3. Gain(U) \in Nat
    OBVIOUS
  <2> HIDE DEF U, Gain
  <2> QED BY <1>5, <1>6, <1>7, <1>8, <2>1, <2>2, <2>3
<1> QED BY <1>9
-----------------------------------------------------------------------------
(* The ledger, and each bill, whoever races whom.                           *)

(* The ledger is such a sum, now and after a step.                          *)
LEMMA LedgerIsTotal ==
  /\ LedgerIsAttributed <=> attributed = Total(owed, Requests)
  /\ LedgerIsAttributed' <=> attributed' = Total(owed', Requests)
BY DEF LedgerIsAttributed, MapThenSumSet, MapThenFoldSet, Total, Adds, Pick

(* Only an exchange that succeeds writes bills, and it writes one.          *)
LEMMA WhoWritesBills ==
  ASSUME IInv, [Next]_vars
  PROVE  \/ UNCHANGED <<attributed, owed>>
         \/ \E r \in Requests : /\ pc[r] = "exchange" /\ attributed = base[r]
                                /\ attributed' = attributed + span[r]
                                /\ owed' = [owed EXCEPT ![r] = @ + span[r]]
<1>1. CASE Tick \/ UNCHANGED vars
  BY <1>1 DEF Tick, vars, meterVars
<1>2. ASSUME NEW a \in Actors, FlushStep(a) \/ PollerStep(a)
      PROVE  UNCHANGED <<attributed, owed>>
  BY <1>2 DEF FlushStep, Flush, AccrueLoad, AccrueRate, AccrueBank,
     PollerStep, PollReady, Settle, StartFlush, Shut, OpenGate, meterVars
<1>3. ASSUME NEW r \in Requests, RequestStep(r), ~Exchange(r)
      PROVE  UNCHANGED <<attributed, owed>>
  BY <1>3 DEF RequestStep, Admit, Join, See, Draw, Claim, Finish, Part, StartFlush, meterVars
<1>4. ASSUME NEW r \in Requests, Exchange(r)
      PROVE  \/ UNCHANGED <<attributed, owed>>
             \/ /\ pc[r] = "exchange" /\ attributed = base[r]
                /\ attributed' = attributed + span[r]
                /\ owed' = [owed EXCEPT ![r] = @ + span[r]]
  BY <1>4 DEF Exchange
<1> QED BY <1>1, <1>2, <1>3, <1>4 DEF Next, Step

(* Every step keeps the ledger.                                             *)
LEMMA NextLedger == IInv /\ LedgerIsAttributed /\ [Next]_vars => LedgerIsAttributed'
<1> SUFFICES ASSUME IInv, LedgerIsAttributed, [Next]_vars PROVE LedgerIsAttributed'
  OBVIOUS
<1>1. attributed = Total(owed, Requests)
  BY LedgerIsTotal
<1>2. CASE UNCHANGED <<attributed, owed>>
  BY <1>1, <1>2, LedgerIsTotal
<1>3. ASSUME NEW r \in Requests, attributed' = attributed + span[r],
             owed' = [owed EXCEPT ![r] = @ + span[r]]
      PROVE  LedgerIsAttributed'
  <2>1. owed \in [Requests -> Nat] /\ span[r] \in Nat
    BY DEF IInv, TypeOK, Actors
  <2>2. /\ \A x \in Requests : owed[x] \in Nat
        /\ \A x \in Requests : owed'[x] = IF x = r THEN owed[x] + span[r] ELSE owed[x]
    BY <1>3, <2>1
  <2>3. Total(owed', Requests) = Total(owed, Requests) + span[r]
    BY <2>1, <2>2, TotalGrows, MeterAssumption
  <2> QED BY <1>1, <1>3, <2>3, LedgerIsTotal
<1> QED BY <1>2, <1>3, WhoWritesBills

(* The bills always add up to what was attributed, whichever draws race,    *)
(* fail their exchange and try again.                                       *)
THEOREM LedgerKept == Spec => []LedgerIsAttributed
<1>1. Init => LedgerIsAttributed
  <2> SUFFICES ASSUME Init PROVE LedgerIsAttributed
    OBVIOUS
  <2>1. attributed = 0 /\ \A r \in Requests : owed[r] = 0
    BY DEF Init
  <2> QED BY <2>1, TotalZero, MeterAssumption, LedgerIsTotal
<1> QED BY <1>1, IInvHolds, NextLedger, PTL DEF Spec

(* The rate as of which request r has been billed, what it is drawing       *)
(* included: nothing that was accrued before is on its bill.                *)
BilledSince(r) == seen[r] - owed[r] - Pending(r)

\* a claim is for no more than the draw asked for
ClaimWithinDraw(r) == pc[r] = "exchange" => span[r] <= share[r]

(* Only reading the rate on the way in sets that back.                      *)
LEMMA BilledSinceStep ==
  ASSUME IInv, [Next]_vars, NEW r \in Requests, ClaimWithinDraw(r)
  PROVE  /\ ClaimWithinDraw(r)'
         /\ pc[r] # "see" => BilledSince(r) <= BilledSince(r)'
         /\ pc[r] = "see" => \/ BilledSince(r)' = BilledSince(r)
                             \/ BilledSince(r)' = rate - owed[r]
<1>0. /\ TypeOK /\ RequestPlaces(r) /\ seen[r] <= rate /\ r \in Actors /\ r \notin Pollers
      /\ rate \in Nat /\ seen[r] \in Nat /\ owed[r] \in Nat
      /\ share[r] \in Nat /\ span[r] \in Nat
  BY MeterAssumption DEF IInv, TypeOK, Actors
<1>1. CASE \/ UNCHANGED <<seen, owed, pc, share, span>>
           \/ \E a \in Actors \ {r} : Step(a)
  <2>1. /\ seen'[r] = seen[r] /\ owed'[r] = owed[r] /\ pc'[r] = pc[r]
        /\ share'[r] = share[r] /\ span'[r] = span[r]
    BY <1>0, <1>1, OthersUntouched
  <2> QED BY <1>0, <2>1 DEF BilledSince, ClaimWithinDraw, Pending
<1>2. CASE FlushStep(r)
  <2>1. /\ pc[r] \in Flushing /\ pc'[r] \in Flushing \cup {"join", "part"}
        /\ UNCHANGED <<seen, owed>>
    BY <1>0, <1>2 DEF FlushStep, Flush, AccrueLoad, AccrueRate, AccrueBank, Bank,
       Return, Goto, TypeOK, RequestPlaces, Flushing
  <2> QED BY <1>0, <2>1 DEF BilledSince, ClaimWithinDraw, Pending, Flushing, Drawing
<1>3. CASE Admit(r) \/ Join(r) \/ Finish(r) \/ Part(r)
  <2>1. /\ pc[r] \in {"out", "join", "live", "part"} /\ pc'[r] \in {"flush", "see", "last"}
        /\ UNCHANGED <<seen, owed>>
    BY <1>0, <1>3 DEF Admit, Join, Finish, Part, StartFlush, Goto, TypeOK
  <2> QED BY <1>0, <2>1 DEF BilledSince, ClaimWithinDraw, Pending, Drawing
<1>4. CASE See(r)
  <2>1. pc[r] = "see" /\ pc'[r] = "live" /\ seen'[r] = rate /\ owed' = owed
    BY <1>0, <1>4 DEF See, Goto, TypeOK
  <2> QED BY <1>0, <2>1 DEF BilledSince, ClaimWithinDraw, Pending, Drawing
<1>5. CASE Draw(r)
  <2>1. /\ pc[r] \in {"live", "last"} /\ owed' = owed
        /\ seen'[r] = rate /\ share'[r] = rate - seen[r]
        /\ \/ rate - seen[r] = 0 /\ pc'[r] \in {"live", "over"}
           \/ pc'[r] = "claim"
    BY <1>0, <1>5 DEF Draw, Goto, TypeOK
  <2> QED BY <1>0, <2>1 DEF BilledSince, ClaimWithinDraw, Pending, Drawing
<1>6. CASE Claim(r)
  <2>1. Min({share[r], SatSub(accumulated, attributed)}) <= share[r]
    <3>1. accumulated \in Nat /\ attributed \in Nat
      BY <1>0 DEF TypeOK
    <3>2. SatSub(accumulated, attributed) \in Nat
      BY <3>1, SatSubNat
    <3> QED BY <1>0, <3>2 DEF Min
  <2>2. /\ pc[r] = "claim" /\ UNCHANGED <<seen, owed>>
        /\ \/ pc'[r] \in {"live", "over"}
           \/ pc'[r] = "exchange" /\ share'[r] = share[r] /\ span'[r] <= share[r]
    BY <1>0, <1>6, <2>1 DEF Claim, Return, Goto, TypeOK, RequestPlaces, Drawing
  <2> QED BY <1>0, <2>2 DEF BilledSince, ClaimWithinDraw, Pending, Drawing
<1>7. CASE Exchange(r)
  <2>1. /\ pc[r] = "exchange" /\ seen' = seen
        /\ \/ pc'[r] \in {"live", "over"} /\ owed'[r] = owed[r] + span[r]
           \/ pc'[r] = "claim" /\ share'[r] = share[r] /\ owed'[r] = owed[r]
    BY <1>0, <1>7 DEF Exchange, Return, Goto, TypeOK, RequestPlaces, Drawing
  <2> QED BY <1>0, <2>1 DEF BilledSince, ClaimWithinDraw, Pending, Drawing
<1>8. \/ UNCHANGED <<seen, owed, pc, share, span>>
      \/ \E a \in Actors : Step(a)
  BY DEF Next, Tick, vars, localVars
<1>9. Step(r) => FlushStep(r) \/ RequestStep(r)
  BY <1>0 DEF Step
<1> QED BY <1>1, <1>2, <1>3, <1>4, <1>5, <1>6, <1>7, <1>8, <1>9 DEF RequestStep

(* No draw asks for growth that was billed before, or that was there when   *)
(* the request came in.                                                     *)
BillsWithinGrowth ==
  \A r \in Requests : ClaimWithinDraw(r) /\ 0 <= BilledSince(r)

(* It is an invariant.                                                      *)
LEMMA GrowthHolds == Spec => [](IInv /\ BillsWithinGrowth)
<1>1. Init => BillsWithinGrowth
  BY MeterAssumption
     DEF Init, BillsWithinGrowth, ClaimWithinDraw, BilledSince, Pending, Drawing, Actors
<1>2. IInv /\ BillsWithinGrowth /\ [Next]_vars => BillsWithinGrowth'
  <2> SUFFICES ASSUME IInv, BillsWithinGrowth, [Next]_vars, NEW r \in Requests
               PROVE  ClaimWithinDraw(r)' /\ 0 <= BilledSince(r)'
    BY DEF BillsWithinGrowth
  <2>1. ClaimWithinDraw(r) /\ 0 <= BilledSince(r)
    BY DEF BillsWithinGrowth
  <2>2. /\ seen[r] \in Nat /\ owed[r] \in Nat /\ rate \in Nat /\ share[r] \in Nat
        /\ seen[r] <= rate
    BY DEF IInv, TypeOK, Actors
  <2>3. owed[r] <= rate /\ BilledSince(r) \in Int
    BY <2>1, <2>2 DEF BilledSince, Pending
  <2>4. BilledSince(r)' \in Int
    BY NextIInv DEF BilledSince, Pending, IInv, TypeOK, Actors
  <2> QED BY <2>1, <2>2, <2>3, <2>4, BilledSinceStep
<1> QED BY <1>1, <1>2, InitIInv, NextIInv, PTL DEF Spec

(* No request is ever billed more than the cumulative share of one request, *)
(* whoever else draws, accrues or wins the exchange in the meantime.        *)
THEOREM BilledWithinRate == Spec => [](\A r \in Requests : owed[r] <= rate)
<1>1. IInv /\ BillsWithinGrowth => \A r \in Requests : owed[r] <= rate
  BY DEF IInv, TypeOK, Actors, BillsWithinGrowth, BilledSince, Pending
<1> QED BY <1>1, GrowthHolds, PTL

(* Once a request has read the rate on its way in, no race makes it pay for *)
(* the same growth twice, or for growth from before: its bill with what it  *)
(* draws never outruns the growth of the rate it has seen since.            *)
THEOREM GrowthBilledOnce ==
  Spec => [][\A r \in Requests : pc[r] # "see" => BilledSince(r) <= BilledSince(r)']_vars
<1>1. IInv /\ BillsWithinGrowth /\ [Next]_vars =>
        [\A r \in Requests : pc[r] # "see" => BilledSince(r) <= BilledSince(r)']_vars
  BY BilledSinceStep DEF BillsWithinGrowth
<1> QED BY <1>1, GrowthHolds, PTL DEF Spec
-----------------------------------------------------------------------------
(* SerialMeter: a thread finishes its handler before anybody else moves.    *)

(* A serial step is a step of the meter.                                    *)
LEMMA SerialStepIsStep == [SerialNext]_<<vars, historyVars>> => [Next]_vars
BY DEF SerialNext, SerialTick, SerialStep, Next

(* Nobody is busy at first.                                                 *)
LEMMA InitSerialInv == SerialInit => SerialInv
<1> SUFFICES ASSUME SerialInit PROVE SerialInv
  OBVIOUS
<1>1. Init
  BY DEF SerialInit
<1>2. IInv
  BY <1>1, InitIInv
<1>3. gate = Open /\ \A a \in Actors : pc[a] \in {"idle", "out"}
  BY <1>1 DEF Init
<1> QED BY <1>2, <1>3
     DEF SerialInv, OneAtATime, AtRest, ReadingIsCurrent, GateIsCurrent, CompanyIsCurrent, Banking

(* Only the thread that moves may be busy, before and after.                *)
LEMMA OneMoves ==
  ASSUME IInv, NEW a \in Actors, SerialStep(a)
  PROVE  /\ OneAtATime'
         /\ \A b \in Actors \ {a} : AtRest(b) /\ AtRest(b)' /\ pc'[b] = pc[b]
         /\ InHand = (IF pc[a] \in Banking THEN span[a] ELSE 0)
         /\ InHand' = (IF pc'[a] \in Banking THEN span'[a] ELSE 0)
<1>1. \A b \in Actors \ {a} : AtRest(b) /\ AtRest(b)' /\ pc'[b] = pc[b]
  BY OthersUntouched DEF SerialStep, AtRest
<1>2. \A b \in Actors : AtRest(b) => pc[b] \notin Banking
  BY DEF AtRest, Banking
<1>3. \A b \in Actors : AtRest(b)' => pc'[b] \notin Banking
  BY DEF AtRest, Banking
<1>4. InHand = (IF pc[a] \in Banking THEN span[a] ELSE 0)
  <2>1. \A b \in Actors : pc[b] \in Banking => b = a
    BY <1>1, <1>2
  <2> QED BY <2>1 DEF InHand
<1>5. InHand' = (IF pc'[a] \in Banking THEN span'[a] ELSE 0)
  <2>1. \A b \in Actors : pc'[b] \in Banking => b = a
    BY <1>1, <1>3
  <2> QED BY <2>1 DEF InHand
<1> QED BY <1>1, <1>4, <1>5 DEF OneAtATime

(* What a step of thread a must leave behind for the invariant to hold.     *)
LEMMA FocusOnMover ==
  ASSUME SerialInv, IInv', NEW a \in Actors, SerialStep(a),
         gate' # Open => gate' <= clock',
         pc'[a] \in {"flush", "inner"} \/ (pc'[a] \in Banking /\ next'[a] = "inner")
           => at'[a] = clock',
         pc'[a] \in Banking \cup {"inner", "join", "part"} => gate' \in {Open, clock'},
         pc'[a] \in {"rate", "whole"} => inflight' > 0,
         pc'[a] = "nobody" => inflight' = 0
  PROVE  SerialInv'
<1>1. OneAtATime' /\ \A b \in Actors \ {a} : AtRest(b)'
  BY OneMoves DEF SerialInv
<1>2. \A b \in Actors \ {a} : pc'[b] \in {"idle", "out", "live", "over"}
  BY <1>1 DEF AtRest
<1> QED BY <1>1, <1>2
     DEF SerialInv, ReadingIsCurrent, GateIsCurrent, CompanyIsCurrent, Banking

(* A member that does not move stays one.                                   *)
LEMMA OthersStayMembers ==
  ASSUME IInv, NEW a \in Actors, Step(a),
         a \in Requests => (Member(a)' <=> Member(a))
  PROVE  Members' = Members
<1>1. \A r \in Requests \ {a} : pc'[r] = pc[r] /\ next'[r] = next[r]
  BY OthersUntouched DEF Actors
<1>2. \A r \in Requests \ {a} : Member(r)' <=> Member(r)
  BY <1>1 DEF Member
<1> QED BY <1>2 DEF Members

(* Where a thread that flushes or accrues is going.                         *)
LEMMA Returns ==
  ASSUME IInv, NEW a \in Actors
  PROVE  /\ pc[a] \in Flushing => next[a] \in {"idle", "inner", "join", "part"}
         /\ pc[a] = "inner" => next[a] = "idle"
         /\ next[a] \in Labels /\ at[a] \in 0..MaxTime /\ span[a] \in Nat
BY DEF IInv, TypeOK, PollerPlaces, RequestPlaces, Actors, Flushing

(* A flush moves time from the gate to the hand, and from there to the      *)
(* total of the company it found.                                           *)
LEMMA FlushSerial ==
  ASSUME SerialInv, IInv', NEW a \in Actors, SerialStep(a), FlushStep(a)
  PROVE  SerialInv' /\ UNCHANGED <<clock, gate # Open, Members, Measured, Spare>>
<1>0. /\ IInv /\ Step(a)
      /\ TypeOK
      /\ InHand = (IF pc[a] \in Banking THEN span[a] ELSE 0)
      /\ InHand' = (IF pc'[a] \in Banking THEN span'[a] ELSE 0)
  BY OneMoves DEF SerialInv, SerialStep, IInv
<1>00. clock' = clock /\ clock \in Nat /\ Open = -1 /\ (gate # Open => gate \in Nat)
  BY <1>0, OthersUntouched, MeterAssumption DEF TypeOK, Open
<1>1. CASE Flush(a)
  <2>1. /\ pc[a] = "flush" /\ at[a] = clock /\ at' = Reading(a)
        /\ next[a] \in {"idle", "inner", "join", "part"}
        /\ UNCHANGED <<rate, inflight, accumulated, unattributed>>
    BY <1>0, <1>1, Returns DEF Flush, SerialInv, ReadingIsCurrent, Flushing
  <2>2. next[a] = "inner" => at'[a] = clock
    BY <1>0, <2>1 DEF Reading
  <2>3. CASE gate = Open
    <3>1. gate' = Open /\ pc' = [pc EXCEPT ![a] = next[a]]
      BY <1>1, <2>3 DEF Flush, Bank, Return, Goto
    <3>2. pc'[a] = next[a]
      BY <1>0, <3>1 DEF TypeOK
    <3>3. SerialInv'
      BY <1>00, <2>1, <2>2, <3>1, <3>2, FocusOnMover DEF Banking
    <3>4. a \in Requests => (Member(a)' <=> Member(a))
      BY <1>0, <2>1, <3>2 DEF Member, Flushing, Drawing, IInv, RequestPlaces
    <3>5. Members' = Members
      BY <1>0, <3>4, OthersStayMembers
    <3>6. InHand = 0 /\ InHand' = 0
      BY <1>0, <2>1, <3>2 DEF Banking
    <3> QED BY <1>00, <2>1, <2>3, <3>1, <3>3, <3>5, <3>6 DEF Measured, Spare, AtGate
  <2>4. CASE gate # Open
    <3>1. /\ gate' = clock /\ pc' = [pc EXCEPT ![a] = "accrue"] /\ next' = next
          /\ span' = [span EXCEPT ![a] = SatSub(clock, gate)]
      BY <1>1, <2>1, <2>4 DEF Flush, Bank, Goto
    <3>2. pc'[a] = "accrue" /\ span'[a] = SatSub(clock, gate) /\ next'[a] = next[a]
      BY <1>0, <3>1 DEF TypeOK
    <3>3. SerialInv'
      BY <1>00, <2>1, <2>2, <3>1, <3>2, FocusOnMover DEF Banking
    <3>4. a \in Requests => (Member(a)' <=> Member(a))
      BY <2>1, <3>2 DEF Member, Flushing, Drawing
    <3>5. Members' = Members
      BY <1>0, <3>4, OthersStayMembers
    <3>6. gate <= clock
      BY <2>4 DEF SerialInv, GateIsCurrent
    <3>7. InHand = 0 /\ InHand' = clock - gate
      BY <1>0, <1>00, <2>1, <2>4, <3>2, <3>6 DEF Banking, SatSub
    <3>8. AtGate = clock - gate /\ AtGate' = 0 /\ gate' # Open
      BY <1>00, <2>4, <3>1 DEF AtGate
    <3> QED BY <1>00, <2>1, <2>4, <3>3, <3>5, <3>7, <3>8 DEF Measured, Spare
  <2> QED BY <2>3, <2>4
<1>2. CASE AccrueLoad(a)
  <2>1. /\ pc[a] = "accrue" /\ UNCHANGED <<clock, meterVars, next, at, span>>
        /\ \/ inflight = 0 /\ pc' = [pc EXCEPT ![a] = "nobody"]
           \/ inflight # 0 /\ pc' = [pc EXCEPT ![a] = "rate"]
    BY <1>2 DEF AccrueLoad, Goto
  <2>2. \/ inflight = 0 /\ pc'[a] = "nobody"
        \/ inflight > 0 /\ pc'[a] = "rate"
    BY <1>0, <2>1 DEF TypeOK
  <2>3. SerialInv'
    BY <2>1, <2>2, FocusOnMover
       DEF meterVars, SerialInv, ReadingIsCurrent, GateIsCurrent, Banking
  <2>4. a \in Requests => (Member(a)' <=> Member(a))
    BY <2>1, <2>2 DEF Member, Flushing, Drawing
  <2>5. Members' = Members
    BY <1>0, <2>4, OthersStayMembers
  <2>6. InHand' = InHand
    BY <1>0, <2>1, <2>2 DEF Banking
  <2> QED BY <2>1, <2>3, <2>5, <2>6 DEF meterVars, Measured, Spare, AtGate
<1>3. CASE AccrueRate(a)
  <2>1. /\ pc[a] = "rate" /\ pc'[a] = "whole"
        /\ UNCHANGED <<clock, gate, inflight, accumulated, unattributed, next, at, span>>
    BY <1>0, <1>3 DEF AccrueRate, Goto, TypeOK
  <2>2. SerialInv'
    BY <2>1, FocusOnMover
       DEF SerialInv, ReadingIsCurrent, GateIsCurrent, CompanyIsCurrent, Banking
  <2>3. a \in Requests => (Member(a)' <=> Member(a))
    BY <2>1 DEF Member, Flushing, Drawing
  <2>4. Members' = Members
    BY <1>0, <2>3, OthersStayMembers
  <2>5. InHand' = InHand
    BY <1>0, <2>1 DEF Banking
  <2> QED BY <2>1, <2>2, <2>4, <2>5 DEF Measured, Spare, AtGate
<1>4. CASE AccrueBank(a)
  <2>1. /\ next[a] \in {"idle", "inner", "join", "part"}
        /\ pc'[a] = next[a] /\ next'[a] = "idle"
        /\ UNCHANGED <<clock, gate, inflight, at>>
        /\ \/ pc[a] = "whole" /\ accumulated' = accumulated + span[a] /\ UNCHANGED unattributed
           \/ pc[a] = "nobody" /\ unattributed' = unattributed + span[a] /\ UNCHANGED accumulated
    BY <1>0, <1>4, Returns DEF AccrueBank, Return, Goto, TypeOK, Flushing
  <2>2. SerialInv'
    BY <2>1, FocusOnMover
       DEF SerialInv, ReadingIsCurrent, GateIsCurrent, Banking
  <2>3. a \in Requests => (Member(a)' <=> Member(a))
    BY <1>0, <2>1 DEF Member, Flushing, Drawing, IInv, RequestPlaces
  <2>4. Members' = Members
    BY <1>0, <2>3, OthersStayMembers
  <2>5. InHand = span[a] /\ InHand' = 0 /\ span[a] \in Nat
    BY <1>0, <2>1 DEF Banking, TypeOK
  <2>6. /\ pc[a] = "whole" => inflight > 0
        /\ pc[a] = "nobody" => inflight = 0
    BY DEF SerialInv, CompanyIsCurrent
  <2>7. AtGate' = AtGate /\ AtGate \in Int
    BY <1>00, <2>1 DEF AtGate
  <2>8. Measured' = Measured /\ Spare' = Spare
    BY <1>0, <2>1, <2>5, <2>6, <2>7 DEF Measured, Spare, TypeOK
  <2> QED BY <2>1, <2>2, <2>4, <2>8
<1> QED BY <1>1, <1>2, <1>3, <1>4 DEF FlushStep

(* A flush that begins takes a reading, and nothing else.                   *)
LEMMA StartFlushSerial ==
  ASSUME SerialInv, IInv', NEW a \in Actors, SerialStep(a),
         NEW label \in Labels, StartFlush(a, label),
         AtRest(a), a \in Requests /\ pc[a] = "live" <=> label = "part"
  PROVE  SerialInv' /\ UNCHANGED <<clock, gate # Open, Members, Measured, Spare>>
<1>1. /\ TypeOK /\ IInv /\ Step(a)
      /\ InHand = (IF pc[a] \in Banking THEN span[a] ELSE 0)
      /\ InHand' = (IF pc'[a] \in Banking THEN span'[a] ELSE 0)
  BY OneMoves DEF SerialInv, IInv, SerialStep
<1>2. /\ pc'[a] = "flush" /\ at'[a] = clock /\ next'[a] = label
      /\ UNCHANGED <<clock, meterVars, span>>
  BY <1>1 DEF StartFlush, Goto, TypeOK
<1>3. SerialInv'
  BY <1>2, FocusOnMover DEF SerialInv, GateIsCurrent, Banking, meterVars
<1>4. a \in Requests => (Member(a)' <=> Member(a))
  BY <1>1, <1>2 DEF Member, Flushing, Drawing, AtRest
<1>5. Members' = Members
  BY <1>1, <1>4, OthersStayMembers
<1>6. InHand = 0 /\ InHand' = 0
  BY <1>1, <1>2 DEF Banking, AtRest
<1> QED BY <1>2, <1>3, <1>5, <1>6 DEF meterVars, Measured, Spare, AtGate

(* The poller opens and shuts the gate, at the time it is.                  *)
LEMMA PollerSerial ==
  ASSUME SerialInv, IInv', NEW a \in Pollers, SerialStep(a), PollerStep(a)
  PROVE  /\ SerialInv'
         /\ [Ideal!Next]_<<clock, gate # Open, Members, Measured, Spare>>
<1>0. /\ a \in Actors /\ a \notin Requests /\ IInv /\ Step(a) /\ TypeOK
      /\ InHand = (IF pc[a] \in Banking THEN span[a] ELSE 0)
      /\ InHand' = (IF pc'[a] \in Banking THEN span'[a] ELSE 0)
  BY OneMoves, MeterAssumption DEF SerialInv, IInv, SerialStep, Actors
<1>00. clock' = clock /\ clock \in Nat /\ Open = -1 /\ (gate # Open => gate \in Nat)
  BY <1>0, OthersUntouched, MeterAssumption DEF TypeOK, Open
<1>1. CASE PollReady(a) \/ Settle(a)
  <2>1. AtRest(a) /\ (StartFlush(a, "inner") \/ StartFlush(a, "idle"))
    BY <1>1 DEF PollReady, Settle, AtRest
  <2> QED BY <1>0, <2>1, StartFlushSerial DEF Labels
<1>2. Members' = Members
  BY <1>0, OthersStayMembers
<1>3. CASE Shut(a)
  <2>1. /\ pc[a] = "inner" /\ pc'[a] = "idle" /\ at[a] = clock
        /\ gate' = IF gate = Open THEN clock ELSE gate
        /\ UNCHANGED <<inflight, accumulated, unattributed, span>>
    BY <1>0, <1>3 DEF Shut, Goto, TypeOK, SerialInv, ReadingIsCurrent
  <2>2. SerialInv'
    BY <1>0, <1>00, <2>1, FocusOnMover DEF SerialInv, GateIsCurrent, Banking
  <2>3. InHand = 0 /\ InHand' = 0
    BY <1>0, <2>1 DEF Banking
  <2>4. AtGate' = AtGate
    BY <1>00, <2>1 DEF AtGate
  <2>5. Measured' = Measured /\ Spare' = Spare
    BY <2>1, <2>3, <2>4 DEF Measured, Spare
  <2>6. (gate' # Open) = (gate # Open) \/ (gate' # Open) = ~(gate # Open)
    OBVIOUS
  <2> QED BY <1>00, <1>2, <2>2, <2>5, <2>6 DEF Ideal!Next, Ideal!Turn
<1>4. CASE OpenGate(a)
  <2>1. /\ pc[a] = "inner" /\ next[a] = "idle" /\ at[a] = clock
        /\ UNCHANGED <<inflight, accumulated, unattributed>>
        /\ \/ gate = Open /\ gate' = Open /\ pc'[a] = "idle"
           \/ /\ gate # Open /\ gate' = Open /\ pc'[a] = "accrue" /\ next'[a] = "idle"
              /\ span'[a] = SatSub(clock, gate)
    BY <1>0, <1>4, Returns
       DEF OpenGate, Bank, Return, Goto, TypeOK, SerialInv, ReadingIsCurrent
  <2>2. SerialInv'
    BY <1>0, <1>00, <2>1, FocusOnMover DEF Banking
  <2>3. gate # Open => gate <= clock
    BY DEF SerialInv, GateIsCurrent
  <2>4. InHand + AtGate = InHand' + AtGate'
    BY <1>0, <1>00, <2>1, <2>3 DEF Banking, AtGate, SatSub
  <2>5. Measured' = Measured /\ Spare' = Spare
    BY <2>1, <2>4 DEF Measured, Spare
  <2>6. (gate' # Open) = (gate # Open) \/ (gate' # Open) = ~(gate # Open)
    OBVIOUS
  <2> QED BY <1>00, <1>2, <2>2, <2>5, <2>6 DEF Ideal!Next, Ideal!Turn
<1> QED BY <1>1, <1>3, <1>4 DEF PollerStep

(* A request comes and leaves when the gate has just been flushed, and its  *)
(* draws measure nothing.                                                   *)
LEMMA RequestSerial ==
  ASSUME SerialInv, IInv', NEW r \in Requests, SerialStep(r), RequestStep(r)
  PROVE  /\ SerialInv'
         /\ [Ideal!Next]_<<clock, gate # Open, Members, Measured, Spare>>
<1>0. /\ r \in Actors /\ IInv /\ Step(r) /\ TypeOK
      /\ InHand = (IF pc[r] \in Banking THEN span[r] ELSE 0)
      /\ InHand' = (IF pc'[r] \in Banking THEN span'[r] ELSE 0)
      /\ gate # Open => gate <= clock
  BY OneMoves DEF SerialInv, IInv, SerialStep, Actors, GateIsCurrent
<1>00. clock' = clock /\ clock \in Nat /\ Open = -1 /\ (gate # Open => gate \in Nat)
  BY <1>0, OthersUntouched, MeterAssumption DEF TypeOK, Open
<1>1. CASE Admit(r)
  BY <1>0, <1>1, StartFlushSerial DEF Admit, AtRest, Labels
<1>2. CASE Finish(r)
  BY <1>0, <1>2, StartFlushSerial DEF Finish, AtRest, Labels
<1>3. ASSUME pc[r] \in {"join", "part"}
      PROVE  AtGate = 0 /\ InHand = 0
  <2>1. gate \in {Open, clock}
    BY <1>0, <1>3 DEF SerialInv, GateIsCurrent
  <2> QED BY <1>0, <1>00, <1>3, <2>1 DEF AtGate, Banking
<1>4. ASSUME pc[r] \in {"join", "part"}, pc'[r] \in {"see", "last"}, gate' = gate,
             UNCHANGED <<accumulated, unattributed>>
      PROVE  SerialInv' /\ UNCHANGED <<clock, gate # Open, Measured, Spare>>
  <2>1. SerialInv'
    BY <1>0, <1>00, <1>4, FocusOnMover DEF Banking
  <2>2. AtGate = 0 /\ InHand = 0 /\ AtGate' = 0 /\ InHand' = 0
    BY <1>0, <1>00, <1>3, <1>4 DEF AtGate, Banking
  <2> QED BY <1>00, <1>4, <2>1, <2>2 DEF Measured, Spare
<1>5. CASE Join(r)
  <2>1. /\ pc[r] = "join" /\ pc'[r] = "see"
        /\ UNCHANGED <<gate, accumulated, unattributed>>
    BY <1>0, <1>5 DEF Join, Goto, TypeOK
  <2>2. Members' = Members \cup {r} /\ r \notin Members
    <3>1. \A q \in Requests \ {r} : pc'[q] = pc[q] /\ next'[q] = next[q]
      BY <1>0, OthersUntouched DEF Actors
    <3>2. \A q \in Requests \ {r} : Member(q)' <=> Member(q)
      BY <3>1 DEF Member
    <3> QED BY <2>1, <3>2 DEF Members, Member, Flushing, Drawing
  <2> QED BY <1>4, <2>1, <2>2 DEF Ideal!Next, Ideal!Come
<1>6. CASE Part(r)
  <2>1. /\ pc[r] = "part" /\ pc'[r] = "last"
        /\ UNCHANGED <<gate, accumulated, unattributed>>
    BY <1>0, <1>6 DEF Part, Goto, TypeOK
  <2>2. Members' = Members \ {r} /\ r \in Members
    <3>1. \A q \in Requests \ {r} : pc'[q] = pc[q] /\ next'[q] = next[q]
      BY <1>0, OthersUntouched DEF Actors
    <3>2. \A q \in Requests \ {r} : Member(q)' <=> Member(q)
      BY <3>1 DEF Member
    <3> QED BY <2>1, <3>2 DEF Members, Member, Flushing, Drawing
  <2> QED BY <1>4, <2>1, <2>2 DEF Ideal!Next, Ideal!Leave
<1>7. CASE See(r) \/ Draw(r) \/ Claim(r) \/ Exchange(r)
  <2>1. /\ pc[r] \in {"see", "live", "last", "claim", "exchange"}
        /\ pc'[r] \in {"live", "claim", "exchange", "over"}
        /\ UNCHANGED <<gate, inflight, accumulated, unattributed>>
        /\ Member(r)' <=> Member(r)
    <3>1. pc[r] \in Drawing => next[r] \in {"live", "over"}
      BY <1>0 DEF IInv, RequestPlaces
    <3> USE <1>0, <3>1
             DEF TypeOK, Goto, Return, meterVars, Member, Drawing, Flushing
    <3>2. CASE See(r)
      BY <3>2 DEF See
    <3>3. CASE Draw(r)
      BY <3>3 DEF Draw
    <3>4. CASE Claim(r)
      BY <3>4 DEF Claim
    <3>5. CASE Exchange(r)
      BY <3>5 DEF Exchange
    <3> QED BY <1>7, <3>2, <3>3, <3>4, <3>5
  <2>2. SerialInv'
    BY <1>0, <1>00, <2>1, FocusOnMover DEF Banking
  <2>3. Members' = Members
    BY <1>0, <2>1, OthersStayMembers
  <2>4. InHand = 0 /\ InHand' = 0 /\ AtGate' = AtGate
    BY <1>0, <1>00, <2>1 DEF Banking, AtGate
  <2> QED BY <1>00, <2>1, <2>2, <2>3, <2>4 DEF Measured, Spare
<1> QED BY <1>1, <1>2, <1>5, <1>6, <1>7 DEF RequestStep

(* Time that passes at a shut gate counts for the members, if there are any.*)
LEMMA TickSerial ==
  ASSUME SerialInv, IInv', SerialTick
  PROVE  SerialInv' /\ Ideal!Elapse
<1>0. /\ \A a \in Actors : AtRest(a)
      /\ clock < MaxTime /\ clock' = clock + 1
      /\ UNCHANGED <<gate, inflight, accumulated, unattributed, pc, next, at, span>>
  BY DEF SerialTick, Settled, Tick, meterVars, localVars
<1>1. /\ TypeOK /\ clock \in Nat /\ Open = -1 /\ (gate # Open => gate \in Nat /\ gate <= clock)
  BY MeterAssumption DEF SerialInv, IInv, TypeOK, Open, GateIsCurrent
<1>2. \A a \in Actors : pc[a] \in {"idle", "out", "live", "over"}
  BY <1>0 DEF AtRest
<1>3. SerialInv'
  BY <1>0, <1>1, <1>2
     DEF SerialInv, OneAtATime, AtRest, ReadingIsCurrent, GateIsCurrent, CompanyIsCurrent, Banking
<1>4. InHand = 0 /\ InHand' = 0
  BY <1>0, <1>2 DEF InHand, Banking
<1>5. Members' = Members
  BY <1>0 DEF Members, Member
<1>6. inflight \in Nat /\ (inflight = 0 <=> Members = {})
  <2>1. IsFiniteSet(Members) /\ inflight = Cardinality(Members)
    BY MeterAssumption, FS_Subset DEF SerialInv, IInv, InflightIsMembers, Members
  <2> QED BY <2>1, FS_EmptySet, FS_CardinalityType
<1>7. AtGate' = IF gate # Open THEN AtGate + 1 ELSE AtGate
  BY <1>0, <1>1 DEF AtGate
<1>8. AtGate \in Int /\ accumulated \in Nat /\ unattributed \in Nat
  BY <1>1 DEF AtGate, TypeOK
<1>9. /\ Measured' = IF gate # Open /\ Members # {} THEN Measured + 1 ELSE Measured
      /\ Spare' = IF gate # Open /\ Members = {} THEN Spare + 1 ELSE Spare
  BY <1>0, <1>4, <1>6, <1>7, <1>8 DEF Measured, Spare
<1> QED BY <1>0, <1>3, <1>5, <1>9 DEF Ideal!Elapse

(* Every step of the serial meter keeps its invariant and is one of the     *)
(* ideal meter, or none.                                                    *)
LEMMA SerialStepIdeal ==
  ASSUME SerialInv, [SerialNext]_<<vars, historyVars>>
  PROVE  SerialInv' /\ [Ideal!Next]_<<clock, gate # Open, Members, Measured, Spare>>
<1>1. IInv'
  BY SerialStepIsStep, NextIInv DEF SerialInv
<1>2. CASE UNCHANGED <<vars, historyVars>>
  <2>1. UNCHANGED <<clock, gate, inflight, accumulated, unattributed, pc, next, at, span>>
    BY <1>2 DEF vars, meterVars, localVars
  <2>2. SerialInv'
    BY <1>1, <2>1 DEF SerialInv, OneAtATime, AtRest, ReadingIsCurrent, GateIsCurrent, CompanyIsCurrent
  <2>3. Members' = Members /\ InHand' = InHand /\ AtGate' = AtGate
    BY <2>1 DEF Members, Member, InHand, AtGate
  <2> QED BY <2>1, <2>2, <2>3 DEF Measured, Spare
<1>3. CASE SerialTick
  BY <1>1, <1>3, TickSerial DEF Ideal!Next
<1>4. ASSUME NEW a \in Actors, SerialStep(a)
      PROVE  SerialInv' /\ [Ideal!Next]_<<clock, gate # Open, Members, Measured, Spare>>
  <2>1. CASE FlushStep(a)
    BY <1>1, <1>4, <2>1, FlushSerial
  <2>2. CASE a \in Pollers /\ PollerStep(a)
    BY <1>1, <1>4, <2>2, PollerSerial
  <2>3. CASE a \in Requests /\ RequestStep(a)
    BY <1>1, <1>4, <2>3, RequestSerial
  <2> QED BY <1>4, <2>1, <2>2, <2>3 DEF SerialStep, Step
<1> QED BY <1>2, <1>3, <1>4 DEF SerialNext

(* On one thread the meter counts what an ideal meter counts as time        *)
(* passes, however it is flushed: nothing measured is lost, counted twice   *)
(* or put down to the wrong company.                                        *)
THEOREM SerialImplementsIdeal == SerialSpec => ImplementsIdeal
<1>1. SerialInit => Ideal!Init
  <2> SUFFICES ASSUME SerialInit PROVE Ideal!Init
    OBVIOUS
  <2>1. /\ clock = 0 /\ gate = Open /\ inflight = 0 /\ accumulated = 0 /\ unattributed = 0
        /\ \A a \in Actors : pc[a] \in {"idle", "out"}
    BY DEF SerialInit, Init
  <2>2. Members = {} /\ InHand = 0 /\ AtGate = 0
    BY <2>1 DEF Members, Member, Flushing, Drawing, Actors, InHand, Banking, AtGate
  <2> QED BY <2>1, <2>2 DEF Ideal!Init, Measured, Spare
<1>2. SerialInv /\ [SerialNext]_<<vars, historyVars>>
        => SerialInv' /\ [Ideal!Next]_<<clock, gate # Open, Members, Measured, Spare>>
  BY SerialStepIdeal
<1>3. SerialInv /\ [SerialNext]_<<vars, historyVars>>
        => [Ideal!Next]_<<clock, gate # Open, Members, Measured, Spare>>
  BY <1>2
<1> QED BY InitSerialInv, <1>1, <1>2, <1>3, PTL
     DEF SerialSpec, ImplementsIdeal, Ideal!Spec, Ideal!vars
-----------------------------------------------------------------------------
(* The bill of a request against the time it was there.                     *)

(* Nobody owes anything at first.                                           *)
LEMMA InitBillInv == SerialInit => BillInv
<1> SUFFICES ASSUME SerialInit PROVE BillInv
  OBVIOUS
<1>1. /\ presence = [r \in Requests |-> 0] /\ owed = [r \in Requests |-> 0]
      /\ \A a \in Actors : pc[a] \in {"idle", "out"}
      /\ \A r \in Requests : pc[r] = "out"
  BY MeterAssumption DEF SerialInit, Init, Actors
<1>2. \A r \in Requests : ~Begun(r) /\ ~Member(r)
  BY <1>1 DEF Begun, Member, Flushing, Drawing
<1> QED BY <1>1, <1>2 DEF BillInv

(* What a step of thread a that does not touch the rate must leave behind:  *)
(* no more at the gate than before, or in hand what was at the gate.        *)
LEMMA BillFocus ==
  ASSUME SerialInv, BillInv, IInv', NEW a \in Actors, SerialStep(a),
         rate' = rate, AtGate \in Int, AtGate' \in Int, AtGate' <= AtGate,
         pc'[a] # "rate", pc'[a] = "accrue" => span'[a] <= AtGate,
         a \in Requests =>
           /\ ~Begun(a)' => owed'[a] = 0
           /\ Begun(a)' => owed'[a] + Unbilled(a)' <= presence[a]
           /\ Member(a)' => owed'[a] + Unbilled(a)' + AtGate' <= presence[a]
           /\ Member(a)' /\ pc'[a] = "accrue" =>
                owed'[a] + Unbilled(a)' + span'[a] <= presence[a]
           /\ pc'[a] = "exchange" => span'[a] <= share'[a]
  PROVE  BillInv'
<1>0. /\ TypeOK /\ TypeOK' /\ IInv /\ Step(a) /\ presence' = presence
  BY DEF SerialInv, IInv, SerialStep
<1>1. \A b \in Actors \ {a} : pc'[b] \in {"idle", "out", "live", "over"}
  BY <1>0, OneMoves DEF AtRest
<1>2. ASSUME NEW r \in Requests, r # a
      PROVE  /\ pc'[r] = pc[r] /\ next'[r] = next[r] /\ owed'[r] = owed[r]
             /\ seen'[r] = seen[r] /\ share'[r] = share[r] /\ span'[r] = span[r]
  BY <1>0, <1>2, OthersUntouched DEF Actors
<1>3. ASSUME NEW r \in Requests, r # a
      PROVE  /\ Begun(r)' <=> Begun(r)
             /\ Member(r)' <=> Member(r)
             /\ Unbilled(r)' = Unbilled(r)
  BY <1>2, <1>3 DEF Begun, Member, Unbilled, Pending
<1>4. ASSUME NEW r \in Requests
      PROVE  owed[r] \in Nat /\ owed'[r] \in Nat /\ Unbilled(r) \in Int /\ Unbilled(r)' \in Int
             /\ presence[r] \in Nat /\ span'[a] \in Nat
  <2>1. /\ owed[r] \in Nat /\ owed'[r] \in Nat /\ presence[r] \in Nat /\ span'[a] \in Nat
        /\ rate \in Int /\ rate' \in Int /\ seen[r] \in Int /\ seen'[r] \in Int
        /\ share[r] \in Int /\ share'[r] \in Int
    BY <1>0 DEF TypeOK, BillInv, Actors
  <2> QED BY <2>1 DEF Unbilled, Pending
<1>5. ASSUME NEW r \in Requests
      PROVE  /\ ~Begun(r)' => owed'[r] = 0
             /\ Begun(r)' => owed'[r] + Unbilled(r)' <= presence[r]
             /\ Member(r)' => owed'[r] + Unbilled(r)' + AtGate' <= presence[r]
             /\ Member(r)' => \A b \in Actors : pc'[b] \in {"accrue", "rate"} =>
                  owed'[r] + Unbilled(r)' + span'[b] <= presence[r]
             /\ pc'[r] = "exchange" => span'[r] <= share'[r]
  <2>1. CASE r = a
    BY <1>1, <2>1
  <2>2. CASE r # a
    <3>1. /\ ~Begun(r) => owed[r] = 0
          /\ Begun(r) => owed[r] + Unbilled(r) <= presence[r]
          /\ Member(r) => owed[r] + Unbilled(r) + AtGate <= presence[r]
          /\ pc[r] = "exchange" => span[r] <= share[r]
      BY DEF BillInv
    <3>2. /\ Begun(r)' <=> Begun(r)
          /\ Member(r)' <=> Member(r)
          /\ Unbilled(r)' = Unbilled(r) /\ owed'[r] = owed[r]
      BY <1>2, <1>3, <2>2
    <3>3. Member(r)' => owed'[r] + Unbilled(r)' + AtGate' <= presence[r]
      BY <1>4, <3>1, <3>2
    <3>4. Member(r)' /\ pc'[a] = "accrue" => owed'[r] + Unbilled(r)' + span'[a] <= presence[r]
      BY <1>4, <3>1, <3>2
    <3> QED BY <1>1, <1>2, <2>2, <3>1, <3>2, <3>3, <3>4
  <2> QED BY <2>1, <2>2
<1> QED BY <1>0, <1>1, <1>5 DEF BillInv

(* A flush hands over what was at the gate, and accrues no more than that   *)
(* to anybody.                                                              *)
LEMMA FlushBill ==
  ASSUME SerialInv, BillInv, IInv', NEW a \in Actors, SerialStep(a), FlushStep(a)
  PROVE  BillInv'
<1>0. /\ IInv /\ Step(a) /\ TypeOK /\ TypeOK' /\ presence' = presence
      /\ \A b \in Actors \ {a} : /\ pc'[b] \in {"idle", "out", "live", "over"}
                                 /\ pc'[b] = pc[b]
  BY OneMoves DEF SerialInv, SerialStep, IInv, AtRest
<1>00. /\ clock' = clock /\ clock \in Nat /\ Open = -1 /\ (gate # Open => gate \in Nat)
       /\ gate # Open => gate <= clock
  BY <1>0, OthersUntouched, MeterAssumption DEF TypeOK, Open, SerialInv, GateIsCurrent
<1>01. AtGate \in Nat
  BY <1>00 DEF AtGate
<1>02. a \in Requests => RequestPlaces(a)
  BY <1>0 DEF IInv
<1>03. a \in Requests =>
         /\ ~Begun(a) => owed[a] = 0
         /\ Begun(a) => owed[a] + Unbilled(a) <= presence[a]
         /\ Member(a) => owed[a] + Unbilled(a) + AtGate <= presence[a]
         /\ Member(a) /\ pc[a] \in {"accrue", "rate"} =>
              owed[a] + Unbilled(a) + span[a] <= presence[a]
         /\ owed[a] \in Nat /\ Unbilled(a) \in Int /\ presence[a] \in Nat
  <2> SUFFICES ASSUME a \in Requests
               PROVE  owed[a] \in Nat /\ Unbilled(a) \in Int /\ presence[a] \in Nat
    BY DEF BillInv
  <2>1. /\ owed[a] \in Nat /\ rate \in Int /\ seen[a] \in Int /\ share[a] \in Int
        /\ presence[a] \in Nat
    BY <1>0 DEF TypeOK, BillInv
  <2> QED BY <2>1 DEF Unbilled, Pending
<1>1. CASE Flush(a)
  <2>1. /\ pc[a] = "flush" /\ at[a] = clock
        /\ UNCHANGED <<rate, share, seen, owed>>
        /\ next[a] \in {"idle", "inner", "join", "part"}
    BY <1>0, <1>1, Returns DEF Flush, SerialInv, ReadingIsCurrent, Flushing
  <2>2. \/ gate = Open /\ gate' = Open /\ pc'[a] = next[a]
        \/ /\ gate # Open /\ gate' = clock /\ pc'[a] = "accrue" /\ next'[a] = next[a]
           /\ span'[a] = SatSub(clock, gate)
    BY <1>0, <1>1, <2>1 DEF Flush, Bank, Return, Goto, TypeOK
  <2>3. AtGate' = 0 /\ (pc'[a] = "accrue" => span'[a] = AtGate)
    BY <1>00, <2>1, <2>2 DEF AtGate, SatSub
  <2>4. a \in Requests =>
          /\ Begun(a)' <=> Begun(a)
          /\ Member(a)' <=> Member(a)
          /\ Unbilled(a)' = Unbilled(a)
          /\ pc'[a] # "exchange"
    BY <1>02, <2>1, <2>2 DEF Begun, Member, Unbilled, Pending, Flushing, Drawing, RequestPlaces
  <2>5. pc'[a] # "rate"
    BY <2>1, <2>2
  <2> QED BY <1>01, <1>03, <2>1, <2>3, <2>4, <2>5, BillFocus
<1>2. CASE AccrueLoad(a)
  <2>1. /\ pc[a] = "accrue" /\ UNCHANGED <<clock, meterVars, next, at, span, seen, owed>>
        /\ \/ inflight = 0 /\ pc'[a] = "nobody"
           \/ inflight # 0 /\ pc'[a] = "rate" /\ share'[a] = span[a] \div inflight
    BY <1>0, <1>2 DEF AccrueLoad, Goto, TypeOK
  <2>2. pc'[a] = "rate" => share'[a] <= span[a]
    <3>1. span[a] \in Nat /\ inflight \in Nat
      BY <1>0 DEF TypeOK
    <3>2. \A n \in Nat, k \in Nat : k # 0 => n \div k <= n
      OBVIOUS
    <3> QED BY <2>1, <3>1, <3>2
  <2>3. ASSUME NEW r \in Requests
        PROVE  /\ Begun(r)' <=> Begun(r)
               /\ Member(r)' <=> Member(r)
               /\ Unbilled(r)' = Unbilled(r) /\ AtGate' = AtGate
               /\ pc'[r] # "exchange"
    <3>1. r # a => pc'[r] = pc[r] /\ share'[r] = share[r] /\ pc'[r] # "exchange"
      BY <1>0, OthersUntouched DEF Actors
    <3> QED BY <2>1, <3>1 DEF Begun, Member, Unbilled, Pending, Flushing, Drawing, meterVars, AtGate
  <2>4. \A b \in Actors : pc'[b] \in {"accrue", "rate"} => b = a
    BY <1>0
  <2> QED BY <1>0, <2>1, <2>2, <2>3, <2>4 DEF BillInv
<1>3. CASE AccrueRate(a)
  <2>1. /\ pc[a] = "rate" /\ pc'[a] = "whole" /\ rate' = rate + share[a]
        /\ UNCHANGED <<clock, gate, next, span, seen, owed>>
    BY <1>0, <1>3 DEF AccrueRate, Goto, TypeOK
  <2>2. gate \in {Open, clock} /\ AtGate' = 0
    <3>1. gate \in {Open, clock}
      BY <2>1 DEF SerialInv, GateIsCurrent, Banking
    <3> QED BY <1>00, <2>1, <3>1 DEF AtGate
  <2>3. share[a] \in Nat /\ span[a] \in Nat /\ share[a] <= span[a] /\ rate \in Nat
    BY <1>0, <2>1 DEF TypeOK, BillInv
  <2>4. \A b \in Actors : pc'[b] \notin {"accrue", "rate", "exchange"}
    BY <1>0, <2>1
  <2>5. ASSUME NEW r \in Requests
        PROVE  /\ ~Begun(r)' => owed'[r] = 0
               /\ Begun(r)' => owed'[r] + Unbilled(r)' <= presence[r]
               /\ Member(r)' => owed'[r] + Unbilled(r)' + AtGate' <= presence[r]
    <3>1. /\ r # a => pc'[r] = pc[r] /\ pc[r] \in {"idle", "out", "live", "over"}
                      /\ share'[r] = share[r]
          /\ owed[r] \in Nat /\ presence[r] \in Nat /\ seen[r] \in Nat
      BY <1>0, OthersUntouched DEF Actors, TypeOK, BillInv
    <3>2. /\ ~Begun(r) => owed[r] = 0
          /\ Begun(r) => owed[r] + Unbilled(r) <= presence[r]
          /\ Member(r) => owed[r] + Unbilled(r) + span[a] <= presence[r]
      BY <2>1 DEF BillInv
    <3>3. RequestPlaces(r)
      BY <1>0 DEF IInv
    <3>4. /\ Begun(r)' <=> Begun(r)
          /\ Member(r)' <=> Member(r)
      BY <2>1, <3>1, <3>3 DEF Begun, Member, Flushing, Drawing, RequestPlaces
    <3>5. CASE Member(r)
      <4>1. Unbilled(r) = rate - seen[r] /\ Unbilled(r)' = rate + share[a] - seen[r]
        BY <2>1, <2>3, <3>1, <3>5 DEF Unbilled, Pending, Member, Flushing, Drawing
      <4> QED BY <2>1, <2>2, <2>3, <3>1, <3>2, <3>4, <3>5, <4>1 DEF Begun, Member, Flushing
    <3>6. CASE ~Member(r)
      <4>1. Begun(r) => pc[r] = "over" /\ pc'[r] = "over"
        BY <2>1, <3>1, <3>3, <3>6 DEF Begun, Member, Flushing, Drawing, RequestPlaces
      <4>2. Begun(r) => Unbilled(r) = 0 /\ Unbilled(r)' = 0
        BY <4>1 DEF Unbilled, Pending, Drawing
      <4> QED BY <2>1, <3>1, <3>2, <3>4, <3>6, <4>2
    <3> QED BY <3>5, <3>6
  <2> QED BY <1>0, <2>4, <2>5 DEF BillInv, Actors
<1>4. CASE AccrueBank(a)
  <2>1. /\ next[a] \in {"idle", "inner", "join", "part"}
        /\ pc[a] \in {"whole", "nobody"}
        /\ pc'[a] = next[a] /\ next'[a] = "idle"
        /\ UNCHANGED <<clock, gate, rate, seen, owed, share>>
    BY <1>0, <1>4, Returns DEF AccrueBank, Return, Goto, TypeOK, Flushing
  <2>2. a \in Requests =>
          /\ Begun(a)' <=> Begun(a)
          /\ Member(a)' <=> Member(a)
          /\ Unbilled(a)' = Unbilled(a)
    BY <1>02, <2>1 DEF Begun, Member, Unbilled, Pending, Flushing, Drawing, RequestPlaces
  <2>3. AtGate' = AtGate /\ pc'[a] \notin {"accrue", "rate", "exchange"}
    BY <2>1 DEF AtGate
  <2> QED BY <1>01, <1>03, <2>1, <2>2, <2>3, BillFocus
<1> QED BY <1>1, <1>2, <1>3, <1>4 DEF FlushStep

(* The poller moves time from the gate to its hand, and none to a bill.     *)
LEMMA PollerBill ==
  ASSUME SerialInv, BillInv, IInv', NEW a \in Pollers, SerialStep(a), PollerStep(a)
  PROVE  BillInv'
<1>0. a \in Actors /\ a \notin Requests /\ IInv /\ Step(a) /\ TypeOK
  BY MeterAssumption DEF SerialInv, IInv, SerialStep, Actors
<1>00. /\ clock' = clock /\ clock \in Nat /\ Open = -1 /\ (gate # Open => gate \in Nat)
       /\ gate # Open => gate <= clock
  BY <1>0, OthersUntouched, MeterAssumption DEF TypeOK, Open, SerialInv, GateIsCurrent
<1>01. AtGate \in Nat
  BY <1>00 DEF AtGate
<1>1. CASE PollReady(a) \/ Settle(a)
  <2>1. pc'[a] = "flush" /\ UNCHANGED <<clock, gate, rate>>
    BY <1>0, <1>1 DEF PollReady, Settle, StartFlush, Goto, meterVars, TypeOK
  <2>2. AtGate' = AtGate
    BY <2>1 DEF AtGate
  <2> QED BY <1>0, <1>01, <2>1, <2>2, BillFocus
<1>2. CASE Shut(a)
  <2>1. /\ pc'[a] = "idle" /\ at[a] = clock /\ rate' = rate
        /\ gate' = IF gate = Open THEN clock ELSE gate
    BY <1>0, <1>2 DEF Shut, Goto, TypeOK, SerialInv, ReadingIsCurrent
  <2>2. AtGate' = AtGate
    BY <1>00, <2>1 DEF AtGate
  <2> QED BY <1>0, <1>01, <2>1, <2>2, BillFocus
<1>3. CASE OpenGate(a)
  <2>1. /\ at[a] = clock /\ next[a] = "idle" /\ rate' = rate
        /\ \/ gate = Open /\ gate' = Open /\ pc'[a] = "idle"
           \/ /\ gate # Open /\ gate' = Open /\ pc'[a] = "accrue"
              /\ span'[a] = SatSub(clock, gate)
    BY <1>0, <1>3, Returns
       DEF OpenGate, Bank, Return, Goto, TypeOK, SerialInv, ReadingIsCurrent
  <2>2. AtGate' = 0 /\ (pc'[a] = "accrue" => span'[a] = AtGate) /\ pc'[a] # "rate"
    BY <1>00, <2>1 DEF AtGate, SatSub
  <2> QED BY <1>0, <1>01, <2>1, <2>2, BillFocus
<1> QED BY <1>1, <1>2, <1>3 DEF PollerStep

(* A draw moves the growth of the rate to the bill, or part of it.          *)
LEMMA RequestBill ==
  ASSUME SerialInv, BillInv, IInv', NEW r \in Requests, SerialStep(r), RequestStep(r)
  PROVE  BillInv'
<1>0. r \in Actors /\ r \notin Pollers /\ IInv /\ Step(r) /\ TypeOK
  BY MeterAssumption DEF SerialInv, IInv, SerialStep, Actors
<1>00. /\ clock' = clock /\ clock \in Nat /\ Open = -1 /\ (gate # Open => gate \in Nat)
       /\ gate # Open => gate <= clock
  BY <1>0, OthersUntouched, MeterAssumption DEF TypeOK, Open, SerialInv, GateIsCurrent
<1>01. AtGate \in Nat
  BY <1>00 DEF AtGate
<1>02. RequestPlaces(r) /\ seen[r] <= rate
  BY <1>0 DEF IInv
<1>03. /\ ~Begun(r) => owed[r] = 0
       /\ Begun(r) => owed[r] + Unbilled(r) <= presence[r]
       /\ Member(r) => owed[r] + Unbilled(r) + AtGate <= presence[r]
       /\ pc[r] = "exchange" => span[r] <= share[r]
  BY DEF BillInv
<1>04. /\ owed[r] \in Nat /\ rate \in Nat /\ seen[r] \in Nat /\ share[r] \in Nat
       /\ span[r] \in Nat /\ presence[r] \in Nat
  BY <1>0 DEF TypeOK, BillInv
<1>05. /\ gate' = gate /\ rate' = rate /\ AtGate' = AtGate
       /\ pc'[r] \in Labels \ {"accrue", "rate"}
  <2>1. gate' = gate /\ rate' = rate
    BY DEF RequestStep, Admit, Join, See, Draw, Claim, Exchange, Finish, Part,
           StartFlush, meterVars
  <2>2. pc'[r] \in Labels
    BY <1>0 DEF IInv, TypeOK
  <2>3. pc'[r] \notin {"accrue", "rate"}
    BY <1>0, <1>02 DEF RequestStep, Admit, Join, See, Draw, Claim, Exchange, Finish, Part,
           StartFlush, Goto, Return, TypeOK, RequestPlaces, Drawing
  <2> QED BY <1>00, <2>1, <2>2, <2>3 DEF AtGate
<1>1. SUFFICES
        /\ ~Begun(r)' => owed'[r] = 0
        /\ Begun(r)' => owed'[r] + Unbilled(r)' <= presence[r]
        /\ Member(r)' => owed'[r] + Unbilled(r)' + AtGate <= presence[r]
        /\ pc'[r] = "exchange" => span'[r] <= share'[r]
  BY <1>0, <1>01, <1>05, BillFocus
<1>2. CASE Admit(r) \/ Finish(r)
  <2>1. /\ pc'[r] = "flush" /\ UNCHANGED <<rate, seen, owed, share>>
        /\ \/ pc[r] = "out" /\ next'[r] = "join"
           \/ pc[r] = "live" /\ next'[r] = "part"
    BY <1>0, <1>2 DEF Admit, Finish, StartFlush, Goto, meterVars, TypeOK
  <2>2. /\ Begun(r)' <=> Begun(r)
        /\ Member(r)' <=> Member(r)
        /\ Begun(r) => Unbilled(r)' = Unbilled(r)
    BY <2>1 DEF Begun, Member, Unbilled, Pending, Flushing, Drawing
  <2>3. Member(r) => Begun(r)
    BY <2>1 DEF Begun, Member, Flushing, Drawing
  <2> QED BY <1>03, <2>1, <2>2, <2>3
<1>3. CASE Join(r)
  <2>1. pc[r] = "join" /\ pc'[r] = "see" /\ owed' = owed
    BY <1>0, <1>3 DEF Join, Goto, TypeOK
  <2>2. AtGate = 0
    <3>1. gate \in {Open, clock}
      BY <1>0, <2>1 DEF SerialInv, GateIsCurrent
    <3> QED BY <1>00, <3>1 DEF AtGate
  <2>3. owed'[r] = 0 /\ Unbilled(r)' = 0 /\ Begun(r)'
    BY <1>03, <2>1 DEF Begun, Unbilled, Pending, Flushing, Drawing
  <2> QED BY <1>04, <2>1, <2>2, <2>3
<1>4. CASE See(r)
  <2>1. pc[r] = "see" /\ pc'[r] = "live" /\ seen'[r] = rate /\ owed' = owed
    BY <1>0, <1>4 DEF See, Goto, TypeOK
  <2>2. Unbilled(r) = 0 /\ Unbilled(r)' = 0 /\ Begun(r) /\ Begun(r)' /\ Member(r)
    BY <1>04, <1>05, <2>1 DEF Begun, Member, Unbilled, Pending, Flushing, Drawing
  <2> QED BY <1>03, <2>1, <2>2
<1>5. CASE Part(r)
  <2>1. pc[r] = "part" /\ pc'[r] = "last" /\ UNCHANGED <<seen, owed, share>>
    BY <1>0, <1>5 DEF Part, Goto, localVars, TypeOK
  <2>2. Unbilled(r)' = Unbilled(r) /\ Begun(r) /\ Begun(r)' /\ ~Member(r)'
    BY <1>05, <2>1 DEF Begun, Member, Unbilled, Pending, Flushing, Drawing
  <2> QED BY <1>03, <2>1, <2>2
<1>6. CASE Draw(r)
  <2>1. /\ pc[r] \in {"live", "last"} /\ owed' = owed
        /\ seen'[r] = rate /\ share'[r] = rate - seen[r]
        /\ \/ rate - seen[r] = 0 /\ pc'[r] = "over" 
           \/ rate - seen[r] = 0 /\ pc'[r] = "live" /\ pc[r] = "live"
           \/ pc'[r] = "claim" /\ next'[r] = (IF pc[r] = "live" THEN "live" ELSE "over")
    BY <1>0, <1>6 DEF Draw, Goto, TypeOK
  <2>2. /\ Unbilled(r) = rate - seen[r] /\ Begun(r)
        /\ Unbilled(r)' = rate - seen[r] /\ Begun(r)'
        /\ Member(r)' => Member(r)
    BY <1>04, <1>05, <2>1 DEF Begun, Member, Unbilled, Pending, Flushing, Drawing
  <2> QED BY <1>03, <2>1, <2>2
<1>7. CASE Claim(r)
  <2>1. /\ pc[r] = "claim" /\ UNCHANGED <<seen, owed>>
        /\ next[r] \in {"live", "over"}
        /\ \/ pc'[r] = next[r] /\ share'[r] = 0
           \/ /\ pc'[r] = "exchange" /\ next'[r] = next[r] /\ share'[r] = share[r]
              /\ span'[r] = Min({share[r], SatSub(accumulated, attributed)})
    BY <1>0, <1>02, <1>7 DEF Claim, Return, Goto, TypeOK, RequestPlaces, Drawing
  <2>2. pc'[r] = "exchange" => span'[r] <= share'[r]
    <3>1. share[r] \in Nat /\ SatSub(accumulated, attributed) \in Nat
      BY <1>0, <1>04, SatSubNat DEF TypeOK
    <3>2. Min({share[r], SatSub(accumulated, attributed)}) <= share[r]
      BY <3>1 DEF Min
    <3> QED BY <2>1, <3>2
  <2>3. /\ Begun(r) /\ Begun(r)'
        /\ Unbilled(r)' <= Unbilled(r) /\ Unbilled(r) \in Int /\ Unbilled(r)' \in Int
        /\ Member(r)' => Member(r)
    BY <1>02, <1>04, <1>05, <2>1 DEF Begun, Member, Unbilled, Pending, Flushing, Drawing
  <2> QED BY <1>01, <1>03, <1>04, <2>1, <2>2, <2>3
<1>8. CASE Exchange(r)
  <2>1. /\ pc[r] = "exchange" /\ seen' = seen
        /\ next[r] \in {"live", "over"}
        /\ \/ pc'[r] = next[r] /\ share'[r] = 0 /\ owed'[r] = owed[r] + span[r]
           \/ /\ pc'[r] = "claim" /\ next'[r] = next[r] /\ share'[r] = share[r]
              /\ owed'[r] = owed[r]
    BY <1>0, <1>02, <1>8 DEF Exchange, Return, Goto, TypeOK, RequestPlaces, Drawing
  <2>2. /\ Begun(r) /\ Begun(r)'
        /\ owed'[r] + Unbilled(r)' <= owed[r] + Unbilled(r)
        /\ owed'[r] \in Nat /\ Unbilled(r) \in Int /\ Unbilled(r)' \in Int
        /\ Member(r)' => Member(r)
    BY <1>02, <1>03, <1>04, <1>05, <2>1 DEF Begun, Member, Unbilled, Pending, Flushing, Drawing
  <2> QED BY <1>01, <1>03, <1>04, <2>1, <2>2
<1> QED BY <1>2, <1>3, <1>4, <1>5, <1>6, <1>7, <1>8 DEF RequestStep

(* The time that passes at a shut gate passes in the presence of members.   *)
LEMMA TickBill ==
  ASSUME SerialInv, BillInv, IInv', SerialTick
  PROVE  BillInv'
<1>0. /\ \A a \in Actors : pc[a] \in {"idle", "out", "live", "over"}
      /\ clock' = clock + 1
      /\ UNCHANGED <<gate, rate, pc, next, span, share, seen, owed>>
      /\ presence' = [r \in Requests |->
           presence[r] + (IF r \in (IF gate = Open THEN {} ELSE Members) THEN 1 ELSE 0)]
  BY DEF SerialTick, Settled, AtRest, Tick, meterVars, localVars
<1>1. /\ clock \in Nat /\ Open = -1 /\ (gate # Open => gate \in Nat)
  BY MeterAssumption DEF SerialInv, IInv, TypeOK, Open
<1>2. AtGate' = IF gate = Open THEN AtGate ELSE AtGate + 1
  BY <1>0, <1>1 DEF AtGate
<1>3. AtGate \in Int
  BY <1>1 DEF AtGate
<1>4. ASSUME NEW r \in Requests
      PROVE  /\ presence'[r] \in Nat /\ presence'[r] >= presence[r]
             /\ Member(r) /\ gate # Open => presence'[r] = presence[r] + 1
  BY <1>0 DEF BillInv, Members
<1>5. ASSUME NEW r \in Requests
      PROVE  /\ Begun(r)' <=> Begun(r)
             /\ Member(r)' <=> Member(r)
             /\ Unbilled(r)' = Unbilled(r)
  BY <1>0 DEF Begun, Member, Unbilled, Pending
<1>6. ASSUME NEW r \in Requests
      PROVE  owed[r] \in Nat /\ Unbilled(r) \in Int /\ presence[r] \in Nat
  <2>1. /\ owed[r] \in Nat /\ presence[r] \in Nat
        /\ rate \in Int /\ seen[r] \in Int /\ share[r] \in Int
    BY DEF SerialInv, IInv, TypeOK, BillInv, Actors
  <2> QED BY <2>1 DEF Unbilled, Pending
<1>7. ASSUME NEW r \in Requests
      PROVE  /\ ~Begun(r)' => owed'[r] = 0
             /\ Begun(r)' => owed'[r] + Unbilled(r)' <= presence'[r]
             /\ Member(r)' => owed'[r] + Unbilled(r)' + AtGate' <= presence'[r]
  <2>1. /\ ~Begun(r) => owed[r] = 0
        /\ Begun(r) => owed[r] + Unbilled(r) <= presence[r]
        /\ Member(r) => owed[r] + Unbilled(r) + AtGate <= presence[r]
    BY DEF BillInv
  <2> QED BY <1>0, <1>2, <1>3, <1>4, <1>5, <1>6, <2>1
<1>8. presence' \in [Requests -> Nat]
  BY <1>0, <1>4
<1> QED BY <1>0, <1>7, <1>8 DEF BillInv, Actors

(* Whatever the schedule of flushes and draws, no request is billed for     *)
(* more than the time it was there while the gate was shut.                 *)
THEOREM BilledForPresence == SerialSpec => []BillWithinPresence
<1>1. SerialInv /\ BillInv /\ [SerialNext]_<<vars, historyVars>> => SerialInv' /\ BillInv'
  <2> SUFFICES ASSUME SerialInv, BillInv, [SerialNext]_<<vars, historyVars>>
               PROVE  SerialInv' /\ BillInv'
    OBVIOUS
  <2>1. SerialInv' /\ IInv'
    BY SerialStepIdeal DEF SerialInv
  <2>2. CASE UNCHANGED <<vars, historyVars>>
    <3>1. UNCHANGED <<clock, gate, rate, pc, next, span, share, seen, owed, presence>>
      BY <2>2 DEF vars, historyVars, meterVars, localVars
    <3> QED BY <2>1, <3>1 DEF BillInv, Begun, Member, Unbilled, Pending, AtGate
  <2>3. CASE SerialTick
    BY <2>1, <2>3, TickBill
  <2>4. ASSUME NEW a \in Actors, SerialStep(a) PROVE BillInv'
    BY <2>1, <2>4, FlushBill, PollerBill, RequestBill DEF SerialStep, Step
  <2> QED BY <2>1, <2>2, <2>3, <2>4 DEF SerialNext
<1>2. SerialInv /\ BillInv => BillWithinPresence
  <2> SUFFICES ASSUME SerialInv, BillInv, NEW r \in Requests PROVE owed[r] <= presence[r]
    BY DEF BillWithinPresence
  <2>1. /\ owed[r] \in Nat /\ presence[r] \in Nat /\ seen[r] <= rate
        /\ rate \in Nat /\ seen[r] \in Nat /\ share[r] \in Nat
    BY DEF SerialInv, IInv, TypeOK, BillInv, Actors
  <2>2. Unbilled(r) \in Nat
    BY <2>1 DEF Unbilled, Pending
  <2> QED BY <2>1, <2>2 DEF BillInv
<1> QED BY InitSerialInv, InitBillInv, <1>1, <1>2, PTL DEF SerialSpec
-----------------------------------------------------------------------------
(* The bill of a request against the rate.                                  *)

(* Nothing happens to a request while another thread moves.                 *)
LEMMA OthersKeep ==
  ASSUME IInv, NEW a \in Actors, SerialStep(a), NEW r \in Requests, r # a
  PROVE  /\ pc'[r] = pc[r] /\ pc[r] \in {"out", "live", "over"}
         /\ share'[r] = share[r] /\ span'[r] = span[r]
         /\ seen'[r] = seen[r] /\ owed'[r] = owed[r]
         /\ joined'[r] = joined[r] /\ alone'[r] = alone[r]
         /\ Counted(r)' <=> Counted(r)
         /\ Charged(r)' <=> Charged(r)
         /\ Member(r)' <=> Member(r)
         /\ Member(r) <=> Charged(r)
         /\ Pending(r) = 0 /\ Pending(r)' = 0
         /\ rate' = rate => Unbilled(r)' = Unbilled(r)
<1>1. /\ pc'[r] = pc[r] /\ next'[r] = next[r] /\ share'[r] = share[r] /\ span'[r] = span[r]
      /\ seen'[r] = seen[r] /\ owed'[r] = owed[r]
  BY OthersUntouched DEF Actors, SerialStep
<1>2. pc[r] \in {"out", "live", "over"}
  BY DEF SerialStep, Actors, AtRest, IInv, RequestPlaces
<1>3. joined'[r] = joined[r] /\ alone'[r] = alone[r]
  BY DEF SerialStep
<1>4. /\ Counted(r)' <=> Counted(r)
      /\ Charged(r)' <=> Charged(r)
      /\ Member(r)' <=> Member(r)
      /\ Member(r) <=> Charged(r)
      /\ Pending(r) = 0 /\ Pending(r)' = 0
  BY <1>1, <1>2 DEF Counted, Charged, Begun, Member, Pending, Flushing, Drawing
<1>5. rate' = rate => Unbilled(r)' = Unbilled(r)
  BY <1>1, <1>2 DEF Unbilled, Pending, Drawing
<1> QED BY <1>1, <1>2, <1>3, <1>4, <1>5

(* A flush moves nothing on or off a bill.                                  *)
LEMMA FlushKeeps ==
  ASSUME SerialInv, NEW a \in Actors, SerialStep(a), FlushStep(a)
  PROVE  /\ UNCHANGED <<inflight, attributed, seen, owed, alone>>
         /\ pc[a] \in Flushing
         /\ pc'[a] \in Flushing \cup {"idle", "inner", "join", "part"}
         /\ a \in Requests =>
              /\ joined'[a] = joined[a]
              /\ Counted(a)' <=> Counted(a)
              /\ Charged(a)' <=> Charged(a)
              /\ Charged(a) <=> Counted(a)
              /\ Member(a)' <=> Member(a)
              /\ Member(a) <=> Counted(a)
              /\ Pending(a) = 0 /\ Pending(a)' = 0
              /\ rate' = rate => Unbilled(a)' = Unbilled(a)
<1>0. IInv /\ TypeOK
  BY DEF SerialInv, IInv
<1>1. /\ UNCHANGED <<inflight, attributed, seen, owed, alone>>
      /\ pc[a] \in Flushing
      /\ \/ pc'[a] \in {"accrue", "rate", "whole", "nobody"} /\ next'[a] = next[a]
         \/ pc'[a] = next[a]
  <2>1. UNCHANGED <<inflight, attributed, seen, owed, alone>> /\ pc[a] \in Flushing
    BY DEF FlushStep, Flush, AccrueLoad, AccrueRate, AccrueBank, Bank, Return, Flushing,
           SerialStep, meterVars
  <2>2. \/ pc'[a] \in {"accrue", "rate", "whole", "nobody"} /\ next'[a] = next[a]
        \/ pc'[a] = next[a]
    BY <1>0 DEF FlushStep, Flush, AccrueLoad, AccrueRate, AccrueBank, Bank, Return, Goto, TypeOK
  <2> QED BY <2>1, <2>2
<1>2. next[a] \in {"idle", "inner", "join", "part"} /\ pc[a] # "see"
  BY <1>0, <1>1, Returns DEF Flushing
<1>3. ASSUME a \in Requests
      PROVE  /\ joined'[a] = joined[a]
             /\ Counted(a)' <=> Counted(a)
             /\ Charged(a)' <=> Charged(a)
             /\ Charged(a) <=> Counted(a)
             /\ Member(a)' <=> Member(a)
             /\ Member(a) <=> Counted(a)
             /\ Pending(a) = 0 /\ Pending(a)' = 0
             /\ rate' = rate => Unbilled(a)' = Unbilled(a)
  <2>1. next[a] \in {"join", "part"}
    BY <1>0, <1>1, <1>3 DEF IInv, RequestPlaces
  <2>2. joined'[a] = joined[a]
    BY <1>2, <1>3 DEF SerialStep
  <2>3. /\ Counted(a)' <=> Counted(a)
        /\ Charged(a)' <=> Charged(a)
        /\ Charged(a) <=> Counted(a)
        /\ Member(a)' <=> Member(a)
        /\ Member(a) <=> Counted(a)
    BY <1>1, <2>1 DEF Counted, Charged, Begun, Member, Flushing, Drawing
  <2>4. /\ Pending(a) = 0 /\ Pending(a)' = 0
        /\ rate' = rate => Unbilled(a)' = Unbilled(a)
    BY <1>1, <2>1 DEF Pending, Unbilled, Flushing, Drawing
  <2> QED BY <2>2, <2>3, <2>4
<1> QED BY <1>1, <1>2, <1>3 DEF Flushing

(* There is only so much growth to be drawn.                                *)
LEMMA DueFinite ==
  ASSUME IInv
  PROVE  IsFiniteSet(Due) /\ Cardinality(Due) \in Nat
<1>1. IsFiniteSet(1..rate)
  BY FS_Interval DEF IInv, TypeOK
<1>2. IsFiniteSet(Requests \X (1..rate))
  BY <1>1, FS_Product, MeterAssumption
<1>3. IsFiniteSet(Due)
  BY <1>2, FS_Subset DEF Due
<1> QED BY <1>3, FS_CardinalityType

(* What request r is about to draw is part of what is due, and so there is  *)
(* room for it; what is due without it is less by as much.                  *)
LEMMA DrawerHasRoom ==
  ASSUME SerialInv, LedgerInv, RoomInv, NEW r \in Requests, SerialStep(r), pc[r] \in Drawing
  PROVE  LET mine == {r} \X ((rate - share[r] + 1)..rate)
         IN  /\ share[r] <= accumulated - attributed
             /\ attributed + share[r] + Cardinality(Due \ mine) <= accumulated
<1> DEFINE mine == {r} \X ((rate - share[r] + 1)..rate)
<1>0. IInv /\ TypeOK /\ r \in Actors
  BY DEF SerialInv, IInv, Actors
<1>1. /\ rate \in Nat /\ share[r] \in Nat /\ seen[r] \in Nat /\ owed[r] \in Nat
      /\ attributed \in Nat /\ accumulated \in Nat
  BY <1>0 DEF TypeOK
<1>2. Charged(r) /\ Counted(r) /\ Pending(r) = share[r]
  BY DEF Charged, Counted, Begun, Pending, Drawing, Flushing
<1>3. seen[r] = rate /\ joined[r] \in Nat /\ owed[r] + share[r] = seen[r] - joined[r]
  BY <1>2 DEF LedgerInv
<1>4. share[r] <= rate
  BY <1>1, <1>3
<1>5. mine \subseteq Due
  BY <1>1, <1>2, <1>3, <1>4 DEF Due
<1>6. Cardinality(mine) = share[r] /\ IsFiniteSet(mine)
  <2>1. /\ IsFiniteSet((rate - share[r] + 1)..rate)
        /\ Cardinality((rate - share[r] + 1)..rate) = share[r]
    <3> DEFINE low == rate - share[r] + 1
    <3>1. low \in Int /\ rate \in Int /\ (low > rate => share[r] = 0) /\ rate - low + 1 = share[r]
      BY <1>1
    <3> HIDE DEF low
    <3>2. IsFiniteSet(low..rate) /\ Cardinality(low..rate) = share[r]
      BY <3>1, FS_Interval
    <3> QED BY <3>2 DEF low
  <2>2. IsFiniteSet({r}) /\ Cardinality({r}) = 1
    BY FS_Singleton
  <2>3. IsFiniteSet(mine) /\ Cardinality(mine) = 1 * share[r]
    BY <2>1, <2>2, FS_Product
  <2> QED BY <1>1, <2>3
<1>7. IsFiniteSet(Due) /\ Cardinality(Due) \in Nat
  BY <1>0, DueFinite
<1>8. Cardinality(Due \ mine) = Cardinality(Due) - share[r] /\ Cardinality(Due \ mine) \in Nat
  <2>1. Due \cap mine = mine
    BY <1>5
  <2> HIDE DEF mine
  <2>2. IsFiniteSet(Due \ mine) /\ Cardinality(Due \ mine) = Cardinality(Due) - Cardinality(Due \cap mine)
    BY <1>7, FS_Difference
  <2> QED BY <1>6, <2>1, <2>2, FS_CardinalityType
<1>9. \A a \in Actors : pc[a] # "whole"
  BY <1>0 DEF SerialStep, AtRest, Drawing
<1>10. attributed + Cardinality(Due) <= accumulated
  BY <1>1, <1>9 DEF RoomInv
<1> HIDE DEF mine
<1>11. attributed + share[r] + Cardinality(Due \ mine) <= accumulated
  BY <1>1, <1>7, <1>8, <1>10
<1>12. share[r] <= accumulated - attributed
  BY <1>1, <1>8, <1>11
<1> QED BY <1>11, <1>12 DEF mine

(* What a step of a request leaves of its bill, and of what it has to draw. *)
LEMMA RequestMoves ==
  ASSUME SerialInv, LedgerInv, RoomInv, IInv', NEW r \in Requests, SerialStep(r), RequestStep(r)
  PROVE  /\ UNCHANGED <<clock, gate, rate, accumulated, alone>>
         /\ pc[r] \notin Flushing /\ pc'[r] \notin Banking
         /\ Counted(r) => Counted(r)'
         /\ Counted(r) => owed'[r] + Unbilled(r)' = owed[r] + Unbilled(r)
         /\ Counted(r)' => owed'[r] + Pending(r)' = seen'[r] - joined'[r]
         /\ ~Counted(r)' => owed'[r] = 0
         /\ pc'[r] \in Drawing => seen'[r] = rate
         /\ pc'[r] = "exchange" => span'[r] = share'[r]
         /\ Charged(r)' => \/ Charged(r) /\ seen'[r] - Pending(r)' = seen[r] - Pending(r)
                           \/ seen'[r] - Pending(r)' = rate
         /\ \/ attributed' = attributed
            \/ /\ pc[r] \in Drawing /\ attributed' = attributed + share[r]
               /\ Charged(r)' => seen'[r] - Pending(r)' = rate
         /\ pc[r] \notin {"join", "part"} => (Member(r)' <=> Member(r))
<1>0. IInv /\ TypeOK /\ TypeOK' /\ r \in Actors
  BY DEF SerialInv, IInv, Actors
<1>1. UNCHANGED <<clock, gate, rate, accumulated, alone>>
  BY DEF RequestStep, Admit, Join, See, Draw, Claim, Exchange, Finish, Part,
         StartFlush, meterVars, SerialStep
<1>2. /\ rate \in Nat /\ share[r] \in Nat /\ seen[r] \in Nat /\ owed[r] \in Nat
      /\ attributed \in Nat /\ accumulated \in Nat /\ joined[r] \in Nat
  BY <1>0 DEF TypeOK, LedgerInv
<1>3. joined'[r] = IF pc[r] = "see" THEN rate ELSE joined[r]
  BY DEF SerialStep
<1>4. /\ Counted(r) => owed[r] + Pending(r) = seen[r] - joined[r]
      /\ ~Counted(r) => owed[r] = 0
      /\ pc[r] \in Drawing => seen[r] = rate
      /\ pc[r] = "exchange" => span[r] = share[r]
  BY DEF LedgerInv
<1>5. RequestPlaces(r)
  BY <1>0 DEF IInv
<1>a. CASE Admit(r) \/ Finish(r)
  <2>1. /\ pc'[r] = "flush" /\ UNCHANGED <<seen, owed, share, attributed>>
        /\ \/ pc[r] = "out" /\ next'[r] = "join"
           \/ pc[r] = "live" /\ next'[r] = "part"
    BY <1>0, <1>a DEF Admit, Finish, StartFlush, Goto, meterVars, TypeOK
  <2> QED BY <1>1, <1>2, <1>3, <1>4, <2>1
          DEF Counted, Charged, Begun, Pending, Unbilled, Member, Flushing, Drawing, Banking
<1>b. CASE Join(r)
  <2>1. pc[r] = "join" /\ pc'[r] = "see" /\ UNCHANGED <<seen, owed, share, attributed>>
    BY <1>0, <1>b DEF Join, Goto, TypeOK, localVars
  <2> QED BY <1>1, <1>2, <1>3, <1>4, <2>1
          DEF Counted, Charged, Begun, Pending, Unbilled, Member, Flushing, Drawing, Banking
<1>c. CASE See(r)
  <2>1. /\ pc[r] = "see" /\ pc'[r] = "live" /\ seen'[r] = rate
        /\ UNCHANGED <<owed, share, attributed>>
    BY <1>0, <1>c DEF See, Goto, TypeOK, localVars, meterVars
  <2>2. /\ ~Counted(r) /\ Counted(r)' /\ Charged(r)' /\ Pending(r)' = 0
        /\ Member(r) /\ Member(r)' /\ pc'[r] \notin Banking \cup Drawing /\ pc[r] \notin Flushing
    BY <2>1 DEF Counted, Charged, Begun, Pending, Member, Flushing, Drawing, Banking
  <2>3. pc'[r] # "exchange"
    BY <2>1
  <2> QED BY <1>1, <1>2, <1>3, <1>4, <2>1, <2>2, <2>3
<1>d. CASE Part(r)
  <2>1. pc[r] = "part" /\ pc'[r] = "last" /\ UNCHANGED <<seen, owed, share, attributed>>
    BY <1>0, <1>d DEF Part, Goto, localVars, TypeOK
  <2> QED BY <1>1, <1>2, <1>3, <1>4, <2>1
          DEF Counted, Charged, Begun, Pending, Unbilled, Member, Flushing, Drawing, Banking
<1>e. CASE Draw(r)
  <2>1. /\ pc[r] \in {"live", "last"} /\ UNCHANGED <<owed, attributed>>
        /\ seen'[r] = rate /\ share'[r] = rate - seen[r]
        /\ \/ rate - seen[r] = 0 /\ pc'[r] = "over" /\ pc[r] = "last"
           \/ pc'[r] = "claim" /\ next'[r] = (IF pc[r] = "live" THEN "live" ELSE "over")
    BY <1>0, <1>e DEF Draw, Goto, TypeOK, meterVars
  <2>2. /\ Counted(r) /\ Counted(r)' /\ Charged(r) /\ Pending(r) = 0
        /\ Member(r)' <=> Member(r)
        /\ pc'[r] \notin Banking /\ pc[r] \notin Flushing /\ pc'[r] # "exchange"
        /\ Unbilled(r) = rate - seen[r]
    BY <1>2, <2>1
       DEF Counted, Charged, Begun, Pending, Unbilled, Member, Flushing, Drawing, Banking
  <2>3. Pending(r)' = rate - seen[r] /\ Unbilled(r)' = rate - seen[r]
    BY <1>1, <1>2, <2>1 DEF Pending, Unbilled, Drawing
  <2> QED BY <1>1, <1>2, <1>3, <1>4, <2>1, <2>2, <2>3
<1>f. CASE Claim(r)
  <2>1. share[r] <= accumulated - attributed
    BY <1>f, DrawerHasRoom DEF Claim, Drawing
  <2>2. Min({share[r], SatSub(accumulated, attributed)}) = share[r]
    BY <1>2, <2>1 DEF SatSub, Min
  <2>3. /\ pc[r] = "claim" /\ UNCHANGED <<seen, owed, attributed>>
        /\ next[r] \in {"live", "over"}
        /\ \/ pc'[r] = next[r] /\ share[r] = 0 /\ share'[r] = 0
           \/ /\ pc'[r] = "exchange" /\ next'[r] = next[r] /\ share'[r] = share[r]
              /\ span'[r] = share[r]
    BY <1>0, <1>5, <1>f, <2>2 DEF Claim, Return, Goto, TypeOK, RequestPlaces, Drawing, meterVars
  <2> QED BY <1>1, <1>2, <1>3, <1>4, <2>3
          DEF Counted, Charged, Begun, Pending, Unbilled, Member, Flushing, Drawing, Banking
<1>g. CASE Exchange(r)
  <2>1. /\ pc[r] = "exchange" /\ seen' = seen
        /\ next[r] \in {"live", "over"}
        /\ \/ /\ pc'[r] = next[r] /\ share'[r] = 0 /\ owed'[r] = owed[r] + span[r]
              /\ attributed' = attributed + span[r]
           \/ /\ pc'[r] = "claim" /\ next'[r] = next[r] /\ share'[r] = share[r]
              /\ owed'[r] = owed[r] /\ attributed' = attributed
    BY <1>0, <1>5, <1>g DEF Exchange, Return, Goto, TypeOK, RequestPlaces, Drawing
  <2>2. /\ Counted(r) /\ Counted(r)' /\ Charged(r) /\ pc[r] \in Drawing
        /\ Member(r)' <=> Member(r)
        /\ pc'[r] \notin Banking /\ pc[r] \notin Flushing /\ pc'[r] # "exchange"
    BY <2>1 DEF Counted, Charged, Begun, Member, Flushing, Drawing, Banking
  <2>3. /\ seen[r] = rate /\ span[r] = share[r] /\ joined'[r] = joined[r]
        /\ Pending(r) = share[r] /\ Unbilled(r) = share[r]
    BY <1>2, <1>3, <1>4, <2>1, <2>2 DEF Pending, Unbilled
  <2>4. owed'[r] + Pending(r)' = owed[r] + share[r] /\ Unbilled(r)' = Pending(r)'
    BY <1>1, <1>2, <2>1, <2>3 DEF Pending, Unbilled, Drawing
  <2>5. Pending(r)' = share[r] \/ (attributed' = attributed + share[r] /\ Pending(r)' = 0)
    BY <2>1, <2>3 DEF Pending, Drawing
  <2>6. attributed' = attributed \/ (attributed' = attributed + share[r] /\ Pending(r)' = 0)
    BY <2>1, <2>3 DEF Pending, Drawing
  <2> QED BY <1>1, <1>2, <1>4, <2>1, <2>2, <2>3, <2>4, <2>5, <2>6
<1> QED BY <1>a, <1>b, <1>c, <1>d, <1>e, <1>f, <1>g DEF RequestStep

(* The steps of thread a keep the ledger of every request.                  *)
LEMMA LedgerStep ==
  ASSUME SerialInv, LedgerInv, RoomInv, IInv', NEW a \in Actors, SerialStep(a)
  PROVE  LedgerInv'
<1>0. IInv /\ TypeOK
  BY DEF SerialInv, IInv
<1>1. joined' \in [Requests -> Nat]
  BY <1>0 DEF SerialStep, LedgerInv, TypeOK
<1>2. ASSUME NEW r \in Requests
      PROVE  /\ Counted(r)' => owed'[r] + Pending(r)' = seen'[r] - joined'[r]
             /\ ~Counted(r)' => owed'[r] = 0
             /\ pc'[r] \in Drawing => seen'[r] = rate'
             /\ pc'[r] = "exchange" => span'[r] = share'[r]
  <2>0. /\ Counted(r) => owed[r] + Pending(r) = seen[r] - joined[r]
        /\ ~Counted(r) => owed[r] = 0
    BY DEF LedgerInv
  <2>1. CASE r # a
    <3>1. /\ pc'[r] = pc[r] /\ pc[r] \in {"out", "live", "over"}
          /\ seen'[r] = seen[r] /\ owed'[r] = owed[r] /\ joined'[r] = joined[r]
          /\ Counted(r)' <=> Counted(r)
          /\ Pending(r) = 0 /\ Pending(r)' = 0
      BY <1>0, <2>1, OthersKeep
    <3> QED BY <2>0, <3>1 DEF Drawing
  <2>2. CASE r = a /\ FlushStep(a)
    <3>1. /\ UNCHANGED <<seen, owed>> /\ joined'[r] = joined[r]
          /\ pc'[r] \in Flushing \cup {"idle", "inner", "join", "part"}
          /\ Counted(r)' <=> Counted(r)
          /\ Pending(r) = 0 /\ Pending(r)' = 0
      BY <2>2, FlushKeeps
    <3> QED BY <2>0, <3>1 DEF Drawing, Flushing
  <2>3. CASE r = a /\ RequestStep(a)
    BY <2>3, RequestMoves
  <2>4. r = a => r \notin Pollers
    BY MeterAssumption
  <2> QED BY <2>1, <2>2, <2>3, <2>4 DEF SerialStep, Step
<1> QED BY <1>1, <1>2 DEF LedgerInv

(* Nothing new is due while the rate stands still.                          *)
LEMMA NothingNewDue ==
  ASSUME IInv, NEW a \in Actors, SerialStep(a), rate' = rate,
         a \in Requests /\ Charged(a)' =>
           \/ Charged(a) /\ seen'[a] - Pending(a)' = seen[a] - Pending(a)
           \/ seen'[a] - Pending(a)' = rate
  PROVE  Due' \subseteq Due
<1> SUFFICES ASSUME NEW r \in Requests, NEW k \in 1..rate, Charged(r)', k > seen'[r] - Pending(r)'
             PROVE  Charged(r) /\ k > seen[r] - Pending(r)
  BY DEF Due
<1>1. rate \in Nat
  BY DEF IInv, TypeOK
<1>2. CASE r # a
  BY <1>2, OthersKeep
<1>3. CASE r = a
  BY <1>1, <1>3
<1> QED BY <1>2, <1>3

(* The thread that moves is the one that may have something in hand.        *)
LEMMA InMoversHand ==
  ASSUME IInv, NEW a \in Actors, SerialStep(a)
  PROVE  /\ (IF \E b \in Actors : pc[b] = "whole" THEN InHand ELSE 0)
               = (IF pc[a] = "whole" THEN span[a] ELSE 0)
         /\ (IF \E b \in Actors : pc'[b] = "whole" THEN InHand' ELSE 0)
               = (IF pc'[a] = "whole" THEN span'[a] ELSE 0)
         /\ Still = AtGate + (IF pc[a] \in {"accrue", "rate"} THEN span[a] ELSE 0)
         /\ Still' = AtGate' + (IF pc'[a] \in {"accrue", "rate"} THEN span'[a] ELSE 0)
<1>1. \A b \in Actors \ {a} : /\ pc[b] \notin {"whole", "accrue", "rate"}
                              /\ pc'[b] \notin {"whole", "accrue", "rate"}
  BY OneMoves DEF AtRest
<1>2. /\ InHand = (IF pc[a] \in Banking THEN span[a] ELSE 0)
      /\ InHand' = (IF pc'[a] \in Banking THEN span'[a] ELSE 0)
  BY OneMoves
<1> QED BY <1>1, <1>2 DEF Still, Banking

(* Shares of a span add up to no more than the span.                        *)
LEMMA SharesWithinSpan ==
  ASSUME NEW x \in Nat, NEW n \in Nat, n # 0
  PROVE  n * (x \div n) <= x /\ (n = 1 => x \div n = x)
OBVIOUS

(* What accruing a share makes due is at most the span it is a share of.    *)
LEMMA AccruedFitsSpan ==
  ASSUME SerialInv, RoomInv, IInv', NEW a \in Actors, SerialStep(a), AccrueRate(a)
  PROVE  Cardinality(Due') <= Cardinality(Due) + span[a]
<1>0. IInv /\ TypeOK /\ IInv'
  BY DEF SerialInv, IInv
<1>1. /\ pc[a] = "rate" /\ rate' = rate + share[a] /\ rate \in Nat /\ share[a] \in Nat
      /\ span[a] \in Nat /\ inflight \in Nat
  BY <1>0 DEF AccrueRate, TypeOK
<1>2. inflight * share[a] <= span[a]
  BY <1>1 DEF RoomInv
<1> DEFINE new == Members \X ((rate + 1)..(rate + share[a]))
<1>3. ASSUME NEW r \in Requests, Charged(r)'
      PROVE  /\ Charged(r) /\ r \in Members
             /\ seen'[r] = seen[r] /\ Pending(r)' = Pending(r)
  <2>1. CASE r # a
    BY <1>0, <1>3, <2>1, OthersKeep DEF Members
  <2>2. CASE r = a
    BY <1>3, <2>2, FlushKeeps DEF FlushStep, Members
  <2> QED BY <2>1, <2>2
<1>4. Due' \subseteq Due \cup new
  <2> SUFFICES ASSUME NEW r \in Requests, NEW k \in 1..rate', Charged(r)',
                      k > seen'[r] - Pending(r)'
               PROVE  <<r, k>> \in Due \cup new
    BY DEF Due
  <2>1. Charged(r) /\ r \in Members /\ k > seen[r] - Pending(r)
    BY <1>3
  <2>2. CASE k <= rate
    BY <1>1, <2>1, <2>2 DEF Due
  <2>3. CASE k > rate
    BY <1>1, <2>1, <2>3
  <2> QED BY <1>1, <2>2, <2>3
<1>5. IsFiniteSet(new) /\ Cardinality(new) = inflight * share[a]
  <2>1. IsFiniteSet(Members) /\ inflight = Cardinality(Members)
    BY <1>0, MeterAssumption, FS_Subset DEF IInv, InflightIsMembers, Members
  <2>2. /\ IsFiniteSet((rate + 1)..(rate + share[a]))
        /\ Cardinality((rate + 1)..(rate + share[a])) = share[a]
    <3> DEFINE low == rate + 1
               high == rate + share[a]
    <3>1. low \in Int /\ high \in Int /\ (low > high => share[a] = 0) /\ high - low + 1 = share[a]
      BY <1>1
    <3> HIDE DEF low, high
    <3>2. IsFiniteSet(low..high) /\ Cardinality(low..high) = share[a]
      BY <3>1, FS_Interval
    <3> QED BY <3>2 DEF low, high
  <2> QED BY <2>1, <2>2, FS_Product
<1> HIDE DEF new
<1>6. IsFiniteSet(Due) /\ Cardinality(Due) \in Nat
  BY <1>0, DueFinite
<1>7. IsFiniteSet(Due \cup new) /\ Cardinality(Due \cup new) <= Cardinality(Due) + Cardinality(new)
  <2>1. Cardinality(Due \cap new) \in Nat
    BY <1>6, FS_Intersection, FS_CardinalityType
  <2>2. /\ IsFiniteSet(Due \cup new)
        /\ Cardinality(Due \cup new) = Cardinality(Due) + Cardinality(new) - Cardinality(Due \cap new)
    BY <1>5, <1>6, FS_Union
  <2>3. Cardinality(new) \in Nat
    BY <1>5, FS_CardinalityType
  <2> QED BY <1>6, <2>1, <2>2, <2>3
<1>8. Cardinality(Due') <= Cardinality(Due \cup new) /\ Cardinality(Due') \in Nat
      /\ Cardinality(Due \cup new) \in Nat /\ Cardinality(new) \in Nat
  <2>1. Due' \in SUBSET (Due \cup new)
    BY <1>4
  <2> QED BY <1>5, <1>7, <2>1, FS_Subset, FS_CardinalityType
<1>9. inflight * share[a] \in Nat
  BY <1>5, <1>8
<1> QED BY <1>1, <1>2, <1>5, <1>6, <1>7, <1>8

(* The steps of thread a leave room for all that is due.                    *)
LEMMA RoomStep ==
  ASSUME SerialInv, LedgerInv, RoomInv, IInv', NEW a \in Actors, SerialStep(a)
  PROVE  RoomInv'
<1>0. IInv /\ TypeOK /\ TypeOK'
  BY DEF SerialInv, IInv
<1>1. /\ Cardinality(Due) \in Nat /\ IsFiniteSet(Due)
      /\ Cardinality(Due') \in Nat /\ IsFiniteSet(Due')
  <2>1. IsFiniteSet(Due') /\ Cardinality(Due') \in Nat
    <3>1. IsFiniteSet(1..rate')
      BY <1>0, FS_Interval DEF TypeOK
    <3>2. IsFiniteSet(Requests \X (1..rate'))
      BY <3>1, FS_Product, MeterAssumption
    <3>3. IsFiniteSet(Due')
      BY <3>2, FS_Subset DEF Due
    <3> QED BY <3>3, FS_CardinalityType
  <2> QED BY <1>0, <2>1, DueFinite
<1>2. /\ attributed \in Nat /\ accumulated \in Nat /\ span[a] \in Nat /\ share[a] \in Nat
      /\ attributed' \in Nat /\ accumulated' \in Nat /\ span'[a] \in Nat
  BY <1>0 DEF TypeOK
<1>3. /\ pc[a] = "whole" => attributed + Cardinality(Due) <= accumulated + span[a]
      /\ pc[a] # "whole" => attributed + Cardinality(Due) <= accumulated
  <2>1. attributed + Cardinality(Due) <= accumulated + (IF pc[a] = "whole" THEN span[a] ELSE 0)
    BY <1>0, InMoversHand DEF RoomInv
  <2> QED BY <1>1, <1>2, <2>1
<1>4. SUFFICES
        /\ pc'[a] = "rate" =>
             inflight' * share'[a] <= span'[a] /\ (inflight' = 1 => share'[a] = span'[a])
        /\ pc'[a] = "whole" => attributed' + Cardinality(Due') <= accumulated' + span'[a]
        /\ pc'[a] # "whole" => attributed' + Cardinality(Due') <= accumulated'
  <2>1. \A b \in Actors \ {a} : pc'[b] # "rate"
    BY <1>0, OneMoves DEF AtRest
  <2>2. attributed' + Cardinality(Due') <=
          accumulated' + (IF pc'[a] = "whole" THEN span'[a] ELSE 0)
    BY <1>1, <1>2, <1>4
  <2> QED BY <1>0, <1>4, <2>1, <2>2, InMoversHand DEF RoomInv
<1>5. Due' \subseteq Due => Cardinality(Due') <= Cardinality(Due)
  BY <1>1, FS_Subset
<1>6. CASE /\ Due' \subseteq Due
           /\ attributed' = attributed /\ accumulated' = accumulated
           /\ pc[a] # "whole" /\ pc'[a] \notin {"rate", "whole"}
  BY <1>1, <1>2, <1>3, <1>5, <1>6
<1>7. CASE FlushStep(a)
  <2>0. rate' = rate => Due' \subseteq Due
    BY <1>0, <1>7, FlushKeeps, NothingNewDue
  <2>1. CASE Flush(a)
    <3>1. /\ rate' = rate /\ attributed' = attributed /\ accumulated' = accumulated
          /\ pc[a] = "flush" /\ pc'[a] \in {next[a], "accrue"}
      BY <1>0, <2>1 DEF Flush, Bank, Return, Goto, TypeOK
    <3>2. next[a] \in {"idle", "inner", "join", "part"}
      BY <1>0, <3>1, Returns DEF Flushing
    <3> QED BY <1>6, <2>0, <3>1, <3>2
  <2>2. CASE AccrueLoad(a)
    <3>1. /\ rate' = rate /\ attributed' = attributed /\ accumulated' = accumulated
          /\ pc[a] = "accrue" /\ inflight' = inflight /\ span' = span
          /\ \/ pc'[a] = "nobody"
             \/ pc'[a] = "rate" /\ inflight # 0 /\ share'[a] = span[a] \div inflight
      BY <1>0, <2>2 DEF AccrueLoad, Goto, TypeOK, meterVars
    <3>2. inflight # 0 => /\ inflight * (span[a] \div inflight) <= span[a]
                          /\ inflight = 1 => span[a] \div inflight = span[a]
      BY <1>0, <1>2, SharesWithinSpan DEF TypeOK
    <3>3. attributed' + Cardinality(Due') <= accumulated' /\ pc'[a] # "whole"
      BY <1>1, <1>2, <1>3, <1>5, <2>0, <3>1
    <3> QED BY <3>1, <3>2, <3>3
  <2>3. CASE AccrueRate(a)
    <3>1. /\ attributed' = attributed /\ accumulated' = accumulated
          /\ pc[a] = "rate" /\ pc'[a] = "whole" /\ span' = span
      BY <1>0, <2>3 DEF AccrueRate, Goto, TypeOK
    <3>2. Cardinality(Due') <= Cardinality(Due) + span[a]
      BY <2>3, AccruedFitsSpan
    <3> QED BY <1>1, <1>2, <1>3, <3>1, <3>2
  <2>4. CASE AccrueBank(a)
    <3>1. /\ rate' = rate /\ attributed' = attributed
          /\ \/ pc[a] = "whole" /\ accumulated' = accumulated + span[a]
             \/ pc[a] = "nobody" /\ accumulated' = accumulated
          /\ pc'[a] = next[a]
      BY <1>0, <2>4 DEF AccrueBank, Return, Goto, TypeOK
    <3>2. next[a] \in {"idle", "inner", "join", "part"}
      BY <1>0, <3>1, Returns DEF Flushing
    <3> QED BY <1>1, <1>2, <1>3, <1>5, <2>0, <3>1, <3>2
  <2> QED BY <1>7, <2>1, <2>2, <2>3, <2>4 DEF FlushStep
<1>8. CASE a \in Pollers /\ PollerStep(a)
  <2>1. /\ UNCHANGED <<rate, attributed, accumulated>>
        /\ pc[a] \in {"idle", "inner"} /\ pc'[a] \in {"flush", "idle", "accrue", next[a]}
    BY <1>0, <1>8 DEF PollerStep, PollReady, Settle, Shut, OpenGate, StartFlush, Bank, Return,
                      Goto, TypeOK, meterVars
  <2>2. next[a] \in {"idle", "inner"}
    BY <1>0, <1>8 DEF IInv, PollerPlaces
  <2>3. a \notin Requests
    BY <1>8, MeterAssumption
  <2> QED BY <1>0, <1>6, <2>1, <2>2, <2>3, NothingNewDue
<1>9. CASE a \in Requests /\ RequestStep(a)
  <2>1. /\ rate' = rate /\ accumulated' = accumulated
        /\ pc[a] # "whole" /\ pc'[a] \notin {"rate", "whole"}
    BY <1>9, RequestMoves DEF Flushing, Banking
  <2>2. Due' \subseteq Due
    BY <1>0, <1>9, <2>1, RequestMoves, NothingNewDue
  <2>3. CASE attributed' = attributed
    BY <1>6, <2>1, <2>2, <2>3
  <2>4. CASE /\ pc[a] \in Drawing /\ attributed' = attributed + share[a]
             /\ Charged(a)' => seen'[a] - Pending(a)' = rate
    <3> DEFINE mine == {a} \X ((rate - share[a] + 1)..rate)
    <3>1. attributed + share[a] + Cardinality(Due \ mine) <= accumulated
      BY <1>9, <2>4, DrawerHasRoom
    <3>2. Due' \subseteq Due \ mine
      <4> SUFFICES ASSUME NEW d \in Due', d \in mine PROVE FALSE
        BY <2>2
      <4>1. d[1] = a /\ Charged(a)' /\ d[2] \in 1..rate /\ d[2] > seen'[a] - Pending(a)'
        BY <2>1 DEF Due
      <4> QED BY <1>0, <2>4, <4>1 DEF TypeOK
    <3> HIDE DEF mine
    <3>3. IsFiniteSet(Due \ mine) /\ Cardinality(Due \ mine) \in Nat
      BY <1>1, FS_Difference, FS_CardinalityType
    <3>4. Cardinality(Due') <= Cardinality(Due \ mine)
      BY <3>2, <3>3, FS_Subset
    <3> QED BY <1>1, <1>2, <2>1, <2>4, <3>1, <3>3, <3>4
  <2> QED BY <1>9, <2>3, <2>4, RequestMoves
<1> QED BY <1>7, <1>8, <1>9 DEF SerialStep, Step
-----------------------------------------------------------------------------
(* The bill of a request that is alone.                                     *)

\* times and bills are no less than zero
NoneNegative ==
  /\ clock \in Nat /\ Open = -1 /\ (gate # Open => gate \in Nat /\ gate <= clock)
  /\ AtGate \in Nat /\ Still \in Nat
  /\ \A r \in Requests : owed[r] \in Nat /\ Unbilled(r) \in Nat

(* The serial meter has no negative times or bills.                         *)
LEMMA TimesAndBills == SerialInv => NoneNegative
<1> SUFFICES ASSUME SerialInv PROVE NoneNegative
  OBVIOUS
<1>0. IInv /\ TypeOK
  BY DEF SerialInv, IInv
<1>1. clock \in Nat /\ Open = -1 /\ (gate # Open => gate \in Nat /\ gate <= clock)
  BY <1>0, MeterAssumption DEF TypeOK, Open, SerialInv, GateIsCurrent
<1>2. AtGate \in Nat
  BY <1>1 DEF AtGate
<1>3. InHand \in Nat
  BY <1>0 DEF InHand, TypeOK
<1>4. ASSUME NEW r \in Requests PROVE owed[r] \in Nat /\ Unbilled(r) \in Nat
  <2>1. /\ owed[r] \in Nat /\ seen[r] \in Nat /\ rate \in Nat /\ share[r] \in Nat
        /\ seen[r] <= rate
    BY <1>0 DEF TypeOK, IInv, Actors
  <2> QED BY <2>1 DEF Unbilled, Pending
<1> QED BY <1>1, <1>2, <1>3, <1>4 DEF Still, NoneNegative

(* Nor after a step.                                                        *)
LEMMA TimesAndBillsNext == SerialInv' => NoneNegative'
BY TimesAndBills, PTL

(* What a step of thread a that does not touch the rate must leave to a     *)
(* request that is alone.                                                   *)
LEMMA LoneFocus ==
  ASSUME SerialInv, SerialInv', LoneInv, NEW a \in Actors, SerialStep(a), rate' = rate,
         \A r \in Requests : Members = {r} =>
           Still = 0 \/ (Members' = {r} /\ Still <= Still'),
         a \in Requests /\ Counted(a) =>
           Counted(a)' /\ owed'[a] + Unbilled(a)' = owed[a] + Unbilled(a)
  PROVE  LoneInv'
<1>0. IInv /\ alone' = alone
  BY DEF SerialInv, SerialStep
<1>1. /\ Still \in Nat /\ Still' \in Nat
      /\ \A r \in Requests : owed'[r] \in Nat /\ Unbilled(r)' \in Nat
                          /\ owed[r] \in Nat /\ Unbilled(r) \in Nat
  <2>1. Still \in Nat /\ \A r \in Requests : owed[r] \in Nat /\ Unbilled(r) \in Nat
    BY TimesAndBills DEF NoneNegative
  <2>2. Still' \in Nat /\ \A r \in Requests : owed'[r] \in Nat /\ Unbilled(r)' \in Nat
    BY TimesAndBillsNext DEF NoneNegative
  <2> QED BY <2>1, <2>2
<1>2. ASSUME NEW r \in Requests
      PROVE  /\ ~Counted(r)' => alone[r] = 0
             /\ Counted(r)' => alone[r] <=
                  owed'[r] + Unbilled(r)' + (IF Members' = {r} THEN Still' ELSE 0)
  <2>1. /\ ~Counted(r) => alone[r] = 0
        /\ Counted(r) => alone[r] <= owed[r] + Unbilled(r) + (IF Members = {r} THEN Still ELSE 0)
        /\ alone[r] \in Nat
    BY DEF LoneInv
  <2>2. Counted(r) => Counted(r)' /\ owed'[r] + Unbilled(r)' = owed[r] + Unbilled(r)
    BY <1>0, OthersKeep
  <2>3. (IF Members = {r} THEN Still ELSE 0) <= (IF Members' = {r} THEN Still' ELSE 0)
    BY <1>1
  <2>4. CASE ~Counted(r)
    BY <1>1, <2>1, <2>4
  <2>5. CASE Counted(r)
    <3> DEFINE x == IF Members = {r} THEN Still ELSE 0
               y == IF Members' = {r} THEN Still' ELSE 0
    <3>1. x \in Nat /\ y \in Nat /\ x <= y
      BY <1>1, <2>3
    <3> HIDE DEF x, y
    <3>2. alone[r] <= owed[r] + Unbilled(r) + x
      BY <2>1, <2>5 DEF x
    <3>3. alone[r] <= owed'[r] + Unbilled(r)' + y
      BY <1>1, <2>1, <2>2, <2>5, <3>1, <3>2
    <3> QED BY <2>2, <2>5, <3>3 DEF y
  <2> QED BY <2>4, <2>5
<1> QED BY <1>0, <1>2 DEF LoneInv

(* A flush keeps what is still to come for whoever is alone, or accrues it  *)
(* undivided.                                                               *)
LEMMA FlushLone ==
  ASSUME SerialInv, SerialInv', RoomInv, LoneInv, NEW a \in Actors, SerialStep(a), FlushStep(a)
  PROVE  LoneInv'
<1>0. /\ IInv /\ TypeOK /\ Step(a) /\ clock' = clock /\ alone' = alone
      /\ NoneNegative /\ NoneNegative'
  BY OthersUntouched, TimesAndBills, TimesAndBillsNext DEF SerialInv, IInv, SerialStep
<1>1. Members' = Members
  BY <1>0, FlushKeeps, OthersStayMembers
<1>2. rate' = rate /\ a \in Requests /\ Counted(a) =>
        Counted(a)' /\ owed'[a] + Unbilled(a)' = owed[a] + Unbilled(a)
  BY FlushKeeps
<1>3. /\ Still = AtGate + (IF pc[a] \in {"accrue", "rate"} THEN span[a] ELSE 0)
      /\ Still' = AtGate' + (IF pc'[a] \in {"accrue", "rate"} THEN span'[a] ELSE 0)
      /\ AtGate \in Nat /\ AtGate' \in Nat /\ Still \in Nat /\ Still' \in Nat
      /\ span[a] \in Nat
  BY <1>0, InMoversHand DEF NoneNegative, TypeOK
<1>4. CASE Flush(a)
  <2>1. /\ pc[a] = "flush" /\ at[a] = clock /\ rate' = rate
        /\ \/ gate = Open
           \/ gate # Open /\ pc'[a] = "accrue" /\ span'[a] = SatSub(clock, gate)
    BY <1>0, <1>4 DEF Flush, Bank, Goto, TypeOK, SerialInv, ReadingIsCurrent
  <2>2. gate = Open => AtGate = 0
    BY DEF AtGate
  <2>3. gate # Open => SatSub(clock, gate) = AtGate
    BY <1>0 DEF AtGate, SatSub, NoneNegative
  <2>4. Still = 0 \/ Still <= Still'
    BY <1>3, <2>1, <2>2, <2>3
  <2> QED BY <1>1, <1>2, <2>1, <2>4, LoneFocus
<1>5. CASE AccrueLoad(a)
  <2>1. /\ rate' = rate /\ gate' = gate /\ span' = span /\ pc[a] = "accrue"
        /\ inflight = 0 \/ pc'[a] = "rate"
    BY <1>0, <1>5 DEF AccrueLoad, Goto, TypeOK, meterVars
  <2>2. AtGate' = AtGate
    BY <1>0, <2>1 DEF AtGate
  <2>3. ASSUME NEW r \in Requests, Members = {r} PROVE inflight = 1
    BY <1>0, <2>3, FS_Singleton DEF IInv, InflightIsMembers, Members
  <2>4. pc'[a] = "rate" => Still <= Still'
    BY <1>3, <2>1, <2>2
  <2> QED BY <1>1, <1>2, <2>1, <2>3, <2>4, LoneFocus
<1>6. CASE AccrueRate(a)
  <2>1. /\ pc[a] = "rate" /\ pc'[a] = "whole" /\ rate' = rate + share[a]
        /\ UNCHANGED <<gate, span, seen, owed>>
    BY <1>0, <1>6 DEF AccrueRate, Goto, TypeOK
  <2>2. AtGate' = AtGate /\ Still = AtGate + span[a] /\ Still' = AtGate
    BY <1>0, <1>3, <2>1 DEF AtGate
  <2>3. share[a] \in Nat /\ rate \in Nat
    BY <1>0 DEF TypeOK
  <2>4. ASSUME NEW r \in Requests
        PROVE  /\ ~Counted(r)' => alone[r] = 0
               /\ Counted(r)' => alone[r] <=
                    owed'[r] + Unbilled(r)' + (IF Members' = {r} THEN Still' ELSE 0)
    <3>1. /\ ~Counted(r) => alone[r] = 0
          /\ Counted(r) => alone[r] <= owed[r] + Unbilled(r) + (IF Members = {r} THEN Still ELSE 0)
          /\ alone[r] \in Nat
      BY DEF LoneInv
    <3>2. /\ Counted(r)' <=> Counted(r)
          /\ r # a => pc'[r] = pc[r] /\ pc[r] \in {"out", "live", "over"}
      BY <1>0, FlushKeeps, OthersKeep
    <3>3. seen[r] \in Nat /\ owed[r] \in Nat /\ Unbilled(r) \in Nat
      BY <1>0 DEF NoneNegative, TypeOK
    <3>4. Unbilled(r)' = Unbilled(r) \/ Unbilled(r)' = Unbilled(r) + share[a]
      <4>1. CASE r = a
        <5>1. Unbilled(r) = rate - seen[r] /\ Unbilled(r)' = rate + share[a] - seen[r]
          BY <2>1, <2>3, <3>3, <4>1 DEF Unbilled, Pending, Drawing
        <5> QED BY <2>3, <3>3, <5>1
      <4>2. CASE r # a
        <5>1. CASE pc[r] = "over"
          BY <2>1, <3>2, <4>2, <5>1 DEF Unbilled, Pending, Drawing
        <5>2. CASE pc[r] # "over"
          <6>1. Unbilled(r) = rate - seen[r] /\ Unbilled(r)' = rate + share[a] - seen[r]
            BY <2>1, <2>3, <3>2, <3>3, <4>2, <5>2 DEF Unbilled, Pending, Drawing
          <6> QED BY <2>3, <3>3, <6>1
        <5> QED BY <5>1, <5>2
      <4> QED BY <4>1, <4>2
    <3>5. CASE Members = {r}
      <4>1. inflight = 1
        BY <1>0, <3>5, FS_Singleton DEF IInv, InflightIsMembers, Members
      <4>2. share[a] = span[a]
        BY <2>1, <4>1 DEF RoomInv
      <4>3. Unbilled(r)' = Unbilled(r) + share[a]
        <5>1. Member(r)
          BY <3>5 DEF Members
        <5>2. r = a \/ pc[r] = "live"
          BY <3>2, <5>1 DEF Member, Flushing, Drawing
        <5>3. /\ Unbilled(r) = rate - seen[r]
              /\ Unbilled(r)' = rate + share[a] - seen[r]
          BY <2>1, <2>3, <3>2, <3>3, <5>2 DEF Unbilled, Pending, Drawing
        <5> QED BY <2>3, <3>3, <5>3
      <4>4. Counted(r) => alone[r] <= owed[r] + Unbilled(r) + (AtGate + span[a])
        BY <2>2, <3>1, <3>5
      <4>5. Counted(r) => alone[r] <= owed[r] + Unbilled(r)' + AtGate
        BY <1>3, <3>1, <3>3, <4>2, <4>3, <4>4
      <4> QED BY <1>1, <2>1, <2>2, <3>1, <3>2, <3>5, <4>5
    <3>6. CASE Members # {r}
      <4>1. Counted(r) => alone[r] <= owed[r] + Unbilled(r)' + 0
        BY <2>3, <3>1, <3>3, <3>4, <3>6
      <4> QED BY <1>1, <2>1, <3>1, <3>2, <3>6, <4>1
    <3> QED BY <3>5, <3>6
  <2> QED BY <1>0, <2>4 DEF LoneInv
<1>7. CASE AccrueBank(a)
  <2>1. /\ rate' = rate /\ gate' = gate /\ pc[a] \in {"whole", "nobody"} /\ pc'[a] = next[a]
    BY <1>0, <1>7 DEF AccrueBank, Return, Goto, TypeOK
  <2>2. next[a] \in {"idle", "inner", "join", "part"}
    BY <1>0, <2>1, Returns DEF Flushing
  <2>3. AtGate' = AtGate
    BY <1>0, <2>1 DEF AtGate
  <2>4. Still <= Still'
    BY <1>3, <2>1, <2>2, <2>3
  <2> QED BY <1>1, <1>2, <2>1, <2>4, LoneFocus
<1> QED BY <1>4, <1>5, <1>6, <1>7 DEF FlushStep

(* Nobody comes or goes while there is something to accrue.                 *)
LEMMA OtherLone ==
  ASSUME SerialInv, SerialInv', LedgerInv, RoomInv, LoneInv, NEW a \in Actors, SerialStep(a),
         \/ a \in Pollers /\ PollerStep(a)
         \/ a \in Requests /\ RequestStep(a)
  PROVE  LoneInv'
<1>0. /\ IInv /\ IInv' /\ TypeOK /\ Step(a) /\ clock' = clock
      /\ NoneNegative /\ NoneNegative'
  BY OthersUntouched, TimesAndBills, TimesAndBillsNext DEF SerialInv, IInv, SerialStep
<1>1. /\ Still = AtGate + (IF pc[a] \in {"accrue", "rate"} THEN span[a] ELSE 0)
      /\ Still' = AtGate' + (IF pc'[a] \in {"accrue", "rate"} THEN span'[a] ELSE 0)
      /\ AtGate \in Nat /\ AtGate' \in Nat
  BY <1>0, InMoversHand DEF NoneNegative
<1>2. CASE a \in Pollers /\ PollerStep(a)
  <2>0. a \notin Requests
    BY <1>2, MeterAssumption
  <2>1. Members' = Members
    BY <1>0, <2>0, OthersStayMembers
  <2>2. rate' = rate /\ pc[a] \in {"idle", "inner"}
    BY <1>2 DEF PollerStep, PollReady, Settle, Shut, OpenGate, StartFlush, Bank, meterVars
  <2>3. CASE PollReady(a) \/ Settle(a)
    <3>1. pc'[a] = "flush" /\ gate' = gate
      BY <1>0, <2>3 DEF PollReady, Settle, StartFlush, Goto, meterVars, TypeOK
    <3>2. AtGate' = AtGate
      BY <1>0, <3>1 DEF AtGate
    <3>3. Still <= Still'
      BY <1>1, <2>2, <3>1, <3>2
    <3> QED BY <2>0, <2>1, <2>2, <3>3, LoneFocus
  <2>4. CASE Shut(a)
    <3>1. pc'[a] = "idle" /\ (gate = Open \/ gate' = gate)
      BY <1>0, <2>4 DEF Shut, Goto, TypeOK
    <3>2. AtGate = 0 \/ AtGate' = AtGate
      BY <1>0, <3>1 DEF AtGate
    <3>3. Still <= Still'
      BY <1>1, <2>2, <3>1, <3>2
    <3> QED BY <2>0, <2>1, <2>2, <3>3, LoneFocus
  <2>5. CASE OpenGate(a)
    <3>1. /\ at[a] = clock
          /\ gate = Open \/ (pc'[a] = "accrue" /\ span'[a] = SatSub(clock, gate))
      BY <1>0, <2>5 DEF OpenGate, Bank, Goto, TypeOK, SerialInv, ReadingIsCurrent
    <3>2. /\ gate = Open => AtGate = 0
          /\ gate # Open => SatSub(clock, gate) = AtGate
      BY <1>0 DEF AtGate, SatSub, NoneNegative
    <3>3. Still = 0 \/ Still <= Still'
      BY <1>1, <2>2, <3>1, <3>2
    <3> QED BY <2>0, <2>1, <2>2, <3>3, LoneFocus
  <2> QED BY <1>2, <2>3, <2>4, <2>5 DEF PollerStep
<1>3. CASE a \in Requests /\ RequestStep(a)
  <2>1. /\ gate' = gate /\ rate' = rate /\ pc[a] \notin Flushing /\ pc'[a] \notin Banking
        /\ Counted(a) => Counted(a)' /\ owed'[a] + Unbilled(a)' = owed[a] + Unbilled(a)
        /\ pc[a] \notin {"join", "part"} => (Member(a)' <=> Member(a))
    BY <1>0, <1>3, RequestMoves
  <2>2. AtGate' = AtGate /\ Still = AtGate /\ Still' = AtGate
    <3>1. AtGate' = AtGate
      BY <1>0, <2>1 DEF AtGate
    <3> QED BY <1>1, <2>1, <3>1 DEF Flushing, Banking
  <2>3. CASE pc[a] \in {"join", "part"}
    <3>1. gate \in {Open, clock}
      BY <2>3 DEF SerialInv, GateIsCurrent
    <3>2. Still = 0
      BY <1>0, <2>2, <3>1 DEF AtGate, NoneNegative
    <3> QED BY <2>1, <3>2, LoneFocus
  <2>4. CASE pc[a] \notin {"join", "part"}
    <3>1. Members' = Members
      BY <1>0, <2>1, <2>4, OthersStayMembers
    <3> QED BY <1>1, <2>1, <2>2, <3>1, LoneFocus
  <2> QED BY <2>3, <2>4
<1> QED BY <1>2, <1>3

(* Time passes between handlers: no bill changes, and whoever is alone at a *)
(* shut gate is due as much more as it was alone.                           *)
LEMMA TickExact ==
  ASSUME SerialInv, SerialInv', LedgerInv, RoomInv, LoneInv, SerialTick
  PROVE  LedgerInv' /\ RoomInv' /\ LoneInv'
<1>0. /\ \A a \in Actors : pc[a] \in {"idle", "out", "live", "over"}
      /\ clock' = clock + 1
      /\ UNCHANGED <<gate, rate, inflight, accumulated, attributed, pc, next, span, share,
                     seen, owed, joined>>
      /\ alone' = [r \in Requests |->
           alone[r] + (IF (IF gate = Open THEN {} ELSE Members) = {r} THEN 1 ELSE 0)]
  BY DEF SerialTick, Settled, AtRest, Tick, meterVars, localVars
<1>1. LedgerInv'
  BY <1>0 DEF LedgerInv, Counted, Begun, Pending
<1>2. RoomInv'
  <2>1. Due' = Due /\ InHand' = InHand
    BY <1>0 DEF Due, Charged, Counted, Begun, Pending, InHand
  <2> QED BY <1>0, <2>1 DEF RoomInv
<1>3. LoneInv'
  <2>1. NoneNegative
    BY TimesAndBills
  <2>2. \A a \in Actors : pc[a] \notin {"accrue", "rate"} /\ pc'[a] \notin {"accrue", "rate"}
    BY <1>0
  <2>3. Still = AtGate + 0 /\ Still' = AtGate' + 0 /\ AtGate \in Nat
    BY <2>1, <2>2 DEF Still, NoneNegative
  <2>4. AtGate' = IF gate = Open THEN AtGate ELSE AtGate + 1
    BY <1>0, <2>1 DEF AtGate, NoneNegative
  <2>5. Still = AtGate /\ Still' = AtGate' /\ AtGate' \in Nat
    BY <2>3, <2>4
  <2>6. Members' = Members
    BY <1>0 DEF Members, Member
  <2>7. ASSUME NEW r \in Requests
        PROVE  /\ alone'[r] \in Nat
               /\ ~Counted(r)' => alone'[r] = 0
               /\ Counted(r)' => alone'[r] <=
                    owed'[r] + Unbilled(r)' + (IF Members' = {r} THEN Still' ELSE 0)
    <3>1. /\ ~Counted(r) => alone[r] = 0
          /\ Counted(r) => alone[r] <= owed[r] + Unbilled(r) + (IF Members = {r} THEN Still ELSE 0)
          /\ alone[r] \in Nat
      BY DEF LoneInv
    <3>2. /\ Counted(r)' <=> Counted(r)
          /\ Unbilled(r)' = Unbilled(r) /\ owed'[r] = owed[r]
      BY <1>0 DEF Counted, Begun, Unbilled, Pending
    <3>3. owed[r] \in Nat /\ Unbilled(r) \in Nat
      BY <2>1 DEF NoneNegative
    <3>4. CASE gate # Open /\ Members = {r}
      <4>1. Member(r)
        BY <3>4 DEF Members
      <4>2. Counted(r)
        BY <1>0, <4>1 DEF Member, Counted, Begun, Flushing, Drawing, Actors
      <4>3. alone'[r] = alone[r] + 1
        BY <1>0, <3>4
      <4>4. alone[r] + 1 <= owed[r] + Unbilled(r) + (AtGate + 1)
        BY <2>3, <2>5, <3>1, <3>3, <3>4, <4>2
      <4> QED BY <2>4, <2>5, <2>6, <3>1, <3>2, <3>4, <4>2, <4>3, <4>4
    <3>5. CASE ~(gate # Open /\ Members = {r})
      <4>1. alone'[r] = alone[r]
        BY <1>0, <3>1, <3>5
      <4>2. Members = {r} => Still' = Still
        BY <2>4, <2>5, <3>5
      <4> QED BY <2>6, <3>1, <3>2, <4>1, <4>2
    <3> QED BY <3>4, <3>5
  <2>8. alone' \in [Requests -> Nat]
    BY <1>0, <2>7
  <2> QED BY <2>7, <2>8 DEF LoneInv
<1> QED BY <1>1, <1>2, <1>3

(* Nobody has come, and nothing is due.                                     *)
LEMMA InitExact == SerialInit => LedgerInv /\ RoomInv /\ LoneInv
<1> SUFFICES ASSUME SerialInit PROVE LedgerInv /\ RoomInv /\ LoneInv
  OBVIOUS
<1>1. /\ joined = [r \in Requests |-> 0] /\ alone = [r \in Requests |-> 0]
      /\ owed = [r \in Requests |-> 0]
      /\ attributed = 0 /\ accumulated = 0 /\ rate = 0
      /\ \A a \in Actors : pc[a] \in {"idle", "out"}
      /\ \A r \in Requests : pc[r] = "out"
  BY MeterAssumption DEF SerialInit, Init, Actors
<1>2. \A r \in Requests : ~Counted(r) /\ ~Charged(r)
  BY <1>1 DEF Counted, Charged, Begun
<1>3. Cardinality(Due) = 0
  <2>1. Due = {}
    BY <1>2 DEF Due
  <2> QED BY <2>1, FS_EmptySet
<1>4. RoomInv
  BY <1>1, <1>3 DEF RoomInv
<1> QED BY <1>1, <1>2, <1>4 DEF LedgerInv, LoneInv, Drawing

(* The three are inductive together, on one thread.                         *)
LEMMA ExactHolds == SerialSpec => [](SerialInv /\ LedgerInv /\ RoomInv /\ LoneInv)
<1>1. SerialInv /\ LedgerInv /\ RoomInv /\ LoneInv /\ [SerialNext]_<<vars, historyVars>>
        => SerialInv' /\ LedgerInv' /\ RoomInv' /\ LoneInv'
  <2> SUFFICES ASSUME SerialInv, LedgerInv, RoomInv, LoneInv,
                      [SerialNext]_<<vars, historyVars>>
               PROVE  SerialInv' /\ LedgerInv' /\ RoomInv' /\ LoneInv'
    OBVIOUS
  <2>1. SerialInv' /\ IInv'
    BY SerialStepIdeal DEF SerialInv
  <2>2. CASE UNCHANGED <<vars, historyVars>>
    <3>1. UNCHANGED <<clock, gate, rate, inflight, accumulated, attributed, pc, next, span,
                     share, seen, owed, joined, alone>>
      BY <2>2 DEF vars, historyVars, meterVars, localVars
    <3>2. /\ Due' = Due /\ InHand' = InHand /\ Members' = Members /\ Still' = Still
      BY <3>1 DEF Due, Charged, Counted, Begun, Pending, InHand, Members, Member, Still, AtGate
    <3>3. LedgerInv' /\ RoomInv'
      BY <3>1, <3>2 DEF LedgerInv, RoomInv, Counted, Begun, Pending
    <3>4. LoneInv'
      BY <3>1, <3>2 DEF LoneInv, Counted, Begun, Unbilled, Pending
    <3> QED BY <2>1, <3>3, <3>4
  <2>3. CASE SerialTick
    BY <2>1, <2>3, TickExact
  <2>4. ASSUME NEW a \in Actors, SerialStep(a)
        PROVE  LedgerInv' /\ RoomInv' /\ LoneInv'
    BY <2>1, <2>4, LedgerStep, RoomStep, FlushLone, OtherLone DEF SerialStep, Step
  <2> QED BY <2>1, <2>2, <2>3, <2>4 DEF SerialNext
<1> QED BY InitSerialInv, InitExact, <1>1, PTL DEF SerialSpec

(* Every draw is granted in full, so a request owes the growth of the rate  *)
(* since it joined, however often and however late it draws.                *)
THEOREM BillsAreGrowth == SerialSpec => []DrawingDoesNotChangeBill
<1>1. SerialInv /\ LedgerInv => DrawingDoesNotChangeBill
  <2> SUFFICES ASSUME SerialInv, LedgerInv, NEW r \in Requests, pc[r] \in {"live", "over"}
               PROVE  owed[r] = seen[r] - joined[r]
    BY DEF DrawingDoesNotChangeBill
  <2>1. Counted(r) /\ Pending(r) = 0
    BY DEF Counted, Begun, Pending, Flushing, Drawing
  <2>2. owed[r] \in Nat
    BY DEF SerialInv, IInv, TypeOK
  <2> QED BY <2>1, <2>2 DEF LedgerInv
<1> QED BY ExactHolds, <1>1, PTL

(* Whoever is finished has been billed for all the time it was alone at a   *)
(* shut gate: nothing of it is lost to flushes, draws or rounding.          *)
THEOREM LoneOwesAll == SerialSpec => []LoneTimeIsOwed
<1>1. SerialInv /\ LoneInv => LoneTimeIsOwed
  <2> SUFFICES ASSUME SerialInv, LoneInv, NEW r \in Requests, pc[r] = "over"
               PROVE  owed[r] >= alone[r]
    BY DEF LoneTimeIsOwed
  <2>1. ~Member(r) /\ Counted(r) /\ Unbilled(r) = 0
    BY DEF Member, Counted, Begun, Unbilled, Pending, Flushing, Drawing
  <2>2. alone[r] <= owed[r] + 0 + 0
    BY <2>1 DEF LoneInv, Members
  <2>3. owed[r] \in Nat /\ alone[r] \in Nat
    BY DEF LoneInv, SerialInv, IInv, TypeOK
  <2> QED BY <2>2, <2>3
<1> QED BY ExactHolds, <1>1, PTL
-----------------------------------------------------------------------------
(* What follows from counting time as the ideal meter does.                 *)

(* The ideal meter counts no instant twice.                                 *)
LEMMA IdealCountsOnce ==
  ImplementsIdeal => [](Measured \in Nat /\ Spare \in Nat /\ Measured + Spare <= clock)
<1> DEFINE Once == clock \in Nat /\ Measured \in Nat /\ Spare \in Nat /\ Measured + Spare <= clock
<1>1. Ideal!Init => Once
  BY DEF Ideal!Init
<1>2. Once /\ [Ideal!Next]_(Ideal!vars) => Once'
  <2> SUFFICES ASSUME Once, [Ideal!Next]_(Ideal!vars) PROVE Once'
    OBVIOUS
  <2>1. CASE Ideal!Elapse
    BY <2>1 DEF Ideal!Elapse
  <2>2. CASE UNCHANGED <<clock, Measured, Spare>>
    BY <2>2
  <2> QED BY <2>1, <2>2
          DEF Ideal!Next, Ideal!vars, Ideal!Turn, Ideal!Come, Ideal!Leave
<1>3. Once => Measured \in Nat /\ Spare \in Nat /\ Measured + Spare <= clock
  OBVIOUS
<1> QED BY <1>1, <1>2, <1>3, PTL DEF ImplementsIdeal, Ideal!Spec

(* On one thread the two totals stay within the time there was, settled or  *)
(* not: each span is banked once, whatever is flushed and whenever.         *)
THEOREM BankedOnce == SerialSpec => []BankedWithinElapsed
<1>1. SerialInv /\ (Measured \in Nat /\ Spare \in Nat /\ Measured + Spare <= clock)
        => BankedWithinElapsed
  <2> SUFFICES ASSUME SerialInv, Measured + Spare <= clock PROVE BankedWithinElapsed
    OBVIOUS
  <2>1. /\ accumulated \in Nat /\ unattributed \in Nat /\ inflight \in Nat
        /\ clock \in Nat /\ InHand \in Nat /\ AtGate \in Nat
    BY TimesAndBills DEF SerialInv, IInv, TypeOK, NoneNegative, InHand
  <2>2. accumulated <= Measured /\ unattributed <= Spare /\ Measured \in Nat /\ Spare \in Nat
    BY <2>1 DEF Measured, Spare
  <2> QED BY <2>1, <2>2 DEF BankedWithinElapsed
<1> QED BY <1>1, ExactHolds, SerialImplementsIdeal, IdealCountsOnce, PTL
=============================================================================
