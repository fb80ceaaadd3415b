------------------------------ MODULE QueueFacts ------------------------------
(***************************************************************************)
(* Facts about a queue without repetitions: what joining it, taking its    *)
(* head and leaving from the middle do to the set of those who wait.       *)
(***************************************************************************)
EXTENDS Integers, SequencesExt, TLAPS

(* Leaving: RemoveAt takes out exactly the element at that place.           *)
LEMMA RemoveAtFacts ==
  ASSUME NEW S, NEW q \in Seq(S), NEW i \in DOMAIN q, IsInjective(q)
  PROVE  /\ RemoveAt(q, i) \in Seq(S)
         /\ ToSet(RemoveAt(q, i)) = ToSet(q) \ {q[i]}
         /\ IsInjective(RemoveAt(q, i))
<1> DEFINE a == SubSeq(q, 1, i - 1)
           b == SubSeq(q, i + 1, Len(q))
           r == RemoveAt(q, i)
           old(j) == IF j < i THEN j ELSE j + 1
<1>0. i \in 1..Len(q) /\ Len(q) \in Nat
  OBVIOUS
<1>1. /\ a \in Seq(S) /\ Len(a) = i - 1
      /\ \A j \in 1..(i - 1) : a[j] = q[j]
  BY <1>0
<1>2. /\ b \in Seq(S) /\ Len(b) = Len(q) - i
      /\ \A j \in 1..(Len(q) - i) : b[j] = q[j + i]
  BY <1>0
<1>3. r = a \o b
  BY DEF RemoveAt
<1> HIDE DEF a, b, r
<1>4. r \in Seq(S) /\ Len(r) = Len(q) - 1 /\ DOMAIN r = 1..Len(r)
  BY <1>0, <1>1, <1>2, <1>3
<1>5. ASSUME NEW j \in 1..Len(r)
      PROVE  old(j) \in 1..Len(q) /\ old(j) # i /\ r[j] = q[old(j)]
  <2>1. CASE j < i
    BY <2>1, <1>0, <1>1, <1>2, <1>3, <1>4
  <2>2. CASE j >= i
    <3> DEFINE k == j - (i - 1)
    <3>1. k \in 1..(Len(q) - i) /\ k + i = j + 1
      BY <2>2, <1>0, <1>4
    <3>2. r[j] = b[k]
      BY <2>2, <1>0, <1>1, <1>2, <1>3, <1>4
    <3>3. b[k] = q[k + i]
      BY <3>1, <1>2
    <3>4. r[j] = q[j + 1]
      BY <3>1, <3>2, <3>3
    <3> QED BY <3>4, <2>2, <1>0, <1>4
  <2> QED BY <2>1, <2>2, <1>0, <1>4
<1>6. ToSet(r) \subseteq ToSet(q) \ {q[i]}
  BY <1>0, <1>4, <1>5 DEF ToSet, IsInjective
<1>7. ToSet(q) \ {q[i]} \subseteq ToSet(r)
  <2> SUFFICES ASSUME NEW x \in ToSet(q), x # q[i]
               PROVE  \E k \in 1..Len(r) : r[k] = x
    BY <1>4 DEF ToSet
  <2>0. PICK j \in 1..Len(q) : x = q[j] /\ j # i  BY DEF ToSet
  <2>1. CASE j < i
    <3>1. j \in 1..Len(r) /\ old(j) = j  BY <2>1, <1>0, <1>4
    <3> QED BY <3>1, <1>5, <2>0
  <2>2. CASE j > i
    <3>1. j - 1 \in 1..Len(r) /\ old(j - 1) = j  BY <2>2, <1>0, <1>4
    <3> QED BY <3>1, <1>5, <2>0
  <2> QED BY <2>0, <2>1, <2>2, <1>0
<1>8. IsInjective(r)
  <2> SUFFICES ASSUME NEW j \in 1..Len(r), NEW k \in 1..Len(r), r[j] = r[k]
               PROVE  j = k
    BY <1>4 DEF IsInjective
  <2>1. old(j) = old(k)  BY <1>5 DEF IsInjective
  <2> QED BY <2>1, <1>0, <1>4
<1> QED BY <1>4, <1>6, <1>7, <1>8 DEF r

(* Being served: the head, and only the head, leaves.                       *)
LEMMA HeadTailFacts ==
  ASSUME NEW S, NEW q \in Seq(S), q # <<>>, IsInjective(q)
  PROVE  /\ Head(q) \in S /\ Head(q) \in ToSet(q)
         /\ Tail(q) \in Seq(S)
         /\ ToSet(Tail(q)) = ToSet(q) \ {Head(q)}
         /\ IsInjective(Tail(q))
<1> DEFINE r == Tail(q)
<1>1. /\ r \in Seq(S) /\ Len(r) = Len(q) - 1 /\ Len(q) \in Nat \ {0}
      /\ \A j \in 1..Len(r) : r[j] = q[j + 1]
      /\ Head(q) = q[1] /\ q[1] \in S /\ DOMAIN r = 1..Len(r)
  OBVIOUS
<1> HIDE DEF r
<1>2. ToSet(r) \subseteq ToSet(q) \ {q[1]} /\ q[1] \in ToSet(q)
  BY <1>1 DEF ToSet, IsInjective
<1>3. ToSet(q) \ {q[1]} \subseteq ToSet(r)
  <2> SUFFICES ASSUME NEW x \in ToSet(q), x # q[1]
               PROVE  x \in ToSet(r)
    OBVIOUS
  <2>1. PICK j \in 1..Len(q) : x = q[j]  BY <1>1 DEF ToSet
  <2>2. j - 1 \in 1..Len(r) /\ r[j - 1] = x  BY <1>1, <2>1
  <2> QED BY <1>1, <2>2 DEF ToSet
<1>4. IsInjective(r)
  <2> SUFFICES ASSUME NEW j \in 1..Len(r), NEW k \in 1..Len(r), r[j] = r[k]
               PROVE  j = k
    BY <1>1 DEF IsInjective
  <2>1. j + 1 = k + 1  BY <1>1 DEF IsInjective
  <2> QED BY <2>1, <1>1
<1> QED BY <1>1, <1>2, <1>3, <1>4 DEF r

(* Joining: the newcomer, and only the newcomer, is added.                  *)
LEMMA AppendFacts ==
  ASSUME NEW S, NEW q \in Seq(S), NEW c \in S, c \notin ToSet(q), IsInjective(q)
  PROVE  /\ Append(q, c) \in Seq(S)
         /\ Append(q, c) # <<>>
         /\ ToSet(Append(q, c)) = ToSet(q) \cup {c}
         /\ IsInjective(Append(q, c))
<1> DEFINE r == Append(q, c)
<1>1. /\ r \in Seq(S) /\ Len(r) = Len(q) + 1 /\ r[Len(r)] = c
      /\ Len(q) \in Nat /\ DOMAIN r = 1..Len(r)
      /\ \A j \in 1..Len(q) : r[j] = q[j]
  OBVIOUS
<1>2. r # <<>>  BY <1>1
<1> HIDE DEF r
<1>3. ToSet(r) \subseteq ToSet(q) \cup {c}  BY <1>1 DEF ToSet
<1>4. c \in ToSet(r)  BY <1>1 DEF ToSet
<1>5. ToSet(q) \subseteq ToSet(r)  BY <1>1 DEF ToSet
<1>6. IsInjective(r)
  <2> SUFFICES ASSUME NEW j \in 1..Len(r), NEW k \in 1..Len(r), r[j] = r[k]
               PROVE  j = k
    BY <1>1 DEF IsInjective
  <2>1. ASSUME NEW x \in 1..Len(q)  PROVE r[x] # c  BY <1>1 DEF ToSet
  <2>2. CASE j = Len(r) \/ k = Len(r)  BY <2>1, <2>2, <1>1
  <2>3. CASE j # Len(r) /\ k # Len(r)  BY <2>3, <1>1 DEF IsInjective
  <2> QED BY <2>2, <2>3
<1> QED BY <1>1, <1>2, <1>3, <1>4, <1>5, <1>6 DEF r
=============================================================================
