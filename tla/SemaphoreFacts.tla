---------------------------- MODULE SemaphoreFacts ----------------------------
(***************************************************************************)
(* What the operators of TokioSemaphore do to the semaphore of any set of  *)
(* clients: lemmas for the proofs about ConcurrencyLimit and CpuGate.      *)
(***************************************************************************)
EXTENDS TokioSemaphore, QueueFacts

(* The semaphore part of the invariant, which the semaphore's own operators *)
(* preserve: a waiter is in the queue once, or has been served, never both. *)
SemInv(Clients) ==
  /\ permits \in Nat /\ queue \in Seq(Clients) /\ granted \subseteq Clients
  /\ IsInjective(queue)
  /\ granted \cap Waiting = {}
  /\ NoIdlePermit

(* add_permits hands the unit to a waiter or makes it available.            *)
LEMMA AddPermitFacts ==
  ASSUME NEW Clients, SemInv(Clients), AddPermit
  PROVE  /\ SemInv(Clients)'
         /\ Waiting' \cup granted' = Waiting \cup granted
         /\ \/ permits' = permits + 1 /\ granted' = granted
            \/ /\ permits' = permits
               /\ \E s \in Waiting : granted' = granted \cup {s}
<1>1. CASE queue = <<>>
  BY <1>1 DEF AddPermit, SemInv, NoIdlePermit, Waiting
<1>2. CASE queue # <<>>
  <2>1. /\ Head(queue) \in Clients /\ Head(queue) \in Waiting
        /\ Tail(queue) \in Seq(Clients) /\ IsInjective(Tail(queue))
        /\ ToSet(Tail(queue)) = Waiting \ {Head(queue)}
    BY <1>2, HeadTailFacts DEF SemInv, Waiting
  <2>2. /\ granted' = granted \cup {Head(queue)} /\ queue' = Tail(queue)
        /\ permits' = permits /\ permits = 0
    BY <1>2 DEF AddPermit, SemInv, NoIdlePermit
  <2>3. Waiting' = Waiting \ {Head(queue)}
    BY <2>1, <2>2 DEF Waiting
  <2>4. SemInv(Clients)'
    BY <2>1, <2>2, <2>3 DEF SemInv, NoIdlePermit
  <2> QED BY <2>1, <2>2, <2>3, <2>4
<1> QED BY <1>1, <1>2

(* poll_acquire, when it is Ready: a handed permit, or an available one.    *)
LEMMA AcquiredFacts ==
  ASSUME NEW Clients, SemInv(Clients), NEW s \in Clients, Acquired(s)
  PROVE  /\ SemInv(Clients)' /\ Waiting' = Waiting /\ s \notin granted'
         /\ \/ s \in granted /\ granted' = granted \ {s} /\ permits' = permits
            \/ /\ s \notin granted /\ granted' = granted /\ permits' = permits - 1
               /\ Waiting = {}
<1>1. CASE s \in granted
  BY <1>1 DEF Acquired, SemInv, NoIdlePermit, Waiting
<1>2. CASE s \notin granted
  <2>1. /\ permits > 0 /\ permits' = permits - 1
        /\ queue' = queue /\ granted' = granted
    BY <1>2 DEF Acquired, ForgetPermit
  <2>2. queue = <<>>
    BY <2>1 DEF SemInv, NoIdlePermit
  <2>3. Waiting = {} /\ Waiting' = {}
    BY <2>1, <2>2 DEF Waiting, ToSet
  <2> QED BY <1>2, <2>1, <2>2, <2>3 DEF SemInv, NoIdlePermit
<1> QED BY <1>1, <1>2

(* poll_acquire, when it is Pending: one more waiter.                       *)
LEMMA EnqueuedFacts ==
  ASSUME NEW Clients, SemInv(Clients), NEW s \in Clients, Enqueued(s)
  PROVE  /\ SemInv(Clients)' /\ Waiting' = Waiting \cup {s}
         /\ s \notin granted \cup Waiting
         /\ granted' = granted /\ permits' = permits
<1>1. s \notin ToSet(queue) /\ s \notin granted
  BY DEF Enqueued, Waiting
<1>2. /\ Append(queue, s) \in Seq(Clients) /\ IsInjective(Append(queue, s))
      /\ ToSet(Append(queue, s)) = ToSet(queue) \cup {s}
  BY <1>1, AppendFacts DEF SemInv
<1>3. /\ queue' = Append(queue, s) /\ granted' = granted
      /\ permits' = permits /\ permits = 0
  BY DEF Enqueued
<1> QED BY <1>1, <1>2, <1>3 DEF SemInv, Waiting, NoIdlePermit

(* An abandoned acquire leaves the queue, or passes on what it was handed.  *)
LEMMA AbandonedFacts ==
  ASSUME NEW Clients, SemInv(Clients), NEW s \in Clients, Abandoned(s)
  PROVE  /\ SemInv(Clients)' /\ Waiting' \cup granted' \subseteq Waiting \cup granted
         /\ \/ granted' = granted /\ permits' = permits
            \/ /\ s \in granted
               /\ granted' = granted \ {s} /\ permits' = permits + 1
            \/ /\ s \in granted /\ permits' = permits
               /\ \E w \in Waiting : granted' = (granted \ {s}) \cup {w}
<1>1. CASE \E i \in DOMAIN queue : queue[i] = s /\ queue' = RemoveAt(queue, i)
           /\ UNCHANGED <<permits, granted>>
  <2> PICK i \in DOMAIN queue : queue[i] = s /\ queue' = RemoveAt(queue, i)
      /\ UNCHANGED <<permits, granted>>
    BY <1>1
  <2>1. /\ queue' \in Seq(Clients) /\ IsInjective(queue')
        /\ Waiting' = Waiting \ {s}
    BY RemoveAtFacts DEF SemInv, Waiting
  <2>2. queue # <<>>
    OBVIOUS
  <2> QED BY <2>1, <2>2 DEF SemInv, NoIdlePermit
<1>2. CASE s \in granted /\ queue = <<>> /\ granted' = granted \ {s}
           /\ permits' = permits + 1 /\ UNCHANGED queue
  BY <1>2 DEF SemInv, NoIdlePermit, Waiting
<1>3. CASE s \in granted /\ queue # <<>>
           /\ granted' = (granted \ {s}) \cup {Head(queue)}
           /\ queue' = Tail(queue) /\ UNCHANGED permits
  <2>1. /\ Head(queue) \in Clients /\ Head(queue) \in Waiting
        /\ Tail(queue) \in Seq(Clients) /\ IsInjective(Tail(queue))
        /\ ToSet(Tail(queue)) = Waiting \ {Head(queue)}
    BY <1>3, HeadTailFacts DEF SemInv, Waiting
  <2>2. Waiting' = Waiting \ {Head(queue)}
    BY <1>3, <2>1 DEF Waiting
  <2> QED BY <1>3, <2>1, <2>2 DEF SemInv, NoIdlePermit
<1> QED BY <1>1, <1>2, <1>3 DEF Abandoned
=============================================================================
