--------------------------- MODULE RequestQueueProofs ---------------------------
(***************************************************************************)
(* Proofs about RequestQueue, for any number of requests, any capacity and *)
(* any limits: a request that was refused never ran, no handler runs on    *)
(* for a client that went away, serve() returns with nothing left, and     *)
(* what leaves the channel leaves it first-in first-out (FifoDispatch).    *)
(* Then: nobody is timed out early, whoever was handed a handler finds it  *)
(* running or ended by itself, and a call without an answer is still held, *)
(* or leaked with the channel.                                             *)
(***************************************************************************)
EXTENDS RequestQueue, QueueFacts, TLAPS

-----------------------------------------------------------------------------
(* Nothing has been sent at first.                                          *)
LEMMA InitIInv == Init => IInv
<1> SUFFICES ASSUME Init PROVE IInv
  OBVIOUS
<1>1. channel = <<>> /\ ToSet(channel) = {} /\ IsInjective(channel)
  BY DEF Init, ToSet, IsInjective
<1>2. TypeOK
  <2>1. channel \in Seq(Requests) /\ clock \in 0..MaxTime /\ timeout \in Limits
    BY <1>1, QueueAssumption DEF Init
  <2>2. deadline \in [Requests -> 0..MaxTime]
    BY QueueAssumption DEF Init
  <2> QED BY <2>1, <2>2 DEF Init, TypeOK
<1>3. \A r \in Requests : Placed(r)
  BY <1>1, QueueAssumption DEF Init, Placed, Pending, InHand, Refusals
<1> QED BY <1>1, <1>2, <1>3 DEF Init, IInv, NoOrphanRuns, DrainedBeforeReturn, Live

(* Whatever waits in the channel is a request.                              *)
LEMMA ChannelHoldsRequests ==
  ASSUME IInv PROVE ToSet(channel) \subseteq Requests /\ None \notin ToSet(channel)
<1>1. channel \in Seq(Requests)
  BY DEF IInv, TypeOK
<1> QED BY <1>1, QueueAssumption DEF ToSet

(* The clock and the limits are natural numbers.                            *)
LEMMA TimesAreNat ==
  ASSUME IInv PROVE clock \in Nat /\ timeout \in Nat /\ clock <= MaxTime /\ MaxTime \in Nat
<1>1. clock \in 0..MaxTime /\ timeout \in Limits
  BY DEF IInv, TypeOK
<1> QED BY <1>1, QueueAssumption

(* A request the step does not touch keeps its place.                       *)
LEMMA Elsewhere ==
  ASSUME NEW q, Placed(q),
         client'[q] = client[q], outcome'[q] = outcome[q],
         answer'[q] = answer[q], task'[q] = task[q],
         (q \in senders') <=> (q \in senders),
         Pending(q)' <=> Pending(q), InHand(q)' <=> InHand(q)
  PROVE  Placed(q)'
BY DEF Placed

(* A step that leaves alone all that places a request keeps its place.      *)
LEMMA SamePlaces ==
  ASSUME IInv, TypeOK',
         UNCHANGED <<senders, client, outcome, channel, answer, task, worker, head>>
  PROVE  IInv'
BY DEF IInv, Placed, Pending, InHand, NoOrphanRuns, DrainedBeforeReturn, Live
-----------------------------------------------------------------------------
(* What the client of r does to nobody but r.                               *)

(* A place in the channel, or the news that there is no worker.             *)
LEMMA PollReadyIInv ==
  ASSUME IInv, NEW r \in Requests, PollReady(r) PROVE IInv'
<1> USE DEF IInv
<1>1. /\ client[r] = "idle" /\ r \in senders
      /\ \/ client' = [client EXCEPT ![r] = "ready"] /\ outcome' = outcome
         \/ /\ client' = [client EXCEPT ![r] = "answered"]
            /\ outcome' = [outcome EXCEPT ![r] = "worker dropped"]
      /\ UNCHANGED <<clock, timeout, senders, deadline, channel, answer, task, worker, head, elapsed>>
  BY DEF PollReady, Resolve, workerVars
<1>2. TypeOK'
  BY <1>1 DEF TypeOK
<1>3. ASSUME NEW q \in Requests PROVE Placed(q)'
  <2>1. (Pending(q)' <=> Pending(q)) /\ (InHand(q)' <=> InHand(q)) /\ Placed(q)
    BY <1>1 DEF Pending, InHand
  <2>2. CASE q # r
    <3>1. client'[q] = client[q] /\ outcome'[q] = outcome[q]
      BY <1>1, <2>2 DEF TypeOK
    <3> QED BY <1>1, <2>1, <3>1, Elsewhere
  <2>3. CASE q = r
    <3>1. \/ client'[q] = "ready" /\ outcome'[q] = outcome[q]
          \/ client'[q] = "answered" /\ outcome'[q] = "worker dropped"
      BY <1>1, <2>3 DEF TypeOK
    <3>2. Placed(q) /\ client[q] = "idle"
      BY <1>1, <2>3
    <3> HIDE DEF IInv
    <3> QED BY <1>1, <2>1, <2>3, <3>1, <3>2 DEF Placed, Refusals
  <2> QED BY <2>2, <2>3
<1>4. NoOrphanRuns' /\ DrainedBeforeReturn'
  BY <1>1 DEF TypeOK, NoOrphanRuns, DrainedBeforeReturn, Live
<1> QED BY <1>1, <1>2, <1>3, <1>4

(* call(): the deadline is stamped.                                         *)
LEMMA StampIInv ==
  ASSUME IInv, NEW r \in Requests, Stamp(r) PROVE IInv'
<1> USE DEF IInv
<1>1. /\ client[r] = "ready" /\ client' = [client EXCEPT ![r] = "stamped"]
      /\ deadline' = [deadline EXCEPT ![r] = clock + timeout]
      /\ clock + timeout <= MaxTime
      /\ UNCHANGED <<clock, timeout, senders, outcome, channel, answer, task, worker, head, elapsed>>
  BY DEF Stamp, workerVars
<1>2. TypeOK'
  <2>0. clock \in Nat /\ timeout \in Nat /\ MaxTime \in Nat
    BY TimesAreNat
  <2>1. clock + timeout \in 0..MaxTime
    <3> HIDE DEF IInv
    <3> QED BY <1>1, <2>0
  <2>2. deadline' \in [Requests -> 0..MaxTime]
    BY <1>1, <2>1 DEF TypeOK
  <2> QED BY <1>1, <2>2 DEF TypeOK
<1>3. ASSUME NEW q \in Requests PROVE Placed(q)'
  BY <1>1 DEF TypeOK, Placed, Pending, InHand, Refusals
<1>4. NoOrphanRuns' /\ DrainedBeforeReturn'
  BY <1>1 DEF TypeOK, NoOrphanRuns, DrainedBeforeReturn, Live
<1> QED BY <1>1, <1>2, <1>3, <1>4

(* call(): the item joins the channel, where it was not before.             *)
LEMMA SendIInv ==
  ASSUME IInv, NEW r \in Requests, Send(r) PROVE IInv'
<1> USE DEF IInv
<1>1. /\ client[r] = "stamped" /\ client' = [client EXCEPT ![r] = "queued"]
      /\ channel' = Append(channel, r)
      /\ UNCHANGED <<clock, timeout, senders, outcome, deadline, answer, task, worker, head, elapsed>>
  BY DEF Send, workerVars
<1>2. r \in senders /\ r \notin ToSet(channel) /\ ~Pending(r)
  BY <1>1 DEF Placed, Pending
<1>3. /\ channel' \in Seq(Requests) /\ IsInjective(channel')
      /\ ToSet(channel') = ToSet(channel) \cup {r}
  <2>1. channel \in Seq(Requests) /\ IsInjective(channel)
    BY DEF TypeOK
  <2> HIDE DEF IInv
  <2> QED BY <1>1, <1>2, <2>1, AppendFacts
<1>4. TypeOK'
  BY <1>1, <1>3 DEF TypeOK
<1>5. ASSUME NEW q \in Requests PROVE Placed(q)'
  <2>1. Placed(q) /\ (InHand(q)' <=> InHand(q))
    BY <1>1 DEF InHand
  <2>2. CASE q # r
    <3>1. client'[q] = client[q]
      BY <1>1, <2>2 DEF TypeOK
    <3>2. Pending(q)' <=> Pending(q)
      BY <1>1, <1>3, <2>2 DEF Pending
    <3> QED BY <1>1, <2>1, <3>1, <3>2, Elsewhere
  <2>3. CASE q = r
    <3>1. client'[q] = "queued"
      BY <1>1, <2>3 DEF TypeOK
    <3>2. Pending(q)'
      BY <1>3, <2>3 DEF Pending
    <3>3. client[q] = "stamped"
      BY <1>1, <2>3
    <3> HIDE DEF IInv
    <3>4. ~InHand(q)' /\ answer'[q] = "empty" /\ task'[q] = "none"
      BY <1>1, <2>1, <3>3 DEF Placed
    <3>5. outcome'[q] = "none"
      BY <1>1, <2>1, <3>3 DEF Placed
    <3> QED BY <3>1, <3>2, <3>4, <3>5 DEF Placed, Refusals
  <2> QED BY <2>2, <2>3
<1>6. head' \notin ToSet(channel')
  BY <1>1, <1>2, <1>3, QueueAssumption DEF TypeOK, Placed, Pending, InHand
<1>7. worker \notin {"drain", "done"}
  BY <1>2
<1>8. NoOrphanRuns' /\ DrainedBeforeReturn'
  BY <1>1, <1>7 DEF TypeOK, NoOrphanRuns, DrainedBeforeReturn, Live
<1> QED BY <1>1, <1>3, <1>4, <1>5, <1>6, <1>7, <1>8

(* The future is polled: it takes the answer, or the handler's result.      *)
LEMMA PolledIInv ==
  ASSUME IInv, NEW r \in Requests, PollQueued(r) \/ PollStarted(r) PROVE IInv'
<1> USE DEF IInv
<1>1. /\ client[r] \in {"queued", "started"}
      /\ \/ client[r] = "queued" /\ answer[r] = "handle"
            /\ client' = [client EXCEPT ![r] = "started"] /\ outcome' = outcome
         \/ /\ client' = [client EXCEPT ![r] = "answered"]
            /\ \E o \in {"response", "panic", "processing timeout"} :
                 outcome' = [outcome EXCEPT ![r] = o]
            /\ client[r] = "started"
         \/ /\ client' = [client EXCEPT ![r] = "answered"]
            /\ client[r] = "queued" /\ answer[r] \in {"timeout", "closed"}
            /\ \E o \in {"timeout", "request dropped"} :
                 outcome' = [outcome EXCEPT ![r] = o]
      /\ UNCHANGED <<clock, timeout, senders, deadline, channel, answer, task, worker, head, elapsed>>
  <2>1. client[r] = "started" => task[r] # "cancelled"
    BY DEF Placed
  <2> QED BY <2>1 DEF PollQueued, PollStarted, Resolve, workerVars
<1>2. TypeOK'
  <2>1. \A o \in {"response", "panic", "processing timeout", "timeout", "request dropped"} :
          [outcome EXCEPT ![r] = o] \in
            [Requests -> {"none", "response", "panic", "timeout", "processing timeout",
                          "request dropped", "worker dropped"}]
    BY DEF TypeOK
  <2>2. outcome' \in
          [Requests -> {"none", "response", "panic", "timeout", "processing timeout",
                        "request dropped", "worker dropped"}]
    BY <1>1, <2>1 DEF TypeOK
  <2>3. client' \in [Requests -> {"idle", "ready", "stamped", "queued", "started",
                                  "answered", "gone"}]
    BY <1>1 DEF TypeOK
  <2> QED BY <1>1, <2>2, <2>3 DEF TypeOK
<1>3. ASSUME NEW q \in Requests PROVE Placed(q)'
  <2>1. (Pending(q)' <=> Pending(q)) /\ (InHand(q)' <=> InHand(q)) /\ Placed(q)
    BY <1>1 DEF Pending, InHand
  <2>2. CASE q # r
    <3>1. client'[q] = client[q] /\ outcome'[q] = outcome[q]
      BY <1>1, <2>2 DEF TypeOK
    <3> QED BY <1>1, <2>1, <3>1, Elsewhere
  <2>3. CASE q = r
    <3>1. \/ /\ client[q] = "queued" /\ answer[q] = "handle"
             /\ client'[q] = "started" /\ outcome'[q] = outcome[q]
          \/ /\ client[q] = "started" /\ client'[q] = "answered"
             /\ outcome'[q] \in {"response", "panic", "processing timeout"}
          \/ /\ client[q] = "queued" /\ answer[q] \in {"timeout", "closed"}
             /\ client'[q] = "answered"
             /\ outcome'[q] \in {"timeout", "request dropped"}
      BY <1>1, <2>3 DEF TypeOK
    <3> HIDE DEF IInv
    <3>2. /\ answer'[q] = answer[q] /\ task'[q] = task[q]
          /\ ~Pending(q)' /\ ~InHand(q)'
      BY <1>1, <2>1, <3>1 DEF Placed
    <3> QED BY <2>1, <3>1, <3>2 DEF Placed, Refusals
  <2> QED BY <2>2, <2>3
<1>4. NoOrphanRuns' /\ DrainedBeforeReturn'
  BY <1>1 DEF TypeOK, NoOrphanRuns, DrainedBeforeReturn, Live
<1> QED BY <1>1, <1>2, <1>3, <1>4

(* The future is dropped, and with it the handle it holds or was sent.      *)
LEMMA DropFutureIInv ==
  ASSUME IInv, NEW r \in Requests, DropFuture(r) PROVE IInv'
<1> USE DEF IInv
<1>1. /\ client[r] \in {"queued", "started", "answered"}
      /\ client' = [client EXCEPT ![r] = "gone"]
      /\ IF answer[r] = "handle" /\ task[r] = "running"
         THEN task' = [task EXCEPT ![r] = "aborting"] ELSE task' = task
      /\ UNCHANGED <<clock, timeout, senders, outcome, deadline, channel, answer, worker, head, elapsed>>
  BY DEF DropFuture, Abort, workerVars, TypeOK
<1>2. TypeOK'
  BY <1>1 DEF TypeOK
<1>3. ASSUME NEW q \in Requests PROVE Placed(q)'
  <2>1. (Pending(q)' <=> Pending(q)) /\ (InHand(q)' <=> InHand(q)) /\ Placed(q)
    BY <1>1 DEF Pending, InHand
  <2>2. CASE q # r
    <3>1. client'[q] = client[q] /\ task'[q] = task[q]
      BY <1>1, <2>2 DEF TypeOK
    <3> QED BY <1>1, <2>1, <3>1, Elsewhere
  <2>3. CASE q = r
    <3>1. /\ client'[q] = "gone"
          /\ \/ answer[q] = "handle" /\ task[q] = "running" /\ task'[q] = "aborting"
             \/ task'[q] = task[q]
      BY <1>1, <2>3 DEF TypeOK
    <3> HIDE DEF IInv
    <3> QED BY <1>1, <2>1, <2>3, <3>1 DEF Placed, Refusals
  <2> QED BY <2>2, <2>3
<1>4. NoOrphanRuns'
  BY <1>1 DEF TypeOK, NoOrphanRuns, Placed, InHand
<1>5. DrainedBeforeReturn'
  BY <1>1 DEF TypeOK, DrainedBeforeReturn, Live
<1> QED BY <1>1, <1>2, <1>3, <1>4, <1>5

(* A service is dropped; the last one takes what the channel still holds.   *)
LEMMA DropSenderIInv ==
  ASSUME IInv, NEW r \in Requests, DropSender(r) PROVE IInv'
<1> USE DEF IInv
<1>1. /\ r \in senders /\ client[r] # "stamped" /\ senders' = senders \ {r}
      /\ client' = [client EXCEPT ![r] = IF @ \in {"idle", "ready"} THEN "gone" ELSE @]
      /\ UNCHANGED <<clock, timeout, outcome, deadline, task, worker, head, elapsed>>
  BY DEF DropSender, workerVars
<1>2. \/ channel' = channel /\ answer' = answer
      \/ /\ worker \in {"done", "dropped"} /\ channel' = <<>>
         /\ answer' = [q \in Requests |->
                         IF q \in ToSet(channel) THEN "closed" ELSE answer[q]]
  BY DEF DropSender
<1>3. /\ channel' \in Seq(Requests) /\ IsInjective(channel')
      /\ ToSet(channel') = ToSet(channel) \/ ToSet(channel') = {}
  <2>1. <<>> \in Seq(Requests) /\ IsInjective(<<>>) /\ ToSet(<<>>) = {}
    BY DEF ToSet, IsInjective
  <2>2. channel \in Seq(Requests) /\ IsInjective(channel)
    BY DEF TypeOK
  <2> HIDE DEF IInv
  <2> QED BY <1>2, <2>1, <2>2
<1>4. TypeOK'
  BY <1>1, <1>2, <1>3 DEF TypeOK
<1>5. ASSUME NEW q \in Requests PROVE Placed(q)'
  <2>1. CASE channel' = channel /\ answer' = answer
    BY <1>1, <2>1 DEF TypeOK, Placed, Pending, InHand, Refusals
  <2>2. CASE /\ worker \in {"done", "dropped"} /\ channel' = <<>>
             /\ answer' = [x \in Requests |->
                             IF x \in ToSet(channel) THEN "closed" ELSE answer[x]]
    <3>1. ToSet(channel') = {}
      BY <2>2 DEF ToSet
    <3> QED BY <1>1, <2>2, <3>1 DEF TypeOK, Placed, Pending, InHand, Refusals
  <2> QED BY <1>2, <2>1, <2>2
<1>6. NoOrphanRuns'
  BY <1>1 DEF TypeOK, NoOrphanRuns, Placed
<1>7. DrainedBeforeReturn'
  BY <1>1, <1>2 DEF TypeOK, DrainedBeforeReturn, Live
<1> QED BY <1>1, <1>2, <1>3, <1>4, <1>5, <1>6, <1>7
-----------------------------------------------------------------------------
(* What serve() does.                                                       *)

(* The oldest item is taken in hand, or serve() begins to drain.            *)
LEMMA RecvIInv ==
  ASSUME IInv, Recv PROVE IInv'
<1> USE DEF IInv
<1>1. worker = "recv" /\ head = None
      /\ UNCHANGED <<clock, timeout, senders, client, outcome, deadline, answer, task, elapsed>>
  BY DEF Recv, clientVars, TypeOK
<1>2. CASE channel # <<>> /\ head' = Head(channel) /\ channel' = Tail(channel)
           /\ worker' = "check"
  <2>1. /\ head' \in Requests /\ head' \in ToSet(channel)
        /\ channel' \in Seq(Requests) /\ IsInjective(channel')
        /\ ToSet(channel') = ToSet(channel) \ {head'}
    BY <1>2, HeadTailFacts DEF TypeOK
  <2>2. TypeOK'
    BY <1>1, <1>2, <2>1 DEF TypeOK
  <2>3. ASSUME NEW q \in Requests PROVE Placed(q)'
    BY <1>1, <1>2, <2>1 DEF TypeOK, Placed, Pending, InHand, Refusals
  <2>4. NoOrphanRuns' /\ DrainedBeforeReturn'
    BY <1>1, <1>2 DEF TypeOK, NoOrphanRuns, DrainedBeforeReturn, Live
  <2> QED BY <1>2, <2>1, <2>2, <2>3, <2>4
<1>3. CASE channel = <<>> /\ senders = {} /\ worker' = "drain" /\ UNCHANGED <<head, channel>>
  <2>1. TypeOK'
    BY <1>1, <1>3 DEF TypeOK
  <2>2. ASSUME NEW q \in Requests PROVE Placed(q)'
    BY <1>1, <1>3 DEF TypeOK, Placed, Pending, InHand, Refusals
  <2>3. NoOrphanRuns' /\ DrainedBeforeReturn'
    BY <1>1, <1>3 DEF TypeOK, NoOrphanRuns, DrainedBeforeReturn, Live
  <2> QED BY <1>1, <1>3, <2>1, <2>2, <2>3
<1> QED BY <1>2, <1>3 DEF Recv

(* A step on the way to the inner service: the item stays in hand.          *)
LEMMA OnTheWayIInv ==
  ASSUME IInv, Checked \/ Wait PROVE IInv'
<1> USE DEF IInv
<1>1. /\ worker \in {"check", "deadline"} /\ worker' \in {"deadline", "select"}
      /\ UNCHANGED <<clock, timeout, senders, client, outcome, deadline, channel, answer,
                     task, head, elapsed>>
  BY DEF Checked, Wait, clientVars
<1>2. TypeOK'
  BY <1>1 DEF TypeOK
<1>3. ASSUME NEW q \in Requests PROVE Placed(q)'
  BY <1>1 DEF TypeOK, Placed, Pending, InHand, Refusals
<1>4. NoOrphanRuns' /\ DrainedBeforeReturn'
  BY <1>1 DEF TypeOK, NoOrphanRuns, DrainedBeforeReturn, Live
<1> QED BY <1>1, <1>2, <1>3, <1>4

(* The item is refused before its handler exists.                           *)
LEMMA RefusedIInv ==
  ASSUME IInv, SkipClosed \/ TimeOut PROVE IInv'
<1> USE DEF IInv
<1>1. /\ worker \in {"check", "deadline", "select"} /\ head \in Requests
      /\ worker' = "recv" /\ head' = None /\ elapsed' = FALSE
      /\ \/ answer' = [answer EXCEPT ![head] = "timeout"]
         \/ answer' = [answer EXCEPT ![head] = "closed"]
      /\ UNCHANGED <<clock, timeout, senders, client, outcome, deadline, channel, task>>
  BY DEF SkipClosed, TimeOut, Dispose, clientVars, TypeOK
<1>2. TypeOK'
  BY <1>1 DEF TypeOK
<1>3. None \notin ToSet(channel)
  BY ChannelHoldsRequests
<1>4. ASSUME NEW q \in Requests PROVE Placed(q)'
  BY <1>1 DEF TypeOK, Placed, Pending, InHand, Refusals
<1>5. NoOrphanRuns'
  BY <1>1 DEF TypeOK, NoOrphanRuns
<1>6. DrainedBeforeReturn'
  BY <1>1 DEF DrainedBeforeReturn
<1> QED BY <1>1, <1>2, <1>3, <1>4, <1>5, <1>6

(* The inner service is ready: the handler is spawned.                      *)
LEMMA StartIInv ==
  ASSUME IInv, Start PROVE IInv'
<1> USE DEF IInv
<1>1. /\ worker = "select" /\ head \in Requests /\ worker' = "send"
      /\ task' = [task EXCEPT ![head] = "running"]
      /\ UNCHANGED <<clock, timeout, senders, client, outcome, deadline, channel, answer,
                     head, elapsed>>
  BY DEF Start, clientVars, TypeOK
<1>2. TypeOK'
  BY <1>1 DEF TypeOK
<1>3. ASSUME NEW q \in Requests PROVE Placed(q)'
  BY <1>1 DEF TypeOK, Placed, Pending, InHand, Refusals
<1>4. NoOrphanRuns'
  BY <1>1 DEF TypeOK, NoOrphanRuns
<1>5. DrainedBeforeReturn'
  BY <1>1 DEF DrainedBeforeReturn
<1> QED BY <1>1, <1>2, <1>3, <1>4, <1>5

(* The handle is sent, or dropped if nobody waits for it.                   *)
LEMMA SendHandleIInv ==
  ASSUME IInv, SendHandle PROVE IInv'
<1> USE DEF IInv
<1>1. /\ worker = "send" /\ head \in Requests
      /\ worker' = "recv" /\ head' = None /\ elapsed' = FALSE
      /\ \/ /\ client[head] = "gone" /\ answer' = [answer EXCEPT ![head] = "closed"]
            /\ task' = [task EXCEPT ![head] = IF @ = "running" THEN "aborting" ELSE @]
         \/ /\ client[head] # "gone" /\ answer' = [answer EXCEPT ![head] = "handle"]
            /\ task' = task
      /\ UNCHANGED <<clock, timeout, senders, client, outcome, deadline, channel>>
  BY DEF SendHandle, Dispose, Abort, clientVars, TypeOK
<1>2. TypeOK'
  BY <1>1 DEF TypeOK
<1>3. None \notin ToSet(channel)
  BY ChannelHoldsRequests
<1>4. ASSUME NEW q \in Requests PROVE Placed(q)'
  <2>1. Placed(q) /\ (Pending(q)' <=> Pending(q)) /\ ~InHand(q)'
    BY <1>1, <1>3 DEF Pending, InHand
  <2>2. CASE q # head
    <3>1. answer'[q] = answer[q] /\ task'[q] = task[q] /\ ~InHand(q)
      BY <1>1, <2>2 DEF TypeOK, InHand
    <3> QED BY <1>1, <2>1, <3>1, Elsewhere
  <2>3. CASE q = head
    <3>1. \/ /\ client[q] = "gone" /\ answer'[q] = "closed"
             /\ task'[q] = IF task[q] = "running" THEN "aborting" ELSE task[q]
          \/ client[q] # "gone" /\ answer'[q] = "handle" /\ task'[q] = task[q]
      BY <1>1, <2>3 DEF TypeOK
    <3>2. InHand(q) /\ ~Pending(q)
      BY <1>1, <2>3 DEF InHand, Pending
    <3> HIDE DEF IInv
    <3>3. client'[q] = client[q] /\ outcome'[q] = outcome[q]
      BY <1>1
    <3> QED BY <2>1, <3>1, <3>2, <3>3 DEF Placed, Refusals
  <2> QED BY <2>2, <2>3
<1>5. NoOrphanRuns'
  BY <1>1 DEF TypeOK, NoOrphanRuns
<1>6. DrainedBeforeReturn'
  BY <1>1 DEF DrainedBeforeReturn
<1> QED BY <1>1, <1>2, <1>3, <1>4, <1>5, <1>6

(* serve() returns: nothing runs, and nothing is pending any more.          *)
LEMMA ServeReturnsIInv ==
  ASSUME IInv, ServeReturns PROVE IInv'
<1> USE DEF IInv
<1>1. /\ worker = "drain" /\ worker' = "done" /\ \A r \in Requests : ~Live(r)
      /\ UNCHANGED <<clock, timeout, senders, client, outcome, deadline, channel, answer,
                     task, head, elapsed>>
  BY DEF ServeReturns, clientVars
<1>2. TypeOK'
  BY <1>1 DEF TypeOK
<1>3. ASSUME NEW q \in Requests PROVE Placed(q)'
  BY <1>1 DEF TypeOK, Placed, Pending, InHand, Refusals
<1>4. NoOrphanRuns'
  BY <1>1 DEF TypeOK, NoOrphanRuns
<1>5. ToSet(channel) = {}
  BY <1>1 DEF ToSet
<1>6. DrainedBeforeReturn'
  BY <1>1, <1>5 DEF TypeOK, DrainedBeforeReturn, Live, Placed, Pending, InHand
<1> QED BY <1>1, <1>2, <1>3, <1>4, <1>6

(* The worker is dropped: its item and the channel's are answered.          *)
LEMMA DropWorkerIInv ==
  ASSUME IInv, DropWorker PROVE IInv'
<1> USE DEF IInv
<1>1. /\ worker \in {"recv", "select", "drain"}
      /\ worker' = "dropped" /\ head' = None /\ elapsed' = FALSE /\ channel' = <<>>
      /\ answer' = [r \in Requests |->
                      IF r = head \/ r \in ToSet(channel) THEN "closed" ELSE answer[r]]
      /\ UNCHANGED <<clock, timeout, senders, client, outcome, deadline, task>>
  BY DEF DropWorker, clientVars
<1>2. ToSet(channel') = {} /\ IsInjective(channel') /\ channel' \in Seq(Requests)
  BY <1>1 DEF ToSet, IsInjective
<1>3. TypeOK'
  BY <1>1, <1>2 DEF TypeOK
<1>4. ASSUME NEW q \in Requests PROVE Placed(q)'
  <2>1. Placed(q) /\ ~Pending(q)' /\ ~InHand(q)' /\ ~InHand(q)
    BY <1>1, <1>2 DEF Pending, InHand
  <2>2. answer'[q] = IF q = head \/ q \in ToSet(channel) THEN "closed" ELSE answer[q]
    BY <1>1
  <2>3. Pending(q) <=> q = head \/ q \in ToSet(channel)
    BY <1>1, QueueAssumption DEF TypeOK, Pending
  <2> HIDE DEF IInv
  <2>4. answer'[q] = IF Pending(q) THEN "closed" ELSE answer[q]
    BY <2>2, <2>3
  <2>5. UNCHANGED <<senders, client, outcome, task>>
    BY <1>1
  <2> QED BY <2>1, <2>4, <2>5 DEF Placed, Refusals
<1>5. NoOrphanRuns'
  BY <1>1 DEF TypeOK, NoOrphanRuns
<1>6. DrainedBeforeReturn'
  BY <1>1 DEF DrainedBeforeReturn
<1> QED BY <1>1, <1>2, <1>3, <1>4, <1>5, <1>6

(* A handler ends: by itself, by a panic or because it was told to.         *)
LEMMA TaskEndsIInv ==
  ASSUME IInv, NEW r \in Requests, TaskEnds(r) PROVE IInv'
<1> USE DEF IInv
<1>1. /\ Live(r)
      /\ \E end \in {"finished", "panicked", "cancelled"} : task' = [task EXCEPT ![r] = end]
      /\ UNCHANGED <<clock, timeout, senders, client, outcome, deadline, channel, answer,
                     worker, head, elapsed>>
  BY DEF TaskEnds, Live, clientVars, workerVars
<1>2. TypeOK'
  BY <1>1 DEF TypeOK
<1>3. ASSUME NEW q \in Requests PROVE Placed(q)'
  <2>1. Placed(q) /\ (Pending(q)' <=> Pending(q)) /\ (InHand(q)' <=> InHand(q))
    BY <1>1 DEF Pending, InHand
  <2>2. \/ task'[q] = task[q]
        \/ /\ task[q] \in {"running", "aborting"}
           /\ task'[q] \in {"finished", "panicked"} \/ task[q] = "aborting"
           /\ task'[q] \in {"finished", "panicked", "cancelled"}
    BY DEF TaskEnds, Live, TypeOK
  <2> HIDE DEF IInv
  <2>3. UNCHANGED <<senders, client, outcome, answer>>
    BY <1>1
  <2> QED BY <2>1, <2>2, <2>3 DEF Placed, Refusals
<1>4. NoOrphanRuns' /\ DrainedBeforeReturn'
  BY <1>1 DEF TypeOK, NoOrphanRuns, DrainedBeforeReturn, Live
<1> QED BY <1>1, <1>2, <1>3, <1>4
-----------------------------------------------------------------------------
(* Every step keeps the invariant.                                          *)
LEMMA NextIInv == IInv /\ [Next]_vars => IInv'
<1> SUFFICES ASSUME IInv, [Next]_vars PROVE IInv'
  OBVIOUS
<1>1. ASSUME NEW r \in Requests, ClientStep(r) PROVE IInv'
  BY <1>1, PollReadyIInv, StampIInv, SendIInv, PolledIInv, DropFutureIInv,
     DropSenderIInv DEF ClientStep
<1>2. ASSUME NEW r \in Requests, TaskEnds(r) PROVE IInv'
  BY <1>2, TaskEndsIInv
<1>3. CASE Serve
  BY <1>3, RecvIInv, OnTheWayIInv, RefusedIInv, StartIInv, SendHandleIInv,
     ServeReturnsIInv DEF Serve
<1>4. CASE DropWorker
  BY <1>4, DropWorkerIInv
<1>5. CASE Elapse \/ Tick \/ SetTimeout \/ UNCHANGED vars
  <2>1. /\ UNCHANGED <<senders, client, outcome, deadline, channel, answer, task, worker, head>>
        /\ clock' = clock \/ (clock < MaxTime /\ clock' = clock + 1)
        /\ timeout' = timeout \/ timeout' \in Limits
        /\ elapsed' = elapsed \/ elapsed' = TRUE
    BY <1>5 DEF Elapse, Tick, SetTimeout, vars, clientVars, workerVars
  <2>2. TypeOK'
    <3>1. clock' \in 0..MaxTime
      BY <2>1, TimesAreNat
    <3> QED BY <2>1, <3>1 DEF IInv, TypeOK
  <2> QED BY <2>1, <2>2, SamePlaces
<1> QED BY <1>1, <1>2, <1>3, <1>4, <1>5 DEF Next

(* IInv is an invariant of RequestQueue.                                    *)
THEOREM IInvHolds == Spec => []IInv
BY InitIInv, NextIInv, PTL DEF Spec

(* The queue's state keeps its types; the worker has an item in hand        *)
(* exactly where admit() has one.                                           *)
THEOREM TypeCorrect == Spec => []TypeOK
<1>1. IInv => TypeOK  BY DEF IInv
<1> QED BY <1>1, IInvHolds, PTL

(* Whatever deadlines, drops and answers race with, a client that is told   *)
(* its request was refused may retry: the handler never ran, never will.    *)
THEOREM RefusedMayRetry == Spec => []RefusedNeverRan
<1>1. IInv => RefusedNeverRan
  BY DEF IInv, Placed, Pending, RefusedNeverRan, Refusals
<1> QED BY <1>1, IInvHolds, PTL

(* No handler runs on for a client that went away.                          *)
THEOREM NoOrphans == Spec => []NoOrphanRuns
<1>1. IInv => NoOrphanRuns  BY DEF IInv
<1> QED BY <1>1, IInvHolds, PTL

(* serve() returns only with every handler over and every call answered.    *)
THEOREM ReturnsDrained == Spec => []DrainedBeforeReturn
<1>1. IInv => DrainedBeforeReturn  BY DEF IInv
<1> QED BY <1>1, IInvHolds, PTL
-----------------------------------------------------------------------------
(* Deadlines.                                                               *)

(* The sleep has fired and a timeout is answered only past the deadline the *)
(* call was stamped with, whatever the limit is by then.                    *)
TimesInv ==
  /\ elapsed => worker = "select" /\ deadline[head] <= clock
  /\ \A r \in Requests : "timeout" \in {answer[r], outcome[r]} => deadline[r] <= clock

(* No step answers early, or moves a deadline that was answered.            *)
LEMMA TimesStep ==
  ASSUME IInv, TimesInv, [Next]_vars
  PROVE  TimesInv'
<1>1. clock \in Nat /\ MaxTime \in Nat /\ deadline \in [Requests -> 0..MaxTime]
  BY TimesAreNat DEF IInv, TypeOK
<1>2. \A r \in Requests : deadline[r] \in Int
  BY <1>1
<1>3. ASSUME UNCHANGED <<clock, deadline>>,
             elapsed' => elapsed /\ UNCHANGED <<worker, head>>,
             \A r \in Requests : /\ answer'[r] = "timeout" => answer[r] = "timeout"
                                 /\ outcome'[r] = "timeout"
                                      => "timeout" \in {answer[r], outcome[r]}
      PROVE  TimesInv'
  BY <1>3 DEF TimesInv
<1>4. ASSUME NEW r \in Requests, Stamp(r) PROVE TimesInv'
  <2>1. /\ client[r] = "ready" /\ UNCHANGED <<clock, outcome, answer, worker, head, elapsed>>
        /\ \A q \in Requests : q # r => deadline'[q] = deadline[q]
    BY <1>1, <1>4 DEF Stamp, workerVars
  <2>2. answer[r] = "empty" /\ outcome[r] = "none" /\ ~Pending(r)
    BY <2>1 DEF IInv, Placed
  <2>3. elapsed => head \in Requests \ {r}
    BY <2>2 DEF TimesInv, Pending, IInv, TypeOK
  <2> QED BY <2>1, <2>2, <2>3 DEF TimesInv
<1>5. ASSUME NEW r \in Requests, ClientStep(r), ~Stamp(r) PROVE TimesInv'
  <2>1. UNCHANGED <<clock, deadline, worker, head, elapsed>>
    BY <1>5 DEF ClientStep, PollReady, Send, PollQueued, PollStarted, DropFuture,
                DropSender, workerVars
  <2>2. \/ outcome' = outcome
        \/ /\ \E o \in {"response", "panic", "processing timeout", "request dropped",
                        "worker dropped"} : outcome' = [outcome EXCEPT ![r] = o]
        \/ answer[r] = "timeout" /\ outcome' = [outcome EXCEPT ![r] = "timeout"]
    BY <1>5 DEF ClientStep, PollReady, Send, PollQueued, PollStarted, DropFuture,
                DropSender, Resolve
  <2>3. \/ answer' = answer
        \/ answer' = [q \in Requests |-> IF q \in ToSet(channel) THEN "closed" ELSE answer[q]]
    BY <1>5 DEF ClientStep, PollReady, Send, PollQueued, PollStarted, DropFuture, DropSender
  <2>4. \A q \in Requests : outcome'[q] = "timeout" => "timeout" \in {answer[q], outcome[q]}
    BY <2>2 DEF IInv, TypeOK
  <2>5. \A q \in Requests : answer'[q] = "timeout" => answer[q] = "timeout"
    BY <2>3
  <2> QED BY <1>3, <2>1, <2>4, <2>5
<1>6. ASSUME TimeOut PROVE TimesInv'
  <2>1. /\ head \in Requests /\ deadline[head] <= clock /\ ~elapsed'
        /\ answer' = [answer EXCEPT ![head] = "timeout"]
        /\ UNCHANGED <<clock, deadline, outcome>>
    BY <1>1, <1>6 DEF TimeOut, Dispose, clientVars, TimesInv, IInv, TypeOK
  <2> QED BY <2>1 DEF TimesInv, IInv, TypeOK
<1>7. ASSUME Elapse PROVE TimesInv'
  <2>1. /\ worker = "select" /\ deadline[head] <= clock
        /\ UNCHANGED <<clock, deadline, outcome, answer, worker, head>>
    <3>1. head \in Requests
      BY <1>7 DEF Elapse, IInv, TypeOK
    <3> QED BY <1>1, <1>2, <1>7, <3>1 DEF Elapse, clientVars
  <2> QED BY <2>1 DEF TimesInv
<1>8. ASSUME Tick PROVE TimesInv'
  <2>1. /\ clock' = clock + 1
        /\ UNCHANGED <<deadline, outcome, answer, worker, head, elapsed>>
    BY <1>8 DEF Tick, clientVars, workerVars
  <2>2. \A r \in Requests : deadline[r] <= clock => deadline[r] <= clock + 1
    BY <1>1, <1>2
  <2>3. elapsed => head \in Requests
    BY DEF TimesInv, IInv, TypeOK
  <2> QED BY <2>1, <2>2, <2>3 DEF TimesInv
<1>9. ASSUME Recv \/ Checked \/ Wait \/ Start \/ ServeReturns PROVE TimesInv'
  <2>1. ~elapsed
    BY <1>9 DEF Recv, Checked, Wait, Start, ServeReturns, TimesInv
  <2>2. UNCHANGED <<clock, deadline, outcome, answer, elapsed>>
    BY <1>9 DEF Recv, Checked, Wait, Start, ServeReturns, clientVars
  <2> QED BY <1>3, <2>1, <2>2
<1>10. ASSUME SkipClosed \/ SendHandle \/ DropWorker PROVE TimesInv'
  <2>1. UNCHANGED <<clock, deadline, outcome>> /\ ~elapsed'
    BY <1>10 DEF SkipClosed, SendHandle, DropWorker, Dispose, clientVars
  <2>2. \A r \in Requests : answer'[r] = "timeout" => answer[r] = "timeout"
    BY <1>10 DEF SkipClosed, SendHandle, DropWorker, IInv, TypeOK
  <2> QED BY <1>3, <2>1, <2>2
<1>11. ASSUME NEW r \in Requests, TaskEnds(r) PROVE TimesInv'
  BY <1>3, <1>11 DEF TaskEnds, clientVars, workerVars
<1>12. ASSUME SetTimeout \/ UNCHANGED vars PROVE TimesInv'
  BY <1>3, <1>12 DEF SetTimeout, vars, clientVars, workerVars
<1> QED BY <1>4, <1>5, <1>6, <1>7, <1>8, <1>9, <1>10, <1>11, <1>12 DEF Next, Serve

(* A client that is told its request timed out in the queue has waited for  *)
(* all of the limit in force when it called, however the limit was changed  *)
(* meanwhile and wherever its request was by then.                          *)
THEOREM NobodyTimesOutEarly ==
  Spec => [](\A r \in Requests : outcome[r] = "timeout" => deadline[r] <= clock)
<1>1. Init => TimesInv
  BY DEF Init, TimesInv
<1>2. IInv /\ TimesInv /\ [Next]_vars => TimesInv'
  BY TimesStep
<1>3. TimesInv => \A r \in Requests : outcome[r] = "timeout" => deadline[r] <= clock
  BY DEF TimesInv
<1> QED BY <1>1, <1>2, <1>3, IInvHolds, PTL DEF Spec
-----------------------------------------------------------------------------
(* Whoever was handed a handler finds it.                                   *)

Whole == {"running", "finished", "panicked"}

(* From the moment it is spawned until its client is gone, nobody tells a   *)
(* handler to stop.                                                         *)
Kept(r) ==
  /\ InHand(r) => task[r] \in Whole
  /\ client[r] = "started" => answer[r] = "handle"
  /\ answer[r] = "handle" /\ client[r] # "gone" => task[r] \in Whole

KeptInv == \A r \in Requests : Kept(r)

(* It stays so.                                                             *)
LEMMA KeptStep ==
  ASSUME IInv, KeptInv, [Next]_vars
  PROVE  KeptInv'
<1> SUFFICES ASSUME NEW q \in Requests PROVE Kept(q)'
  BY DEF KeptInv
<1>1. Placed(q) /\ Kept(q)
  BY DEF IInv, KeptInv
<1>2. ASSUME InHand(q)' => InHand(q), answer'[q] = answer[q], task'[q] = task[q],
             client'[q] \in {client[q], "gone"} \/ client'[q] \notin {"started", "gone"}
               \/ answer[q] = "handle",
             client[q] = "gone" => client'[q] = "gone"
      PROVE  Kept(q)'
  BY <1>1, <1>2 DEF Kept
<1>3. ASSUME NEW r \in Requests, ClientStep(r) PROVE Kept(q)'
  <2>1. InHand(q)' <=> InHand(q)
    BY <1>3 DEF ClientStep, PollReady, Stamp, Send, PollQueued, PollStarted, DropFuture,
                DropSender, workerVars, InHand
  <2>2. CASE PollReady(r) \/ Stamp(r) \/ Send(r) \/ PollStarted(r)
    <3>1. /\ UNCHANGED <<answer, task>> /\ client[r] # "gone"
          /\ \E to \in {"ready", "stamped", "queued", "answered"} :
               client' = [client EXCEPT ![r] = to]
      BY <2>2 DEF PollReady, Stamp, Send, PollStarted, Resolve
    <3>2. \/ client'[q] = client[q]
          \/ client[q] # "gone" /\ client'[q] \notin {"started", "gone"}
      BY <3>1 DEF IInv, TypeOK
    <3> QED BY <1>2, <2>1, <3>1, <3>2
  <2>3. CASE PollQueued(r)
    <3>1. /\ UNCHANGED <<answer, task>> /\ client[r] = "queued"
          /\ \/ answer[r] = "handle" /\ client' = [client EXCEPT ![r] = "started"]
             \/ client' = [client EXCEPT ![r] = "answered"]
      BY <2>3 DEF PollQueued, Resolve
    <3>2. \/ client'[q] = client[q]
          \/ client[q] = "queued" /\ client'[q] = "started" /\ answer[q] = "handle"
          \/ client[q] = "queued" /\ client'[q] = "answered"
      BY <3>1 DEF IInv, TypeOK
    <3> QED BY <1>2, <2>1, <3>1, <3>2
  <2>4. CASE DropFuture(r)
    <3>1. /\ answer' = answer /\ client' = [client EXCEPT ![r] = "gone"]
          /\ \/ task' = task
             \/ answer[r] = "handle"
                /\ task' = [task EXCEPT ![r] = IF @ = "running" THEN "aborting" ELSE @]
      BY <2>4 DEF DropFuture, Abort
    <3>2. CASE q # r
      <4>1. client'[q] = client[q] /\ task'[q] = task[q]
        BY <3>1, <3>2 DEF IInv, TypeOK
      <4> QED BY <1>2, <2>1, <3>1, <4>1
    <3>3. CASE q = r
      <4>1. client'[q] = "gone" /\ (InHand(q) => task'[q] = task[q])
        BY <1>1, <3>1, <3>3 DEF IInv, TypeOK, Placed
      <4> QED BY <1>1, <2>1, <4>1 DEF Kept
    <3> QED BY <3>2, <3>3
  <2>5. CASE DropSender(r)
    <3>1. /\ task' = task
          /\ client' = [client EXCEPT ![r] = IF @ \in {"idle", "ready"} THEN "gone" ELSE @]
          /\ \/ answer' = answer
             \/ answer' = [x \in Requests |->
                             IF x \in ToSet(channel) THEN "closed" ELSE answer[x]]
      BY <2>5 DEF DropSender
    <3>2. client'[q] \in {client[q], "gone"} /\ (client[q] = "gone" => client'[q] = "gone")
      BY <3>1 DEF IInv, TypeOK
    <3>3. answer'[q] = answer[q] \/ (Pending(q) /\ answer'[q] = "closed")
      BY <3>1 DEF Pending
    <3>4. CASE answer'[q] = answer[q]
      BY <1>2, <2>1, <3>1, <3>2, <3>4
    <3>5. CASE Pending(q) /\ answer'[q] = "closed"
      BY <1>1, <2>1, <3>1, <3>2, <3>5 DEF Kept, Placed
    <3> QED BY <3>3, <3>4, <3>5
  <2> QED BY <1>3, <2>2, <2>3, <2>4, <2>5 DEF ClientStep
<1>4. ASSUME NEW r \in Requests, TaskEnds(r) PROVE Kept(q)'
  <2>1. /\ UNCHANGED <<client, answer, worker, head>>
        /\ \/ \E end \in {"finished", "panicked"} : task' = [task EXCEPT ![r] = end]
           \/ task[r] = "aborting" /\ task' = [task EXCEPT ![r] = "cancelled"]
    BY <1>4 DEF TaskEnds, clientVars, workerVars
  <2>2. \/ task'[q] = task[q] \/ task'[q] \in {"finished", "panicked"}
        \/ task[q] = "aborting"
    BY <2>1 DEF IInv, TypeOK
  <2>3. InHand(q)' <=> InHand(q)
    BY <2>1 DEF InHand
  <2> QED BY <1>1, <2>1, <2>2, <2>3 DEF Kept, Whole
<1>5. ASSUME Recv \/ Checked \/ Wait \/ ServeReturns \/ Elapse \/ Tick \/ SetTimeout
               \/ UNCHANGED vars
      PROVE  Kept(q)'
  <2>1. UNCHANGED <<client, answer, task>>
    BY <1>5 DEF Recv, Checked, Wait, ServeReturns, Elapse, Tick, SetTimeout,
                vars, clientVars
  <2>2. InHand(q)' => InHand(q)
    BY <1>5 DEF Recv, Checked, Wait, ServeReturns, Elapse, Tick, SetTimeout,
                vars, workerVars, InHand
  <2> QED BY <1>2, <2>1, <2>2
<1>6. ASSUME SkipClosed \/ TimeOut \/ DropWorker PROVE Kept(q)'
  <2>1. /\ UNCHANGED <<client, task>> /\ ~InHand(q)'
        /\ answer'[q] = answer[q] \/ (Pending(q) /\ answer'[q] \in {"closed", "timeout"})
    <3>1. CASE SkipClosed \/ TimeOut
      BY <3>1 DEF SkipClosed, TimeOut, Dispose, clientVars, InHand, Pending, IInv, TypeOK
    <3>2. CASE DropWorker
      <4>1. /\ UNCHANGED <<client, task>> /\ worker' = "dropped"
            /\ answer'[q] = IF q = head \/ q \in ToSet(channel) THEN "closed" ELSE answer[q]
        BY <3>2 DEF DropWorker, clientVars
      <4>2. q = head => Pending(q)
        BY <3>2, QueueAssumption DEF DropWorker, Pending, IInv, TypeOK
      <4> QED BY <4>1, <4>2 DEF InHand, Pending
    <3> QED BY <1>6, <3>1, <3>2
  <2>2. CASE answer'[q] = answer[q]
    BY <1>2, <2>1, <2>2
  <2>3. CASE Pending(q) /\ answer'[q] \in {"closed", "timeout"}
    BY <1>1, <2>1, <2>3 DEF Kept, Placed
  <2> QED BY <2>1, <2>2, <2>3
<1>7. ASSUME Start PROVE Kept(q)'
  <2>1. /\ worker = "select" /\ head \in Requests /\ worker' = "send"
        /\ task' = [task EXCEPT ![head] = "running"]
        /\ UNCHANGED <<client, answer, head>>
    BY <1>7 DEF Start, clientVars, IInv, TypeOK
  <2>2. CASE q # head
    <3>1. task'[q] = task[q] /\ ~InHand(q)'
      BY <2>1, <2>2 DEF InHand, IInv, TypeOK
    <3> QED BY <1>2, <2>1, <3>1
  <2>3. CASE q = head
    <3>1. task'[q] = "running" /\ Pending(q)
      BY <2>1, <2>3 DEF Pending, IInv, TypeOK
    <3> QED BY <1>1, <2>1, <3>1 DEF Kept, Placed, Whole
  <2> QED BY <2>2, <2>3
<1>8. ASSUME SendHandle PROVE Kept(q)'
  <2>1. /\ worker = "send" /\ head \in Requests /\ worker' = "recv"
        /\ client' = client
        /\ \/ client[head] = "gone" /\ answer' = [answer EXCEPT ![head] = "closed"]
              /\ task' = [task EXCEPT ![head] = IF @ = "running" THEN "aborting" ELSE @]
           \/ client[head] # "gone" /\ answer' = [answer EXCEPT ![head] = "handle"]
              /\ task' = task
    BY <1>8 DEF SendHandle, Dispose, Abort, clientVars, IInv, TypeOK
  <2>2. ~InHand(q)'
    BY <2>1 DEF InHand
  <2>3. CASE q # head
    <3>1. task'[q] = task[q] /\ answer'[q] = answer[q]
      BY <2>1, <2>3 DEF IInv, TypeOK
    <3> QED BY <1>2, <2>1, <2>2, <3>1
  <2>4. CASE q = head
    <3>1. \/ client'[q] = "gone"
          \/ answer'[q] = "handle" /\ task'[q] = task[q]
      BY <2>1, <2>4 DEF IInv, TypeOK
    <3>2. InHand(q)
      BY <2>1, <2>4 DEF InHand
    <3> QED BY <1>1, <2>2, <3>1, <3>2 DEF Kept
  <2> QED BY <2>3, <2>4
<1> QED BY <1>3, <1>4, <1>5, <1>6, <1>7, <1>8 DEF Next, Serve

(* A client whose request was started finds the handler running, finished   *)
(* or panicked, never told to stop by anybody else: short of a shutdown of  *)
(* the runtime, the branch for a cancelled handler (queue.rs:384) is dead,  *)
(* and "request dropped" always means that the handler never ran.           *)
THEOREM StartedFindsItsHandler ==
  Spec => [](\A r \in Requests : client[r] = "started" => task[r] \in Whole)
<1>1. Init => KeptInv
  BY DEF Init, KeptInv, Kept, InHand
<1>2. IInv /\ KeptInv /\ [Next]_vars => KeptInv'
  BY KeptStep
<1>3. KeptInv => \A r \in Requests : client[r] = "started" => task[r] \in Whole
  BY DEF KeptInv, Kept
<1> QED BY <1>1, <1>2, <1>3, IInvHolds, PTL DEF Spec
-----------------------------------------------------------------------------
(* What is left in the channel of a worker that is gone goes with the last  *)
(* sender.                                                                  *)
LeakEnds == worker = "dropped" /\ senders = {} => channel = <<>>

(* Nothing is sent once the senders are gone: a client that is about to     *)
(* send still borrows its own.                                              *)
LEMMA LeakEndsHolds == Spec => []LeakEnds
<1>1. Init => LeakEnds
  BY DEF Init, LeakEnds
<1>2. IInv /\ LeakEnds /\ [Next]_vars => LeakEnds'
  <2> SUFFICES ASSUME IInv, LeakEnds, [Next]_vars, worker' = "dropped", senders' = {}
               PROVE  channel' = <<>>
    BY DEF LeakEnds
  <2>1. ASSUME NEW r \in Requests, ClientStep(r) PROVE channel' = <<>>
    <3>1. worker = "dropped"
      BY <2>1 DEF ClientStep, PollReady, Stamp, Send, PollQueued, PollStarted,
         DropFuture, DropSender, workerVars
    <3>2. CASE Send(r)
      <4>1. r \in senders
        BY <3>2 DEF Send, IInv, Placed
      <4> QED BY <3>2, <4>1 DEF Send
    <3>3. CASE DropSender(r)
      BY <3>1, <3>3 DEF DropSender
    <3>4. CASE ~Send(r) /\ ~DropSender(r)
      BY <2>1, <3>1, <3>4 DEF ClientStep, PollReady, Stamp, PollQueued, PollStarted,
         DropFuture, LeakEnds
    <3> QED BY <3>2, <3>3, <3>4
  <2>2. CASE DropWorker
    BY <2>2 DEF DropWorker
  <2>3. ~Serve
    BY DEF Serve, Recv, SkipClosed, Checked, Wait, TimeOut, Start, SendHandle,
       ServeReturns, Dispose
  <2>4. ASSUME \/ \E r \in Requests : TaskEnds(r)
               \/ Elapse \/ Tick \/ SetTimeout \/ UNCHANGED vars
        PROVE  channel' = <<>>
    <3>1. UNCHANGED <<worker, senders, channel>>
      BY <2>4 DEF TaskEnds, Elapse, Tick, SetTimeout, vars, clientVars, workerVars
    <3> QED BY <3>1 DEF LeakEnds
  <2> QED BY <2>1, <2>2, <2>3, <2>4 DEF Next
<1> QED BY <1>1, <1>2, IInvHolds, PTL DEF Spec

(* A call that has no answer yet is held by the worker or waits in its      *)
(* channel; behind a worker that was dropped there is no other way to be    *)
(* left without one than in the channel, and only while somebody keeps a    *)
(* QueueService alive.                                                      *)
THEOREM UnansweredIsHeld ==
  Spec => [](\A r \in Requests :
               client[r] = "queued" /\ answer[r] = "empty" =>
                 \/ worker \notin {"done", "dropped"} /\ (Pending(r) \/ InHand(r))
                 \/ worker = "dropped" /\ senders # {} /\ r \in ToSet(channel))
<1>1. IInv /\ LeakEnds =>
        \A r \in Requests :
          client[r] = "queued" /\ answer[r] = "empty" =>
            \/ worker \notin {"done", "dropped"} /\ (Pending(r) \/ InHand(r))
            \/ worker = "dropped" /\ senders # {} /\ r \in ToSet(channel)
  <2> SUFFICES ASSUME IInv, LeakEnds, NEW r \in Requests,
                      client[r] = "queued", answer[r] = "empty"
               PROVE  \/ worker \notin {"done", "dropped"} /\ (Pending(r) \/ InHand(r))
                      \/ worker = "dropped" /\ senders # {} /\ r \in ToSet(channel)
    OBVIOUS
  <2>1. Pending(r) \/ InHand(r)
    BY DEF IInv, Placed
  <2>2. worker # "done"
    BY DEF IInv, DrainedBeforeReturn
  <2>3. CASE worker = "dropped"
    <3>1. r \in ToSet(channel)
      BY <2>1, <2>3 DEF Pending, InHand
    <3>2. channel # <<>>
      BY <3>1 DEF ToSet
    <3> QED BY <2>3, <3>1, <3>2 DEF LeakEnds
  <2> QED BY <2>1, <2>2, <2>3
<1> QED BY <1>1, LeakEndsHolds, IInvHolds, PTL
-----------------------------------------------------------------------------
(* The line of FifoDispatch.                                                *)

(* An item in hand stands in front of the channel.                          *)
LEMMA InFront ==
  ASSUME NEW S, NEW q \in Seq(S), NEW x \in S
  PROVE  /\ <<x>> \o q \in Seq(S) /\ <<x>> \o q # <<>>
         /\ Head(<<x>> \o q) = x /\ Tail(<<x>> \o q) = q
         /\ ToSet(<<x>> \o q) = {x} \cup ToSet(q)
         /\ \A y \in S : <<x>> \o Append(q, y) = Append(<<x>> \o q, y)
<1> DEFINE p == <<x>> \o q
<1>1. /\ p \in Seq(S) /\ Len(p) = Len(q) + 1 /\ p[1] = x /\ Len(q) \in Nat
      /\ \A i \in 1..Len(q) : p[i + 1] = q[i]
      /\ DOMAIN p = 1..(Len(q) + 1)
  OBVIOUS
<1>2. p # <<>> /\ Head(p) = x
  BY <1>1
<1>3. Tail(p) = q
  <2>1. Tail(p) \in Seq(S) /\ Len(Tail(p)) = Len(q)
    BY <1>1
  <2>2. \A i \in 1..Len(q) : Tail(p)[i] = q[i]
    BY <1>1
  <2> HIDE DEF p
  <2> QED BY <2>1, <2>2
<1>4. ToSet(p) = {x} \cup ToSet(q)
  <2>1. ASSUME NEW i \in 1..(Len(q) + 1), i # 1 PROVE i - 1 \in 1..Len(q) /\ p[i] = q[i - 1]
    <3>1. i - 1 \in 1..Len(q) /\ (i - 1) + 1 = i
      BY <1>1, <2>1
    <3> HIDE DEF p
    <3> QED BY <1>1, <3>1
  <2>2. ToSet(p) \subseteq {x} \cup ToSet(q)
    <3> HIDE DEF p
    <3> QED BY <1>1, <2>1 DEF ToSet
  <2>3. {x} \cup ToSet(q) \subseteq ToSet(p)
    <3>1. \A i \in 1..Len(q) : i + 1 \in 1..(Len(q) + 1)
      BY <1>1
    <3>2. 1 \in 1..(Len(q) + 1)
      BY <1>1
    <3> HIDE DEF p
    <3> QED BY <1>1, <3>1, <3>2 DEF ToSet
  <2> QED BY <2>2, <2>3
<1>5. ASSUME NEW y \in S PROVE <<x>> \o Append(q, y) = Append(p, y)
  <2> DEFINE a == <<x>> \o Append(q, y)
             b == Append(p, y)
  <2>1. a \in Seq(S) /\ b \in Seq(S) /\ Len(a) = Len(q) + 2 /\ Len(b) = Len(q) + 2
    OBVIOUS
  <2>2. ASSUME NEW i \in 1..(Len(q) + 2) PROVE a[i] = b[i]
    OBVIOUS
  <2> HIDE DEF a, b
  <2> QED BY <2>1, <2>2
<1> QED BY <1>1, <1>2, <1>3, <1>4, <1>5

(* A line is its head in front of the rest.                                 *)
LEMMA HeadFirst ==
  ASSUME NEW S, NEW q \in Seq(S), q # <<>>
  PROVE  <<Head(q)>> \o Tail(q) = q
<1> DEFINE a == <<Head(q)>> \o Tail(q)
<1>1. a \in Seq(S) /\ Len(a) = Len(q)
  OBVIOUS
<1>2. ASSUME NEW i \in 1..Len(q) PROVE a[i] = q[i]
  OBVIOUS
<1> HIDE DEF a
<1> QED BY <1>1, <1>2 DEF a

(* What the line is, and who is in it.                                      *)
LEMMA LineFacts ==
  ASSUME IInv
  PROVE  /\ channel \in Seq(Requests) /\ Line \in Seq(Requests)
         /\ worker \notin {"check", "deadline", "select"} => Line = channel
         /\ worker \in {"check", "deadline", "select"} =>
              /\ head \in Requests /\ Line = <<head>> \o channel
              /\ Line # <<>> /\ Head(Line) = head /\ Tail(Line) = channel
         /\ \A r \in Requests : r \in ToSet(Line) <=> Pending(r)
<1>0. channel \in Seq(Requests)
  BY DEF IInv, TypeOK
<1>1. <<>> \o channel = channel
  BY <1>0
<1>2. CASE worker \notin {"check", "deadline", "select"}
  BY <1>0, <1>1, <1>2 DEF Line, Pending
<1>3. CASE worker \in {"check", "deadline", "select"}
  <2>1. head \in Requests
    BY <1>3 DEF IInv, TypeOK
  <2>2. Line = <<head>> \o channel
    BY <1>3 DEF Line
  <2> QED BY <1>0, <1>3, <2>1, <2>2, InFront DEF Pending
<1> QED BY <1>2, <1>3

(* A step that leaves channel, worker, item and handlers alone is no step   *)
(* of FifoDispatch's.                                                       *)
LEMMA NotSeen ==
  ASSUME UNCHANGED <<channel, worker, head, task>>
  PROVE  UNCHANGED <<Line, Running, Started>>
BY DEF Line, Running, Started, Live

(* Sending is joining the line.                                             *)
LEMMA SendIsSubmit ==
  ASSUME IInv, NEW r \in Requests, Send(r) PROVE Fifo!Submit(r)
<1>1. /\ client[r] = "stamped" /\ channel' = Append(channel, r)
      /\ UNCHANGED <<worker, head, task>>
  BY DEF Send, workerVars
<1>2. ~Pending(r) /\ task[r] = "none"
  BY <1>1 DEF IInv, Placed
<1>3. r \notin Started \cup ToSet(Line)
  BY <1>2, LineFacts DEF Started
<1>4. Line' = Append(Line, r)
  <2>1. CASE worker \notin {"check", "deadline", "select"}
    <3>1. <<>> \o Append(channel, r) = Append(channel, r)
      BY LineFacts
    <3>2. Line' = Append(channel, r)
      BY <1>1, <2>1, <3>1 DEF Line
    <3> QED BY <2>1, <3>2, LineFacts
  <2>2. CASE worker \in {"check", "deadline", "select"}
    <3>1. Line' = <<head>> \o Append(channel, r)
      BY <1>1, <2>2 DEF Line
    <3>2. head \in Requests /\ channel \in Seq(Requests) /\ Line = <<head>> \o channel
      BY <2>2, LineFacts
    <3> QED BY <3>1, <3>2, InFront
  <2> QED BY <2>1, <2>2
<1>5. UNCHANGED <<Running, Started>>
  BY <1>1 DEF Running, Started, Live
<1> QED BY <1>3, <1>4, <1>5 DEF Fifo!Submit, Fifo!ToSet, ToSet

(* Taking an item in hand leaves it in front of the line.                   *)
LEMMA RecvNotSeen ==
  ASSUME IInv, Recv PROVE UNCHANGED <<Line, Running, Started>>
<1>1. worker = "recv" /\ task' = task
  BY DEF Recv
<1>2. Line = channel /\ channel \in Seq(Requests)
  BY <1>1, LineFacts
<1>3. CASE channel # <<>> /\ head' = Head(channel) /\ channel' = Tail(channel)
           /\ worker' = "check"
  <2>1. Line' = <<Head(channel)>> \o Tail(channel)
    BY <1>3 DEF Line
  <2>2. <<Head(channel)>> \o Tail(channel) = channel
    BY <1>2, <1>3, HeadFirst
  <2> QED BY <1>1, <1>2, <2>1, <2>2 DEF Running, Started, Live
<1>4. CASE worker' = "drain" /\ UNCHANGED <<head, channel>>
  <2>1. Line' = <<>> \o channel /\ <<>> \o channel = channel
    BY <1>2, <1>4 DEF Line
  <2> QED BY <1>1, <1>2, <2>1 DEF Running, Started, Live
<1> QED BY <1>3, <1>4 DEF Recv

(* An item that is refused leaves at the head.                              *)
LEMMA RefusedIsRefuse ==
  ASSUME IInv, SkipClosed \/ TimeOut PROVE Fifo!Refuse
<1>1. /\ worker \in {"check", "deadline", "select"} /\ worker' = "recv"
      /\ channel' = channel /\ task' = task
  BY DEF SkipClosed, TimeOut, Dispose
<1>2. Line # <<>> /\ Tail(Line) = channel /\ channel \in Seq(Requests)
  BY <1>1, LineFacts
<1>3. Line' = <<>> \o channel /\ <<>> \o channel = channel
  BY <1>1, <1>2 DEF Line
<1>4. UNCHANGED <<Running, Started>>
  BY <1>1 DEF Running, Started, Live
<1> QED BY <1>2, <1>3, <1>4 DEF Fifo!Refuse

(* Spawning the handler takes the head of the line, for the first time.     *)
LEMMA StartIsStart ==
  ASSUME IInv, Start PROVE Fifo!Start
<1>1. /\ worker = "select" /\ worker' = "send" /\ channel' = channel
      /\ task' = [task EXCEPT ![head] = "running"]
  BY DEF Start
<1>2. /\ Line # <<>> /\ Head(Line) = head /\ Tail(Line) = channel
      /\ channel \in Seq(Requests) /\ head \in Requests
  BY <1>1, LineFacts
<1>3. Line' = <<>> \o channel /\ <<>> \o channel = channel
  BY <1>1, <1>2 DEF Line
<1>4. task[head] = "none"
  BY <1>1, <1>2 DEF IInv, Placed, Pending
<1>5. \A r \in Requests : task'[r] = IF r = head THEN "running" ELSE task[r]
  BY <1>1, <1>2 DEF IInv, TypeOK
<1>6. head \notin Started /\ Started' = Started \cup {head}
  BY <1>2, <1>4, <1>5 DEF Started
<1>7. Running' = Running \cup {head}
  BY <1>2, <1>5 DEF Running, Live
<1> QED BY <1>2, <1>3, <1>6, <1>7 DEF Fifo!Start

(* The last sender or the worker takes the whole line along.                *)
LEMMA LineGivenUp ==
  ASSUME IInv, task' = task, channel' = <<>>,
         worker' \notin {"check", "deadline", "select"}
  PROVE  Fifo!GiveUp
<1>1. Line' = <<>>
  BY DEF Line
<1>2. UNCHANGED <<Running, Started>>
  BY DEF Running, Started, Live
<1> QED BY <1>1, <1>2 DEF Fifo!GiveUp

(* A handler that has been told to stop goes on until it ends.              *)
LEMMA TaskEndsIsEnd ==
  ASSUME IInv, NEW r \in Requests, TaskEnds(r) PROVE Fifo!End(r)
<1>1. /\ Live(r) /\ UNCHANGED <<channel, worker, head>>
      /\ \E end \in {"finished", "panicked", "cancelled"} : task' = [task EXCEPT ![r] = end]
  BY DEF TaskEnds, Live, workerVars
<1>2. PICK end \in {"finished", "panicked", "cancelled"} :
        \A q \in Requests : task'[q] = IF q = r THEN end ELSE task[q]
  BY <1>1 DEF IInv, TypeOK
<1>3. r \in Running /\ Running' = Running \ {r}
  BY <1>1, <1>2 DEF Running, Live
<1>4. Started' = Started
  BY <1>1, <1>2 DEF Started, Live
<1>5. Line' = Line
  BY <1>1 DEF Line
<1> QED BY <1>3, <1>4, <1>5 DEF Fifo!End

(* Telling a handler to stop is not yet its end.                            *)
LEMMA AbortNotSeen ==
  ASSUME IInv, NEW r \in Requests, task' = task \/ Abort(r)
  PROVE  UNCHANGED <<Running, Started>>
<1>1. \A q \in Requests :
        \/ task'[q] = task[q]
        \/ task[q] = "running" /\ task'[q] = "aborting"
  BY DEF Abort, IInv, TypeOK
<1> QED BY <1>1 DEF Running, Started, Live

(* Every step of the queue is one of FifoDispatch's, or none.               *)
LEMMA NextIsFifo ==
  ASSUME IInv, [Next]_vars
  PROVE  [Fifo!Next]_<<Line, Running, Started>>
<1>1. ASSUME NEW r \in Requests, ClientStep(r)
      PROVE  [Fifo!Next]_<<Line, Running, Started>>
  <2>1. CASE Send(r)
    BY <2>1, SendIsSubmit DEF Fifo!Next
  <2>2. CASE DropFuture(r)
    <3>1. UNCHANGED <<channel, worker, head>> /\ (task' = task \/ Abort(r))
      BY <2>2 DEF DropFuture, workerVars
    <3>2. Line' = Line
      BY <3>1 DEF Line
    <3> QED BY <3>1, <3>2, AbortNotSeen
  <2>3. CASE DropSender(r)
    <3>1. UNCHANGED <<task, worker, head>>
      BY <2>3 DEF DropSender, workerVars
    <3>2. CASE channel' = channel
      BY <3>1, <3>2, NotSeen
    <3>3. CASE worker \in {"done", "dropped"} /\ channel' = <<>>
      BY <3>1, <3>3, LineGivenUp DEF Fifo!Next
    <3> QED BY <2>3, <3>2, <3>3 DEF DropSender
  <2>4. CASE PollReady(r) \/ Stamp(r) \/ PollQueued(r) \/ PollStarted(r)
    <3>1. UNCHANGED <<channel, worker, head, task>>
      BY <2>4 DEF PollReady, Stamp, PollQueued, PollStarted, workerVars
    <3> QED BY <3>1, NotSeen
  <2> QED BY <1>1, <2>1, <2>2, <2>3, <2>4 DEF ClientStep
<1>2. ASSUME NEW r \in Requests, TaskEnds(r) PROVE Fifo!Next
  BY <1>2, TaskEndsIsEnd DEF Fifo!Next
<1>3. ASSUME Serve PROVE [Fifo!Next]_<<Line, Running, Started>>
  <2>1. CASE Recv
    BY <2>1, RecvNotSeen
  <2>2. CASE SkipClosed \/ TimeOut
    BY <2>2, RefusedIsRefuse DEF Fifo!Next
  <2>3. CASE Start
    BY <2>3, StartIsStart DEF Fifo!Next
  <2>4. CASE Checked \/ Wait \/ ServeReturns
    <3>1. /\ UNCHANGED <<channel, head, task>>
          /\ worker \in {"check", "deadline", "select"}
               <=> worker' \in {"check", "deadline", "select"}
      BY <2>4 DEF Checked, Wait, ServeReturns
    <3> QED BY <3>1 DEF Line, Running, Started, Live
  <2>5. CASE SendHandle
    <3>1. /\ worker = "send" /\ worker' = "recv" /\ channel' = channel
          /\ task' = task \/ Abort(head)
      BY <2>5 DEF SendHandle, Dispose
    <3>2. head \in Requests
      BY <3>1 DEF IInv, TypeOK
    <3>3. Line' = Line
      BY <3>1 DEF Line
    <3> QED BY <3>1, <3>2, <3>3, AbortNotSeen
  <2> QED BY <1>3, <2>1, <2>2, <2>3, <2>4, <2>5 DEF Serve
<1>4. ASSUME DropWorker PROVE Fifo!Next
  <2>1. task' = task /\ channel' = <<>> /\ worker' = "dropped"
    BY <1>4 DEF DropWorker
  <2> QED BY <2>1, LineGivenUp DEF Fifo!Next
<1>5. ASSUME Elapse \/ Tick \/ SetTimeout \/ UNCHANGED vars
      PROVE  UNCHANGED <<Line, Running, Started>>
  <2>1. UNCHANGED <<channel, worker, head, task>>
    BY <1>5 DEF Elapse, Tick, SetTimeout, vars, workerVars
  <2> QED BY <2>1, NotSeen
<1> QED BY <1>1, <1>2, <1>3, <1>4, <1>5 DEF Next

(* Requests are dispatched in the order they were sent, each at most once,  *)
(* whatever is dropped, times out or panics: the queue implements           *)
(* FifoDispatch.                                                            *)
THEOREM DispatchIsFifo == Spec => ImplementsFifo
<1>1. Init => Fifo!Init
  BY DEF Init, Fifo!Init, Line, Running, Started, Live
<1>2. IInv /\ [Next]_vars => [Fifo!Next]_<<Line, Running, Started>>
  BY NextIsFifo
<1> QED BY <1>1, <1>2, IInvHolds, PTL DEF Spec, ImplementsFifo, Fifo!Spec
=============================================================================
