----------------------------- MODULE RequestQueue -----------------------------
(***************************************************************************)
(* The request queue (src/src/queue.rs): clients reserve a place in a      *)
(* bounded channel and send their request; one QueueWorker takes requests  *)
(* out in order, waits for the inner service until the request's deadline, *)
(* spawns the handler and hands its abort-on-drop handle to the client's   *)
(* future.  Clients, the worker and the handlers run on different threads; *)
(* clients give up, handlers panic and the worker is dropped at any time.  *)
(*                                                                         *)
(* Each request r has a QueueService clone of its own.  External: tokio's  *)
(* mpsc and oneshot channels, timers and abort-on-drop task handles.       *)
(***************************************************************************)
EXTENDS Integers, FiniteSets, Sequences, SequencesExt

CONSTANTS
  Requests,
  Capacity,             \* of the channel
  Limits,               \* values of QueueTimeout, in ticks of the clock
  MaxTime,              \* bound of the clock
  ProcessingTimeout,    \* TRUE iff the layer has a processing_timeout
  None                  \* no request

ASSUME QueueAssumption ==
  /\ IsFiniteSet(Requests) /\ None \notin Requests
  /\ Capacity \in Nat \ {0} /\ MaxTime \in Nat
  /\ Limits \subseteq Nat
  /\ ProcessingTimeout \in BOOLEAN

VARIABLES
  clock,
  timeout,    \* QueueTimeout: the limit the next request is stamped with
  senders,    \* QueueService values still alive
  client,     \* what each client has got to
  outcome,    \* what its future resolved to
  deadline,   \* QueueItem::deadline
  channel,    \* the mpsc channel: items sent and not received
  answer,     \* the oneshot channel of each item
  task,       \* the spawned handler
  worker,     \* where QueueWorker::serve stands
  head,       \* the item serve_one received last and has not disposed of
  elapsed     \* its sleep_until has fired

clientVars == <<senders, client, outcome>>
workerVars == <<worker, head, elapsed>>
vars == <<clock, timeout, clientVars, deadline, channel, answer, task, workerVars>>

Init ==
  /\ clock = 0 /\ timeout \in Limits
  /\ senders = Requests
  /\ client = [r \in Requests |-> "idle"]
  /\ outcome = [r \in Requests |-> "none"]
  /\ deadline = [r \in Requests |-> 0]
  /\ channel = <<>>
  /\ answer = [r \in Requests |-> "empty"]
  /\ task = [r \in Requests |-> "none"]
  /\ worker = "recv" /\ head = None /\ elapsed = FALSE

\* clients that hold a place in the channel they have not used yet
Reserved == {r \in Requests : client[r] \in {"ready", "stamped"}}

Live(r) == task[r] \in {"running", "aborting"}

\* AbortOnDropHandle::drop: the handler stops at its next await, if any
Abort(r) == task' = [task EXCEPT ![r] = IF @ = "running" THEN "aborting" ELSE @]

Resolve(r, result) ==
  /\ client' = [client EXCEPT ![r] = "answered"]
  /\ outcome' = [outcome EXCEPT ![r] = result]
-----------------------------------------------------------------------------
(* The client: poll_ready and call on its service, poll on its future.      *)

PollReady(r) ==
  /\ client[r] = "idle" /\ r \in senders
  /\ \/ /\ worker \notin {"done", "dropped"}
        /\ Len(channel) + Cardinality(Reserved) < Capacity
        /\ client' = [client EXCEPT ![r] = "ready"]
        /\ UNCHANGED outcome
     \/ worker \in {"done", "dropped"} /\ Resolve(r, "worker dropped")
  /\ UNCHANGED <<clock, timeout, senders, deadline, channel, answer, task, workerVars>>

\* call(): the deadline is computed from the limit in force ...
Stamp(r) ==
  /\ client[r] = "ready"
  /\ clock + timeout <= MaxTime
  /\ client' = [client EXCEPT ![r] = "stamped"]
  /\ deadline' = [deadline EXCEPT ![r] = clock + timeout]
  /\ UNCHANGED <<clock, timeout, senders, outcome, channel, answer, task, workerVars>>

\* ... and the item is sent.  A reserved place is good even when the receiver
\* is gone: the item then stays in the channel until the last sender drops.
Send(r) ==
  /\ client[r] = "stamped"
  /\ client' = [client EXCEPT ![r] = "queued"]
  /\ channel' = Append(channel, r)
  /\ UNCHANGED <<clock, timeout, senders, outcome, deadline, answer, task, workerVars>>

PollQueued(r) ==
  /\ client[r] = "queued"
  /\ \/ /\ answer[r] = "handle"
        /\ client' = [client EXCEPT ![r] = "started"]
        /\ UNCHANGED outcome
     \/ answer[r] = "timeout" /\ Resolve(r, "timeout")
     \/ answer[r] = "closed" /\ Resolve(r, "request dropped")
  /\ UNCHANGED <<clock, timeout, senders, deadline, channel, answer, task, workerVars>>

(* A result that is there wins over the processing timeout; the future that *)
(* reports a timeout still holds the handle.                                *)
PollStarted(r) ==
  /\ client[r] = "started"
  /\ \/ task[r] = "finished" /\ Resolve(r, "response")
     \/ task[r] = "panicked" /\ Resolve(r, "panic")
     \/ task[r] = "cancelled" /\ Resolve(r, "request dropped")
     \/ task[r] = "running" /\ ProcessingTimeout /\ Resolve(r, "processing timeout")
  /\ UNCHANGED <<clock, timeout, senders, deadline, channel, answer, task, workerVars>>

\* the future goes away, resolved or not, with what it holds
DropFuture(r) ==
  /\ client[r] \in {"queued", "started", "answered"}
  /\ client' = [client EXCEPT ![r] = "gone"]
  /\ IF answer[r] = "handle" THEN Abort(r) ELSE UNCHANGED task
  /\ UNCHANGED <<clock, timeout, senders, outcome, deadline, channel, answer, workerVars>>

\* the QueueService goes away; the last one takes leaked items along
DropSender(r) ==
  /\ r \in senders
  /\ client[r] # "stamped"     \* call() borrows the service
  /\ senders' = senders \ {r}
  /\ client' = [client EXCEPT ![r] = IF @ \in {"idle", "ready"} THEN "gone" ELSE @]
  /\ IF senders' = {} /\ worker \in {"done", "dropped"}
     THEN /\ channel' = <<>>
          /\ answer' = [q \in Requests |->
                          IF q \in ToSet(channel) THEN "closed" ELSE answer[q]]
     ELSE UNCHANGED <<channel, answer>>
  /\ UNCHANGED <<clock, timeout, outcome, deadline, task, workerVars>>
-----------------------------------------------------------------------------
(* The worker: serve, serve_one and admit.                                  *)

\* slip: the newest item is taken first
RecvNewest ==
  /\ worker = "recv"
  /\ \/ /\ channel # <<>>
        /\ head' = Last(channel) /\ channel' = Front(channel)
        /\ worker' = "check"
     \/ /\ channel = <<>> /\ senders = {}
        /\ worker' = "drain"
        /\ UNCHANGED <<head, channel>>
  /\ UNCHANGED <<clock, timeout, clientVars, deadline, answer, task, elapsed>>

\* recv() returns an item, or None once every sender is gone
Recv ==
  /\ worker = "recv"
  /\ \/ /\ channel # <<>>
        /\ head' = Head(channel) /\ channel' = Tail(channel)
        /\ worker' = "check"
     \/ /\ channel = <<>> /\ senders = {}
        /\ worker' = "drain"
        /\ UNCHANGED <<head, channel>>
  /\ UNCHANGED <<clock, timeout, clientVars, deadline, answer, task, elapsed>>

\* slip: the item just disposed of stays the one in hand
DisposeKeepsHead ==
  /\ worker' = "recv" /\ elapsed' = FALSE /\ UNCHANGED head

Dispose ==
  /\ worker' = "recv" /\ head' = None /\ elapsed' = FALSE

SkipClosed ==
  /\ worker = "check" /\ client[head] = "gone"
  /\ Dispose
  /\ answer' = [answer EXCEPT ![head] = "closed"]
  /\ UNCHANGED <<clock, timeout, clientVars, deadline, channel, task>>

\* the deadline check in front of the select
Checked ==
  /\ worker = "check" /\ client[head] # "gone"
  /\ worker' = "deadline"
  /\ UNCHANGED <<clock, timeout, clientVars, deadline, channel, answer, task, head, elapsed>>

Wait ==
  /\ worker = "deadline" /\ clock < deadline[head]
  /\ worker' = "select"
  /\ UNCHANGED <<clock, timeout, clientVars, deadline, channel, answer, task, head, elapsed>>

\* sleep_until fires, some time after the deadline
Elapse ==
  /\ worker = "select" /\ clock >= deadline[head]
  /\ ~elapsed /\ elapsed' = TRUE
  /\ UNCHANGED <<clock, timeout, clientVars, deadline, channel, answer, task, worker, head>>

\* slips: the answer is sent but admit() does not return; or only the check
\* in front of the select looks at the deadline
TimeOutFallsThrough ==
  /\ worker = "deadline" /\ clock >= deadline[head]
  /\ worker' = "select"
  /\ answer' = [answer EXCEPT ![head] = "timeout"]
  /\ UNCHANGED <<clock, timeout, clientVars, deadline, channel, task, head, elapsed>>

TimeOutBeforeSelectOnly ==
  /\ worker = "deadline" /\ clock >= deadline[head]
  /\ Dispose
  /\ answer' = [answer EXCEPT ![head] = "timeout"]
  /\ UNCHANGED <<clock, timeout, clientVars, deadline, channel, task>>

TimeOut ==
  /\ \/ worker = "deadline" /\ clock >= deadline[head]
     \/ worker = "select" /\ elapsed
  /\ Dispose
  /\ answer' = [answer EXCEPT ![head] = "timeout"]
  /\ UNCHANGED <<clock, timeout, clientVars, deadline, channel, task>>

\* the inner service is ready before the biased select sees the sleep fire:
\* call it and spawn the handler
Start ==
  /\ worker = "select" /\ ~elapsed
  /\ worker' = "send"
  /\ task' = [task EXCEPT ![head] = "running"]
  /\ UNCHANGED <<clock, timeout, clientVars, deadline, channel, answer, head, elapsed>>

\* slip: a handle nobody waits for is detached, not dropped
SendHandleDetached ==
  /\ worker = "send"
  /\ Dispose
  /\ answer' = [answer EXCEPT ![head] = IF client[head] = "gone" THEN "closed" ELSE "handle"]
  /\ UNCHANGED <<clock, timeout, clientVars, deadline, channel, task>>

\* tx.send(Ok(handle)): a handle nobody waits for is dropped on the spot
SendHandle ==
  /\ worker = "send"
  /\ Dispose
  /\ IF client[head] = "gone"
     THEN Abort(head) /\ answer' = [answer EXCEPT ![head] = "closed"]
     ELSE answer' = [answer EXCEPT ![head] = "handle"] /\ UNCHANGED task
  /\ UNCHANGED <<clock, timeout, clientVars, deadline, channel>>

\* slip: serve() closes the tracker and does not wait
ServeReturnsAtOnce ==
  /\ worker = "drain" /\ worker' = "done"
  /\ UNCHANGED <<clock, timeout, clientVars, deadline, channel, answer, task, head, elapsed>>

\* in_flight.wait() is over: serve returns and the worker is dropped
ServeReturns ==
  /\ worker = "drain" /\ \A r \in Requests : ~Live(r)
  /\ worker' = "done"
  /\ UNCHANGED <<clock, timeout, clientVars, deadline, channel, answer, task, head, elapsed>>

\* the worker is dropped at an await, with its head and the whole channel
DropWorker ==
  /\ worker \in {"recv", "select", "drain"}
  /\ worker' = "dropped" /\ head' = None /\ elapsed' = FALSE
  /\ channel' = <<>>
  /\ answer' = [r \in Requests |->
                  IF r = head \/ r \in ToSet(channel) THEN "closed" ELSE answer[r]]
  /\ UNCHANGED <<clock, timeout, clientVars, deadline, task>>
-----------------------------------------------------------------------------
(* The handlers and the environment.                                        *)

TaskEnds(r) ==
  /\ \/ /\ Live(r)
        /\ \E end \in {"finished", "panicked"} : task' = [task EXCEPT ![r] = end]
     \/ task[r] = "aborting" /\ task' = [task EXCEPT ![r] = "cancelled"]
  /\ UNCHANGED <<clock, timeout, clientVars, deadline, channel, answer, workerVars>>

Tick ==
  /\ clock < MaxTime
  /\ clock' = clock + 1
  /\ UNCHANGED <<timeout, clientVars, deadline, channel, answer, task, workerVars>>

SetTimeout ==
  /\ timeout' \in Limits \ {timeout}
  /\ UNCHANGED <<clock, clientVars, deadline, channel, answer, task, workerVars>>
-----------------------------------------------------------------------------
ClientStep(r) ==
  \/ PollReady(r) \/ Stamp(r) \/ Send(r)
  \/ PollQueued(r) \/ PollStarted(r)
  \/ DropFuture(r) \/ DropSender(r)

\* what serve does when it is polled
Serve ==
  \/ Recv \/ SkipClosed \/ Checked \/ Wait \/ TimeOut
  \/ Start \/ SendHandle \/ ServeReturns

Next ==
  \/ \E r \in Requests : ClientStep(r) \/ TaskEnds(r)
  \/ Serve \/ DropWorker \/ Elapse
  \/ Tick \/ SetTimeout

Spec == Init /\ [][Next]_vars
-----------------------------------------------------------------------------
(* Correctness.                                                             *)

TypeOK ==
  /\ clock \in 0..MaxTime /\ timeout \in Limits
  /\ senders \subseteq Requests
  /\ client \in [Requests -> {"idle", "ready", "stamped", "queued", "started",
                              "answered", "gone"}]
  /\ outcome \in [Requests -> {"none", "response", "panic", "timeout",
                               "processing timeout", "request dropped",
                               "worker dropped"}]
  /\ deadline \in [Requests -> 0..MaxTime]
  /\ channel \in Seq(Requests)
  /\ answer \in [Requests -> {"empty", "handle", "timeout", "closed"}]
  /\ task \in [Requests -> {"none", "running", "aborting", "finished",
                            "panicked", "cancelled"}]
  /\ worker \in {"recv", "check", "deadline", "select", "send", "drain",
                 "done", "dropped"}
  /\ elapsed \in BOOLEAN
  /\ IF worker \in {"recv", "drain", "done", "dropped"}
     THEN head = None ELSE head \in Requests

(* A client told that its request timed out in the queue, or was dropped    *)
(* there, may safely retry: the handler never ran and never will.           *)
RefusedNeverRan ==
  \A r \in Requests :
    outcome[r] \in {"timeout", "request dropped", "worker dropped"} =>
      task[r] = "none" /\ ~(worker = "select" /\ head = r)
        /\ r \notin ToSet(channel)

(* No handler keeps running for a client that went away, whether it went    *)
(* before, while or after the handle was on its way: it has been told to    *)
(* stop, or the worker is just about to drop the handle.                    *)
NoOrphanRuns ==
  \A r \in Requests :
    task[r] = "running" /\ client[r] = "gone" => worker = "send" /\ head = r

(* serve() returns gracefully: no handler is still running and every        *)
(* request that was sent has its answer.                                    *)
DrainedBeforeReturn ==
  worker = "done" =>
    \A r \in Requests : ~Live(r) /\ (client[r] = "queued" => answer[r] # "empty")

(* Where a request can be, and what that says about its answer, its handler *)
(* and its client.                                                          *)
Pending(r) ==
  \/ r \in ToSet(channel)
  \/ worker \in {"check", "deadline", "select"} /\ head = r

InHand(r) == worker = "send" /\ head = r

Refusals == {"timeout", "request dropped", "worker dropped"}

Placed(r) ==
  /\ client[r] \in {"idle", "ready", "stamped"} =>
       /\ r \in senders /\ ~Pending(r) /\ ~InHand(r)
       /\ outcome[r] = "none" /\ answer[r] = "empty" /\ task[r] = "none"
  /\ Pending(r) => answer[r] = "empty" /\ task[r] = "none"
  /\ InHand(r) => answer[r] = "empty"
  /\ Pending(r) \/ InHand(r) => client[r] \in {"queued", "gone"} /\ outcome[r] = "none"
  /\ client[r] = "queued" /\ answer[r] = "empty" => Pending(r) \/ InHand(r)
  /\ answer[r] = "timeout" => task[r] = "none"
  /\ answer[r] = "closed" => task[r] = "none" \/ client[r] = "gone"
  /\ task[r] = "running" => InHand(r) \/ answer[r] = "handle"
  /\ task[r] \in {"aborting", "cancelled"} => client[r] = "gone"
  /\ outcome[r] \in Refusals =>
       task[r] = "none" /\ client[r] \in {"answered", "gone"} /\ ~Pending(r) /\ ~InHand(r)

(* The inductive invariant the proofs of the three properties rest on.      *)
IInv ==
  /\ TypeOK
  /\ IsInjective(channel) /\ head \notin ToSet(channel)
  /\ worker \in {"drain", "done"} => senders = {} /\ channel = <<>>
  /\ \A r \in Requests : Placed(r)
  /\ NoOrphanRuns /\ DrainedBeforeReturn

\* what FifoDispatch sees of the queue
Line == (IF worker \in {"check", "deadline", "select"} THEN <<head>> ELSE <<>>) \o channel
Running == {r \in Requests : Live(r)}
Started == {r \in Requests : task[r] # "none"}

Fifo == INSTANCE FifoDispatch WITH line <- Line, running <- Running, started <- Started

(* Requests are dispatched in the order they were sent, each at most once.  *)
ImplementsFifo == Fifo!Spec
-----------------------------------------------------------------------------
(* Liveness.  The runtime keeps polling woken tasks and firing timers, and  *)
(* handlers end.  Nothing is assumed of the inner service: it may never be  *)
(* ready (Start is not fair).  Clients need not come, stay or leave.        *)

Fairness ==
  /\ WF_vars(Tick) /\ WF_vars(Elapse)
  /\ WF_vars(Recv) /\ WF_vars(SkipClosed \/ Checked) /\ WF_vars(Wait \/ TimeOut)
  /\ WF_vars(SendHandle) /\ WF_vars(ServeReturns)
  /\ \A r \in Requests : /\ WF_vars(TaskEnds(r)) /\ WF_vars(Send(r))
                         /\ WF_vars(PollQueued(r)) /\ WF_vars(PollStarted(r))

FairSpec == Spec /\ Fairness

Unanswered(r) == client[r] \in {"stamped", "queued", "started"}

(* As long as the worker is not dropped every call comes to an end, even    *)
(* when the inner service is never ready again.                             *)
EveryCallEnds ==
  [](worker # "dropped") =>
    \A r \in Requests : Unanswered(r) ~> ~Unanswered(r)

(* Once the last service is dropped, serve() comes to its end.              *)
ServeEnds == senders = {} ~> worker \in {"done", "dropped"}

(* "queue worker dropped" (queue.rs:43) is what a call is told when there   *)
(* is no worker any more: it is told so, it does not wait for ever.         *)
DroppedWorkerIsReported ==
  \A r \in Requests : Unanswered(r) ~> ~Unanswered(r)
=============================================================================
