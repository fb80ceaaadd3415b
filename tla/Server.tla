--------------------------------- MODULE Server ---------------------------------
(***************************************************************************)
(* The server of src/examples/hello.rs: the queue's worker, the CPU gate   *)
(* and the handlers, all on the one instrumented runtime that the gate     *)
(* looks at.  The task that asks the gate runs on a worker thread and so   *)
(* keeps it from idling; so do the connections that put requests into the  *)
(* queue, and the handlers.                                                *)
(*                                                                         *)
(* One service (the queue worker's) asks the gate, and each request has    *)
(* one response future: CpuGate's Services and Calls.  A connection sends  *)
(* its next request when the last is answered.  External: the runtime.  A  *)
(* worker parks when it finds nothing to run, wakes up when there is       *)
(* something, and tasks that are woken are run in turn.                    *)
(***************************************************************************)
EXTENDS CpuGate

CONSTANTS Svc, Serve, Nothing

ASSUME ServerAssumption ==
  /\ Services = {Svc}
  /\ Serve \notin Calls /\ Nothing \notin Calls /\ Serve # Nothing

Tasks == {Serve} \cup Calls

VARIABLES
  run,     \* what each worker runs
  stage,   \* what each request has got to
  line,    \* the queue, the item in the hands of admit() included
  at,      \* what QueueWorker::serve waits for: "recv" or the "gate"
  late     \* sleep_until of the item in hand has fired

taskVars == <<run, stage, line, at, late>>
serverVars == <<vars, taskVars>>

ServerInit ==
  /\ Init
  /\ run = [w \in Workers |-> Nothing]
  /\ stage = [r \in Calls |-> "new"]
  /\ line = <<>> /\ at = "recv" /\ late = FALSE
-----------------------------------------------------------------------------
(* The runtime.                                                             *)

\* a permit handed to the service wakes the task that waits for it
Woken(t) ==
  IF t = Serve
  THEN \/ at = "recv" /\ line # <<>>
       \/ at = "gate" /\ (Svc \in granted \/ late)
  ELSE stage[t] \in {"arrived", "spawned", "resumed"}

Runnable == {t \in Tasks : Woken(t) /\ \A w \in Workers : run[w] # t}

Doze(w) ==
  /\ run[w] = Nothing /\ Runnable = {}
  /\ Park(w)
  /\ UNCHANGED taskVars

Wake(w) ==
  /\ Runnable # {}
  /\ Unpark(w)
  /\ UNCHANGED taskVars

Pick(w, t) ==
  /\ w \notin parked \cup Midway /\ run[w] = Nothing
  /\ t \in Runnable
  /\ run' = [run EXCEPT ![w] = t]
  /\ UNCHANGED <<vars, stage, line, at, late>>

Yield(w) == run' = [run EXCEPT ![w] = Nothing]
-----------------------------------------------------------------------------
(* QueueWorker::serve, polled by worker w until it is pending.              *)

ServeRecv(w) ==
  /\ run[w] = Serve /\ at = "recv"
  /\ IF line = <<>>
     THEN Yield(w) /\ UNCHANGED <<at, late>>
     ELSE at' = "gate" /\ late' = FALSE /\ UNCHANGED run
  /\ UNCHANGED <<vars, stage, line>>

\* the gate's service keeps its place in the semaphore's queue, or the
\* permit it has been handed, for the request after this one
ServeTimesOut(w) ==
  /\ run[w] = Serve /\ at = "gate" /\ late /\ Svc \notin reserved
  /\ stage' = [stage EXCEPT ![Head(line)] = "new"]
  /\ line' = Tail(line) /\ at' = "recv" /\ late' = FALSE
  /\ UNCHANGED <<vars, run>>

ServeAsks(w) ==
  /\ run[w] = Serve /\ at = "gate" /\ ~late /\ Svc \notin reserved
  /\ \/ PollReady(Svc)
     \/ Svc \in Waiting /\ UNCHANGED vars
  /\ IF Svc \in reserved' THEN UNCHANGED run ELSE Yield(w)
  /\ UNCHANGED <<stage, line, at, late>>

ServeStarts(w) ==
  /\ run[w] = Serve /\ at = "gate"
  /\ Call(Svc, Head(line))
  /\ stage' = [stage EXCEPT ![Head(line)] = "spawned"]
  /\ line' = Tail(line) /\ at' = "recv" /\ late' = FALSE
  /\ UNCHANGED run
-----------------------------------------------------------------------------
(* Connections and handlers.                                                *)

Arrive(r) ==
  /\ stage[r] = "new"
  /\ stage' = [stage EXCEPT ![r] = "arrived"]
  /\ UNCHANGED <<vars, run, line, at, late>>

Enqueue(w, r) ==
  /\ run[w] = r /\ stage[r] = "arrived"
  /\ stage' = [stage EXCEPT ![r] = "queued"]
  /\ line' = Append(line, r)
  /\ Yield(w)
  /\ UNCHANGED <<vars, at, late>>

\* the handler's first poll gives its claim back when it is over
FirstPoll(w, r) ==
  /\ run[w] = r /\ stage[r] = "spawned"
  /\ FirstPollOrDrop(r)
  /\ stage' = [stage EXCEPT ![r] = "resumed"]
  /\ UNCHANGED <<run, line, at, late>>

\* a poll is over: the handler has answered, or waits for something else
Answer(w, r) ==
  /\ run[w] = r /\ stage[r] = "resumed" /\ r \notin Midway
  /\ stage' = [stage EXCEPT ![r] = "new"]
  /\ Yield(w)
  /\ UNCHANGED <<vars, line, at, late>>

Suspend(w, r) ==
  /\ run[w] = r /\ stage[r] = "resumed" /\ r \notin Midway
  /\ stage' = [stage EXCEPT ![r] = "pending"]
  /\ Yield(w)
  /\ UNCHANGED <<vars, line, at, late>>

Resume(r) ==
  /\ stage[r] = "pending"
  /\ stage' = [stage EXCEPT ![r] = "resumed"]
  /\ UNCHANGED <<vars, run, line, at, late>>

Elapse ==
  /\ at = "gate" /\ ~late
  /\ late' = TRUE
  /\ UNCHANGED <<vars, run, stage, line, at>>
-----------------------------------------------------------------------------
PollStep(w) ==
  \/ ServeRecv(w) \/ ServeTimesOut(w) \/ ServeAsks(w) \/ ServeStarts(w)
  \/ \E r \in Calls : \/ Enqueue(w, r) \/ FirstPoll(w, r)
                      \/ Answer(w, r) \/ Suspend(w, r)

ServerNext ==
  \/ \E w \in Workers : Doze(w) \/ Wake(w) \/ PollStep(w)
  \/ \E w \in Workers, t \in Tasks : Pick(w, t)
  \/ \E r \in Calls : Arrive(r) \/ Resume(r)
  \/ Elapse
  \/ \E a \in Actors : Complete(a) /\ UNCHANGED taskVars

ServerSpec == ServerInit /\ [][ServerNext]_serverVars
-----------------------------------------------------------------------------
(* Correctness.                                                             *)

ServerTypeOK ==
  /\ TypeOK
  /\ run \in [Workers -> Tasks \cup {Nothing}]
  /\ stage \in [Calls -> {"new", "arrived", "queued", "spawned", "resumed", "pending"}]
  /\ line \in Seq(Calls)
  /\ at \in {"recv", "gate"} /\ late \in BOOLEAN

(* The server comes to rest only when it is done: with every worker parked  *)
(* and nothing woken, no request waits in the queue, at the gate or for its *)
(* first poll.  No unit of the gate's that a hook, a release or a timed-out *)
(* request has left somewhere else keeps the queue's worker from it.        *)
RestIsDone ==
  parked = Workers /\ Midway = {} /\ Runnable = {} =>
    line = <<>> /\ admitted = {} /\ reserved = {}

\* parked workers run nothing
ParkedAreIdle == \A w \in parked : run[w] = Nothing

ServeRuns == \E w \in Workers : run[w] = Serve

\* serve() waits at the gate only with a place in its line or a permit
GateIsAsked == at = "gate" /\ Svc \notin Waiting \cup granted => ServeRuns
SlotIsUsed == Svc \in reserved => at = "gate" /\ ServeRuns

\* a request is in the queue once, and its claim waits for its first poll
LineIsQueued ==
  /\ at = "gate" => line # <<>>
  /\ IsInjective(line)
  /\ \A r \in ToSet(line) : stage[r] = "queued"
ClaimIsSpawned == \A r \in admitted : stage[r] = "spawned"

(* The inductive invariant behind RestIsDone, on top of the gate's own.     *)
ServerInv ==
  /\ IInv /\ ServerTypeOK
  /\ ParkedAreIdle /\ GateIsAsked /\ SlotIsUsed
  /\ LineIsQueued /\ ClaimIsSpawned
-----------------------------------------------------------------------------
(* Liveness.  A worker does what it found to do, or parks; a task that is   *)
(* woken again and again is run, since the run queues are served in turn;   *)
(* a handler that is polled again and again answers; hooks and releases run *)
(* to their end.  Requests need not come, deadlines need not pass, handlers *)
(* may wait for ever.                                                       *)

ServerFairness ==
  /\ \A w \in Workers : /\ WF_serverVars(Doze(w)) /\ WF_serverVars(Wake(w))
                        /\ WF_serverVars(PollStep(w))
  /\ \A t \in Tasks : SF_serverVars(\E w \in Workers : Pick(w, t))
  /\ \A r \in Calls : SF_serverVars(\E w \in Workers : Answer(w, r))
  /\ \A a \in Actors : WF_serverVars(Complete(a) /\ UNCHANGED taskVars)

FairServerSpec == ServerSpec /\ ServerFairness

(* The server does not starve itself: whoever is in the queue gets out of   *)
(* it, although deadlines need not pass and connections keep coming, and    *)
(* although the queue's own task, the connections and the handlers keep     *)
(* workers from parking.                                                    *)
QueuedStarts == \A r \in Calls : stage[r] = "queued" ~> stage[r] # "queued"
=============================================================================
