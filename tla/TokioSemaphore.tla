--------------------------- MODULE TokioSemaphore ---------------------------
(***************************************************************************)
(* tokio::sync::Semaphore and tokio_util::sync::PollSemaphore, as the code *)
(* of src/ uses them: one permit at a time, a FIFO queue of waiters, and   *)
(* permits that are forgotten and later added back by hand.  External: the *)
(* library is not part of the repository.                                  *)
(*                                                                         *)
(* A permit that is added while somebody waits is handed to the oldest     *)
(* waiter and never shows up in available_permits().  Each operator below  *)
(* is one atomic step of the library (a CAS, or a section under its lock). *)
(***************************************************************************)
EXTENDS Integers, SequencesExt

VARIABLES
  permits,   \* available_permits()
  queue,     \* PollSemaphores whose acquire future waits, oldest first
  granted    \* PollSemaphores handed a permit they have not polled for yet

semVars == <<permits, queue, granted>>

SemInit(n) == permits = n /\ queue = <<>> /\ granted = {}

Waiting == ToSet(queue)

\* add_permits(1)
AddPermit ==
  \/ /\ queue = <<>>
     /\ permits' = permits + 1
     /\ UNCHANGED <<queue, granted>>
  \/ /\ queue # <<>>
     /\ granted' = granted \cup {Head(queue)}
     /\ queue' = Tail(queue)
     /\ UNCHANGED permits

\* forget_permits(1), when it returns 1
ForgetPermit ==
  /\ permits > 0
  /\ permits' = permits - 1
  /\ UNCHANGED <<queue, granted>>

\* poll_acquire of client c, when it returns Ready
Acquired(c) ==
  \/ /\ c \in granted
     /\ granted' = granted \ {c}
     /\ UNCHANGED <<permits, queue>>
  \/ c \notin granted /\ ForgetPermit

\* the first poll_acquire of client c that returns Pending
Enqueued(c) ==
  /\ c \notin granted \cup Waiting
  /\ permits = 0
  /\ queue' = Append(queue, c)
  /\ UNCHANGED <<permits, granted>>

\* client c drops its unfinished acquire future: it leaves the queue, and a
\* permit it was already handed goes to the next waiter or becomes available
Abandoned(c) ==
  \/ /\ \E i \in DOMAIN queue : queue[i] = c /\ queue' = RemoveAt(queue, i)
     /\ UNCHANGED <<permits, granted>>
  \/ /\ c \in granted /\ queue = <<>>
     /\ granted' = granted \ {c}
     /\ permits' = permits + 1
     /\ UNCHANGED queue
  \/ /\ c \in granted /\ queue # <<>>
     /\ granted' = (granted \ {c}) \cup {Head(queue)}
     /\ queue' = Tail(queue)
     /\ UNCHANGED permits

\* nobody waits while a permit is free
NoIdlePermit == queue # <<>> => permits = 0
=============================================================================
