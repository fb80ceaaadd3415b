----------------------------- MODULE FifoDispatch -----------------------------
(***************************************************************************)
(* What the request queue promises about dispatch, whoever drops what and  *)
(* when: requests leave the line at its head only, in the order they       *)
(* joined; each is started at most once; the whole line is given up only   *)
(* when the worker goes away.                                              *)
(***************************************************************************)
EXTENDS Sequences, SequencesExt

CONSTANT Requests

VARIABLES
  line,     \* requests that wait, oldest first
  running,  \* requests whose handler runs
  started   \* requests whose handler was ever started

Init == line = <<>> /\ running = {} /\ started = {}

Submit(r) ==
  /\ r \notin started \cup ToSet(line)
  /\ line' = Append(line, r)
  /\ UNCHANGED <<running, started>>

Start ==
  /\ line # <<>>
  /\ Head(line) \notin started
  /\ line' = Tail(line)
  /\ running' = running \cup {Head(line)}
  /\ started' = started \cup {Head(line)}

Refuse ==
  /\ line # <<>>
  /\ line' = Tail(line)
  /\ UNCHANGED <<running, started>>

GiveUp == line' = <<>> /\ UNCHANGED <<running, started>>

End(r) ==
  /\ r \in running
  /\ running' = running \ {r}
  /\ UNCHANGED <<line, started>>

Next ==
  \/ Start \/ Refuse \/ GiveUp
  \/ \E r \in Requests : Submit(r) \/ End(r)

Spec == Init /\ [][Next]_<<line, running, started>>
=============================================================================
