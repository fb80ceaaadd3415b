--------------------------------- MODULE Quota ---------------------------------
(***************************************************************************)
(* The tally of the tenant quota (src/src/rate_limit.rs): for each tenant  *)
(* the run of its calls under one share, how many there were and how many  *)
(* were refused.  A call under another share starts a new run.  All clones *)
(* of the service share the tally; count() is one section under its mutex. *)
(*                                                                         *)
(* Shares are f64 in the code and multiples of 1/Scale here, so that       *)
(* refused + 1 <= seen * share is exact.  A share that is not a number     *)
(* differs from every share, itself included, and refuses nobody.          *)
(***************************************************************************)
EXTENDS Integers

CONSTANTS
  Tenants,
  Scale,     \* the whole
  Shares,    \* what Limits::drop_pct may return, clamped or not
  NaN

ASSUME QuotaAssumption ==
  /\ Scale \in Nat \ {0}
  /\ Shares \subseteq Int \cup {NaN}
  /\ NaN \notin Int

VARIABLES
  runs,      \* Tally: a Run for each tenant, absent ones the default
  ledger     \* history: what all runs of a tenant came to, in 1/Scale

quotaVars == <<runs, ledger>>

QuotaInit ==
  /\ runs = [t \in Tenants |-> [share |-> 0, seen |-> 0, refused |-> 0]]
  /\ ledger = [t \in Tenants |-> [calls |-> 0, due |-> 0, refused |-> 0]]

\* f64::clamp(0.0, 1.0)
Clamp(x) == CASE x = NaN -> NaN
              [] x # NaN /\ x < 0 -> 0
              [] x # NaN /\ x > Scale -> Scale
              [] OTHER -> x

\* slip: a new share starts the refusals anew, but not the calls
RunKeepsSeen(t, x) ==
  [share |-> Clamp(x), seen |-> runs[t].seen + 1,
   refused |-> IF runs[t].share = Clamp(x) THEN runs[t].refused ELSE 0]

\* the run that a call under share x belongs to, the call counted
Run(t, x) ==
  LET same == Clamp(x) # NaN /\ runs[t].share = Clamp(x)
  IN  [share |-> Clamp(x),
       seen |-> 1 + IF same THEN runs[t].seen ELSE 0,
       refused |-> IF same THEN runs[t].refused ELSE 0]

\* slip: the refusal that would be one too many is not counted in
DueIgnoresThisOne(run) ==
  run.share # NaN /\ run.refused * Scale <= run.seen * run.share

\* one more refusal still fits in the share of the run
Due(run) == run.share # NaN /\ (run.refused + 1) * Scale <= run.seen * run.share

Book(t, run, n) ==
  /\ runs' = [runs EXCEPT ![t] = [run EXCEPT !.refused = @ + n]]
  /\ ledger' = [ledger EXCEPT ![t] =
       [calls |-> @.calls + 1,
        due |-> @.due + IF run.share = NaN THEN 0 ELSE run.share,
        refused |-> @.refused + n]]

\* count() returns Refusal::Refuse, Refusal::Admit
Refuse(t, x) == Due(Run(t, x)) /\ Book(t, Run(t, x), 1)
Admit(t, x) == ~Due(Run(t, x)) /\ Book(t, Run(t, x), 0)

QuotaTypeOK ==
  /\ runs \in [Tenants -> [share : 0..Scale \cup {NaN}, seen : Nat, refused : Nat]]
  /\ ledger \in [Tenants -> [calls : Nat, due : Nat, refused : Nat]]

(* The refusals of a run are its share of the calls, rounded down, after    *)
(* every single call: they are spaced, not clustered (rate_limit.rs:224).   *)
RefusedIsShareOfRun ==
  \A t \in Tenants : runs[t].share # NaN =>
    /\ runs[t].refused * Scale <= runs[t].seen * runs[t].share
    /\ runs[t].seen * runs[t].share < (runs[t].refused + 1) * Scale

(* However the store changes a tenant's share between and during calls, and *)
(* whichever runs that starts over: never are more of its calls refused     *)
(* than the shares its calls came under add up to.                          *)
NeverOverRefused == \A t \in Tenants : ledger[t].refused * Scale <= ledger[t].due

(* What makes it inductive: the runs that are over were refused within      *)
(* their shares, so the run in force may use all of its own.                *)
EndedRunsInBudget ==
  \A t \in Tenants :
    LET run == runs[t] IN
    IF run.share = NaN
    THEN run.refused = 0 /\ ledger[t].refused * Scale <= ledger[t].due
    ELSE (ledger[t].refused - run.refused) * Scale
           <= ledger[t].due - run.seen * run.share

QuotaInv == QuotaTypeOK /\ RefusedIsShareOfRun /\ EndedRunsInBudget
=============================================================================
