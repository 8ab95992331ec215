----------------------------- MODULE DialRetry -----------------------------
(***************************************************************************)
(* The dials of the proxy's transport (pkg/net/dial_context.go).  One      *)
(* backoff belongs to the function that DialContextWithRetry returns; each *)
(* call of that function works on a copy.                                  *)
(*                                                                         *)
(* Time is not modelled: "slept" adds up the least durations of a call's   *)
(* sleeps, in units of the connect timeout.  Jitter makes each one longer  *)
(* by up to a half.                                                        *)
(***************************************************************************)
EXTENDS Integers

CONSTANTS Requests,   \* slots for requests, each with a dial
          Steps       \* how often a call dials

ASSUME DialAssumption == Steps \in Nat \ {0}

VARIABLES
    backoff,    \* the backoff of the function
    dial        \* the calls, by request

dialVars == <<backoff, dial>>

Backoffs == [steps : Nat, duration : Nat]

NoDial == [at |-> "none"]

Idle == [at : {"none", "conn", "error"}]
Calling == [at : {"try", "sleep"}, i : 0..Steps-1, backoff : Backoffs, slept : Nat]

DialTypeOK == backoff \in Backoffs /\ dial \in [Requests -> Idle \cup Calling]

(* DefaultBackoff, which doubles the duration at each step.                *)
DefaultBackoff == [steps |-> Steps, duration |-> 1]

DialInit == backoff = DefaultBackoff /\ dial = [r \in Requests |-> NoDial]

(* Backoff.Step of apimachinery: what is left of the backoff.              *)
Step(b) ==
    IF b.steps < 1 THEN b ELSE [steps |-> b.steps - 1, duration |-> 2 * b.duration]

(* The function is called and copies the backoff.                          *)
DialStart(r) ==
    /\ dial[r] = NoDial
    /\ dial' = [dial EXCEPT ![r] = [at |-> "try", i |-> 0, backoff |-> backoff, slept |-> 0]]
    /\ UNCHANGED backoff

(* A dial succeeds...                                                      *)
DialConnects(r) ==
    /\ dial[r].at = "try"
    /\ dial' = [dial EXCEPT ![r] = [at |-> "conn"]]
    /\ UNCHANGED backoff

(* Faulty variant: the calls share the backoff.                            *)
DialFailsShared(r) ==
    /\ dial[r].at = "try"
    /\ dial' = [dial EXCEPT ![r] = [@ EXCEPT !.at = "sleep", !.slept = @ + backoff.duration]]
    /\ backoff' = Step(backoff)

(* ...or fails, and the call sleeps, also after its last dial.             *)
DialFails(r) ==
    /\ dial[r].at = "try"
    /\ dial' = [dial EXCEPT ![r] = [at |-> "sleep", i |-> dial[r].i,
                                    backoff |-> Step(dial[r].backoff),
                                    slept |-> dial[r].slept + dial[r].backoff.duration]]
    /\ UNCHANGED backoff

(* Faulty variant: the tries are not counted.                              *)
DialWakesAgain(r) ==
    /\ dial[r].at = "sleep"
    /\ dial' = [dial EXCEPT ![r].at = "try", ![r].slept = 0, ![r].backoff = backoff]
    /\ UNCHANGED backoff

(* Faulty variant: one try too many.                                       *)
DialWakesOnceMore(r) ==
    /\ dial[r].at = "sleep"
    /\ dial' = IF dial[r].i < Steps
               THEN [dial EXCEPT ![r].i = @ + 1, ![r].at = "try"]
               ELSE [dial EXCEPT ![r] = [at |-> "error"]]
    /\ UNCHANGED backoff

(* The timer ends the sleep.  After the last one the call returns an error. *)
DialWakes(r) ==
    /\ dial[r].at = "sleep"
    /\ dial' = IF dial[r].i + 1 < Steps
               THEN [dial EXCEPT ![r] = [at |-> "try", i |-> dial[r].i + 1,
                                         backoff |-> dial[r].backoff, slept |-> dial[r].slept]]
               ELSE [dial EXCEPT ![r] = [at |-> "error"]]
    /\ UNCHANGED backoff

(* The context ends it.                                                    *)
DialCancelled(r) ==
    /\ dial[r].at = "sleep"
    /\ dial' = [dial EXCEPT ![r] = [at |-> "error"]]
    /\ UNCHANGED backoff

DialEnd(r) == dial' = [dial EXCEPT ![r] = NoDial] /\ UNCHANGED backoff
-----------------------------------------------------------------------------
PowerOf2[n \in Nat] == IF n = 0 THEN 1 ELSE 2 * PowerOf2[n - 1]

(* How often a call has taken a step of its backoff.                       *)
Taken(d) == IF d.at = "try" THEN d.i ELSE d.i + 1

(* Where a call is in its own backoff: it has slept 1 + 2 + 4 + ..., up to *)
(* the duration that comes next, and has the rest of the steps.            *)
OnSchedule(d) ==
    /\ d.slept = PowerOf2[Taken(d)] - 1
    /\ d.backoff.duration = PowerOf2[Taken(d)]
    /\ d.backoff.steps = Steps - Taken(d)

(* The inductive invariant of the dials: no call touches what the others   *)
(* copy.                                                                   *)
DialInv ==
    /\ DialTypeOK
    /\ backoff = DefaultBackoff
    /\ \A r \in Requests : dial[r].at \in {"try", "sleep"} => OnSchedule(dial[r])
=============================================================================
