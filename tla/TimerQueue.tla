----------------------------- MODULE TimerQueue -----------------------------
(***************************************************************************)
(* What the callers of lib/event.c rely on: a set of timers, each due at   *)
(* the time it was last set for until it is deleted or called, of which    *)
(* the one that is called is the earliest.                                 *)
(***************************************************************************)
EXTENDS Integers

CONSTANTS Events, Times

VARIABLES due,      \* the time a timer is set for, if any
          called    \* the timer whose callback is about to be called

Unset == -1

Init == due = [e \in Events |-> Unset] /\ called = {}

Waiting == {e \in Events : due[e] # Unset}

Set(e, t) ==
  /\ called = {}
  /\ due' = [due EXCEPT ![e] = t] /\ UNCHANGED called

Delete(e) ==
  /\ called = {} /\ e \in Waiting
  /\ due' = [due EXCEPT ![e] = Unset] /\ UNCHANGED called

Run(e) ==
  /\ called = {} /\ e \in Waiting
  /\ \A f \in Waiting : due[e] <= due[f]
  /\ due' = [due EXCEPT ![e] = Unset] /\ called' = {e}

Call == called' = {} /\ UNCHANGED due

Next ==
  \/ \E e \in Events, t \in Times : Set(e, t)
  \/ \E e \in Events : Delete(e) \/ Run(e)
  \/ Call

Spec == Init /\ [][Next]_<<due, called>>
=============================================================================
