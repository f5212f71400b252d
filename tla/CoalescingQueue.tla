-------------------------- MODULE CoalescingQueue --------------------------
(***************************************************************************)
(* What the agent task queue promises for issues, whoever enqueues, claims, *)
(* fails, retries or cancels: each key, an agent with an issue, has one     *)
(* slot for pending work and one place for work in progress.  Work can be   *)
(* submitted only into an empty slot, which is how repeated triggers are    *)
(* coalesced, and is offered to a daemon only while the place is free.      *)
(* TaskQueue implements this module (Coalesces in TaskQueue).               *)
(***************************************************************************)

CONSTANT Key

VARIABLES
  slot,   \* the pending work of each key: none, waiting, or offered
  busy    \* whether work of the key is in progress

vars == <<slot, busy>>

Init ==
  /\ slot = [k \in Key |-> "free"]
  /\ busy = [k \in Key |-> FALSE]

(* An enqueue, or the retry of failed work. *)
Submit(k) ==
  /\ slot[k] = "free"
  /\ slot' = [slot EXCEPT ![k] = "waiting"]
  /\ UNCHANGED busy

(* A claim dispatches the waiting work. *)
Offer(k) ==
  /\ slot[k] = "waiting"
  /\ ~busy[k]
  /\ slot' = [slot EXCEPT ![k] = "offered"]
  /\ UNCHANGED busy

(* The daemon starts it. *)
Begin(k) ==
  /\ slot[k] = "offered"
  /\ slot' = [slot EXCEPT ![k] = "free"]
  /\ busy' = [busy EXCEPT ![k] = TRUE]

(* One statement may finish, fail or cancel work of any number of keys. *)
Release(S, B) ==
  /\ slot' = [k \in Key |-> IF k \in S THEN "free" ELSE slot[k]]
  /\ busy' = [k \in Key |-> busy[k] /\ k \notin B]

Next ==
  \/ \E k \in Key : Submit(k) \/ Offer(k) \/ Begin(k)
  \/ \E S, B \in SUBSET Key : Release(S, B)

Spec == Init /\ [][Next]_vars
=============================================================================
