---------------------------- MODULE MCTaskQueue ----------------------------
(***************************************************************************)
(* Instances of TaskQueue for TLC, and what they are checked against.      *)
(***************************************************************************)
EXTENDS TaskQueue, TLC

CONSTANTS
  r1,
  MaxRow,         \* bound: rows ever inserted
  Concurrency     \* every agent's max_concurrent_tasks

MCTask == 1..MaxRow
MCPriority == [k \in Subject |-> IF k \in Issue THEN 1 ELSE 2]
MCMaxConcurrent == [a \in Agent |-> Concurrency]
MCHomeRuntime == [a \in Agent |-> r1]

(* Claim requests are interchangeable: no action orders or names them. *)
ClaimSymmetry == Permutations(Claim)

(* Without users: nobody cancels, archives, restores or moves anything. *)
Unattended ==
  Init /\ [][EnqueueNext \/ ClaimNext \/ TaskNext \/ RuntimeNext]_vars

UnattendedFair == Unattended /\ Fairness

(* Without faults: agents move between runtimes whose daemons stay up.      *)
MovingNext ==
  \/ EnqueueNext \/ ClaimNext \/ TaskNext
  \/ \E a \in Agent, r \in Runtime : MoveAgent(a, r)
  \/ \E r \in Runtime : DaemonRegister(r) \/ RecoverOrphans(r)

Moving == Init /\ [][MovingNext]_vars

(* Moving, and every poller waits for its reply. *)
Patient ==
  Init /\ [][MovingNext /\ \A c \in Claim : ~ClaimDisconnect(c)]_vars

(* Without users and timeouts: daemons lose touch with the server, for longer *)
(* than the sweeper's patience with a runtime, and come back.                 *)
OutageNext ==
  \/ EnqueueNext \/ ClaimNext \/ TaskNext
  \/ \E S \in SUBSET Runtime : SweepRuntimes(S)
  \/ SweepTasks
  \/ \E r \in Runtime : Heartbeat(r) \/ DaemonRegister(r) \/ RecoverOrphans(r)

Outage == Init /\ [][OutageNext]_vars

=============================================================================
