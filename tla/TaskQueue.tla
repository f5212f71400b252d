----------------------------- MODULE TaskQueue -----------------------------
(***************************************************************************)
(* The agent task queue of the Multica server: the rows of                 *)
(* agent_task_queue, the claim requests of the daemons' pollers, the       *)
(* daemons' executions and the sweepers that give up on them.              *)
(*                                                                         *)
(* One action is one SQL statement (or one transaction) of the server, or  *)
(* one step of a daemon, because nothing wider is atomic: a claim request  *)
(* lists candidates, counts the agent's running tasks and dispatches a row *)
(* in three statements, and every other handler may run in between.        *)
(*                                                                         *)
(* The empty-claim cache and the startup breaker, which may make a claim   *)
(* request return nothing before it lists, are in module ClaimGate.  The   *)
(* agent's status column, the issue reset that follows a failure and the   *)
(* correlated runs are left out.                                           *)
(***************************************************************************)
EXTENDS Naturals, FiniteSets

CONSTANTS
  Task,           \* row ids, in the order of created_at
  Agent,
  Runtime,
  Issue,
  Chat,
  QuickCreate,    \* the subject of a quick-create row: no issue, chat or run
  Orphan,         \* the subject of a row whose chat session is deleted
  AutopilotRun,   \* the subject of a run_only autopilot row
  Work,           \* the subjects work is enqueued for
  Request,        \* enqueue requests the server may be serving at once
  Claim,          \* claim requests the server may be serving at once
  None,
  Priority,       \* the priority a new row of each subject gets
  MaxConcurrent,  \* agent.max_concurrent_tasks
  MaxAttempts,    \* agent_task_queue.max_attempts, 2 by default
  HomeRuntime     \* the runtime each agent starts on

Subject == Issue \cup Chat \cup {QuickCreate, Orphan, AutopilotRun}

(* The rows whose issue, chat and autopilot links are all NULL. *)
Unlinked == {QuickCreate, Orphan}

ASSUME TaskAssumption == Task \subseteq Nat

ASSUME SubjectAssumption ==
  /\ Work \subseteq Subject \ {Orphan}
  /\ Issue \cap (Chat \cup {QuickCreate, Orphan, AutopilotRun}) = {}
  /\ Chat \cap {QuickCreate, Orphan, AutopilotRun} = {}
  /\ QuickCreate # Orphan
  /\ AutopilotRun \notin Unlinked

ASSUME NoneAssumption == None \notin Task \cup Agent \cup Runtime \cup Subject

ASSUME ConfigAssumption ==
  /\ Priority \in [Subject -> Nat]
  /\ MaxConcurrent \in [Agent -> Nat \ {0}]
  /\ MaxAttempts \in Nat
  /\ HomeRuntime \in [Agent -> Runtime]

ASSUME ClaimAssumption == IsFiniteSet(Claim)

VARIABLES
  tq,        \* the rows of agent_task_queue
  agentRt,   \* agent.runtime_id
  archived,  \* the agents with archived_at set
  chats,     \* the chat sessions that exist
  enqueues,  \* what each enqueue request, its agent read, will insert
  claims,    \* the claim requests in progress
  retries,   \* failed rows whose retry is decided but not inserted yet
  online,    \* the runtimes whose status column says online
  sweep,     \* where the runtime sweeper is in its tick
  daemon,    \* each runtime's daemon: "down", "starting" or "up"
  exec       \* what a daemon does with each task

rowVars == <<tq, retries>>
agentVars == <<agentRt, archived, chats>>
runtimeVars == <<online, sweep, daemon>>
vars == <<tq, agentRt, archived, chats, enqueues, claims, retries, online,
          sweep, daemon, exec>>

-----------------------------------------------------------------------------
(* Rows *)

Status == {"absent", "queued", "dispatched", "running",
           "completed", "failed", "cancelled"}
Reason == {"none", "agent_error", "api_unavailable", "runtime_offline",
           "runtime_recovery", "timeout"}

Row == [st : Status, agent : Agent \cup {None}, subj : Subject \cup {None},
        rt : Runtime \cup {None}, prio : Nat, att : Nat, reason : Reason,
        parent : Task \cup {None}]

AbsentRow == [st |-> "absent", agent |-> None, subj |-> None, rt |-> None,
              prio |-> 0, att |-> 0, reason |-> "none", parent |-> None]

Queued(t)   == tq[t].st = "queued"
Pending(t)  == tq[t].st \in {"queued", "dispatched"}
Active(t)   == tq[t].st \in {"dispatched", "running"}
Live(t)     == tq[t].st \in {"queued", "dispatched", "running"}
Terminal(t) == tq[t].st \in {"completed", "failed", "cancelled"}

(* Variant: queued rows count too. *)
UnfinishedTasks(a) == {t \in Task : tq[t].agent = a /\ Live(t)}

(* CountRunningTasks. *)
RunningTasks(a) == {t \in Task : tq[t].agent = a /\ Active(t)}

(* Variant: the arguments swapped. *)
WithReason(S, st, reason) ==
  [t \in Task |-> IF t \in S THEN [tq[t] EXCEPT !.st = reason, !.reason = st]
                             ELSE tq[t]]

(* The rows that one UPDATE ... WHERE t \in S leaves behind. *)
WithStatus(S, st, reason) ==
  [t \in Task |-> IF t \in S THEN [tq[t] EXCEPT !.st = st, !.reason = reason]
                             ELSE tq[t]]

(* The id a new row gets: created_at orders rows as their inserts happened. *)
IsNextId(t) ==
  /\ tq[t].st = "absent"
  /\ \A u \in Task : tq[u].st = "absent" <=> t <= u

(* Variant: no such index. *)
IndexDropped(a, k) == TRUE

(* idx_one_pending_task_per_issue_agent: no second queued or dispatched row  *)
(* for an (issue, agent) pair.  Rows without an issue are never in conflict. *)
IndexAllows(a, k) ==
  k \in Issue => ~\E u \in Task : Pending(u) /\ tq[u].agent = a /\ tq[u].subj = k

(* Variant: the row lock of the deletion is missing. *)
ForeignKeyUnchecked(k) == TRUE

(* chat_session_id is a foreign key: the session must still exist. *)
ForeignKeyAllows(k) == k \in Chat => k \in chats

Insert(t, row) == tq' = [tq EXCEPT ![t] = row]

-----------------------------------------------------------------------------
(* Enqueue: EnqueueTaskForIssue, EnqueueTaskForMention, EnqueueChatTask,     *)
(* EnqueueQuickCreateTask and the autopilot's run_only dispatch all read the *)
(* agent, refuse an archived one, and then insert on the runtime they read.  *)

Enqueue == [agent : Agent, subj : Subject, rt : Runtime]

EnqueueRead(q, a, k) ==
  /\ enqueues[q] = None
  /\ a \notin archived
  /\ ForeignKeyAllows(k)
  /\ enqueues' = [enqueues EXCEPT ![q] = [agent |-> a, subj |-> k, rt |-> agentRt[a]]]
  /\ UNCHANGED <<rowVars, agentVars, runtimeVars, claims, exec>>

NewRow(e) == [st |-> "queued", agent |-> e.agent, subj |-> e.subj, rt |-> e.rt,
              prio |-> Priority[e.subj], att |-> 1, reason |-> "none",
              parent |-> None]

EnqueueInsert(q, t) ==
  /\ enqueues[q] # None
  /\ IndexAllows(enqueues[q].agent, enqueues[q].subj)
  /\ ForeignKeyAllows(enqueues[q].subj)
  /\ IsNextId(t)
  /\ Insert(t, NewRow(enqueues[q]))
  /\ enqueues' = [enqueues EXCEPT ![q] = None]
  /\ UNCHANGED <<agentVars, runtimeVars, claims, retries, exec>>

(* The pending check of the trigger paths, or the INSERT itself, finds a     *)
(* pending row for the pair; or the chat session is gone.                    *)
EnqueueRefused(q) ==
  /\ enqueues[q] # None
  /\ ~ /\ IndexAllows(enqueues[q].agent, enqueues[q].subj)
       /\ ForeignKeyAllows(enqueues[q].subj)
  /\ enqueues' = [enqueues EXCEPT ![q] = None]
  /\ UNCHANGED <<rowVars, agentVars, runtimeVars, claims, exec>>

-----------------------------------------------------------------------------
(* Claim: ClaimTaskForRuntime and ClaimTask.                                 *)
(*                                                                           *)
(* cand is the snapshot of ListQueuedClaimCandidatesByRuntime less the rows  *)
(* of the agents already tried, snap the rows the snapshot of ClaimAgentTask *)
(* finds claimable.  conn says whether the daemon still waits for the reply. *)

ClaimState ==
  [pc : {"idle", "count", "select", "lock", "reply"}, rt : Runtime \cup {None},
   conn : BOOLEAN, cand : SUBSET Task, snap : SUBSET Task,
   got : Task \cup {None}]

IdleClaim == [pc |-> "idle", rt |-> None, conn |-> FALSE, cand |-> {},
              snap |-> {}, got |-> None]

(* ORDER BY priority DESC, created_at ASC *)
Before(t, u) ==
  \/ tq[t].prio > tq[u].prio
  \/ tq[t].prio = tq[u].prio /\ t <= u

First(S, t) == t \in S /\ \A u \in S : Before(t, u)

(* The agent the loop over the candidates tries next. *)
Tries(c, a) == \E t \in Task : First(claims[c].cand, t) /\ tq[t].agent = a

(* The loop moves on: the agent's candidates are done with, and the request  *)
(* returns nothing when no agent is left.                                    *)
NextAgent(c, a) ==
  LET rest == {t \in claims[c].cand : tq[t].agent # a}
  IN  claims' = [claims EXCEPT ![c] =
                   IF rest = {} THEN IdleClaim
                   ELSE [@ EXCEPT !.pc = "count", !.cand = rest, !.snap = {}]]

(* One poller per runtime: it claims again only when its call has returned. *)
ClaimList(c, r) ==
  LET found == {t \in Task : Queued(t) /\ tq[t].rt = r}
  IN  /\ daemon[r] = "up"
      /\ claims[c].pc = "idle"
      /\ \A d \in Claim : claims[d].rt = r => ~claims[d].conn
      /\ found # {}
      /\ claims' = [claims EXCEPT ![c] =
                      [pc |-> "count", rt |-> r, conn |-> TRUE, cand |-> found,
                       snap |-> {}, got |-> None]]
      /\ UNCHANGED <<rowVars, agentVars, runtimeVars, enqueues, exec>>

(* Variant: off by one. *)
HasRoomOrFull(a) == Cardinality(RunningTasks(a)) <= MaxConcurrent[a]

HasCapacity(a) == Cardinality(RunningTasks(a)) < MaxConcurrent[a]

ClaimCount(c) ==
  /\ claims[c].pc = "count"
  /\ \E a \in Agent :
       /\ Tries(c, a)
       /\ IF HasCapacity(a)
            THEN claims' = [claims EXCEPT ![c].pc = "select"]
            ELSE NextAgent(c, a)
  /\ UNCHANGED <<rowVars, agentVars, runtimeVars, enqueues, exec>>

(* The NOT EXISTS of ClaimAgentTask: rows on one issue, on one chat session, *)
(* or without any link are served one at a time per agent.                   *)
Serialized(t, u) ==
  /\ tq[u].agent = tq[t].agent
  /\ \/ tq[t].subj \in Issue \cup Chat /\ tq[u].subj = tq[t].subj
     \/ tq[t].subj \in Unlinked /\ tq[u].subj \in Unlinked

(* Variant: a running task does not hold the next one back. *)
ClaimableBesideRunning(t, a) ==
  /\ Queued(t)
  /\ tq[t].agent = a
  /\ ~\E u \in Task : tq[u].st = "dispatched" /\ Serialized(t, u)

Claimable(t, a) ==
  /\ Queued(t)
  /\ tq[t].agent = a
  /\ ~\E u \in Task : Active(u) /\ Serialized(t, u)

(* The snapshot ClaimAgentTask runs on. *)
ClaimSelect(c) ==
  /\ claims[c].pc = "select"
  /\ \E a \in Agent :
       /\ Tries(c, a)
       /\ LET found == {t \in Task : Claimable(t, a)}
          IN  IF found = {} THEN NextAgent(c, a)
              ELSE claims' = [claims EXCEPT ![c].pc = "lock", ![c].snap = found]
  /\ UNCHANGED <<rowVars, agentVars, runtimeVars, enqueues, exec>>

(* Variant: the locked row is not read again. *)
Snapshot(c) == claims[c].snap

(* The row lock: the first row of the snapshot that is still queued is       *)
(* dispatched; only its own status is read again.                            *)
StillQueued(c) == {t \in claims[c].snap : Queued(t)}

ClaimDispatch(c, t) ==
  /\ claims[c].pc = "lock"
  /\ First(StillQueued(c), t)
  /\ tq' = [tq EXCEPT ![t].st = "dispatched"]
  /\ IF tq[t].rt = claims[c].rt
       THEN claims' = [claims EXCEPT ![c] =
                         [pc |-> "reply", rt |-> claims[c].rt, conn |-> claims[c].conn,
                          cand |-> {}, snap |-> {}, got |-> t]]
       ELSE NextAgent(c, tq[t].agent)   \* another runtime's row: dropped
  /\ UNCHANGED <<agentVars, runtimeVars, enqueues, retries, exec>>

ClaimLostRace(c) ==
  /\ claims[c].pc = "lock"
  /\ StillQueued(c) = {}
  /\ \E a \in Agent : Tries(c, a) /\ NextAgent(c, a)
  /\ UNCHANGED <<rowVars, agentVars, runtimeVars, enqueues, exec>>

(* The task's workspace, which daemon calls about it must resolve: it comes  *)
(* from the issue, the chat session, the run or the quick-create context.    *)
HasWorkspace(t) == tq[t].subj # Orphan

(* The reply reaches the daemon, which spawns handleTask. *)
ClaimReply(c) ==
  /\ claims[c].pc = "reply"
  /\ claims[c].conn
  /\ HasWorkspace(claims[c].got)
  /\ exec' = [exec EXCEPT ![claims[c].got] = "got"]
  /\ claims' = [claims EXCEPT ![c] = IdleClaim]
  /\ UNCHANGED <<rowVars, agentVars, runtimeVars, enqueues>>

(* The workspace isolation check fails: the handler cancels the row it has   *)
(* just dispatched.                                                          *)
ClaimForeign(c) ==
  /\ claims[c].pc = "reply"
  /\ ~HasWorkspace(claims[c].got)
  /\ tq' = IF Live(claims[c].got)
             THEN [tq EXCEPT ![claims[c].got].st = "cancelled"] ELSE tq
  /\ claims' = [claims EXCEPT ![c] = IdleClaim]
  /\ UNCHANGED <<agentVars, runtimeVars, enqueues, retries, exec>>

(* The client times out or goes away; the server may or may not finish. *)
ClaimDisconnect(c) ==
  /\ claims[c].conn
  /\ claims' = [claims EXCEPT ![c].conn = FALSE]
  /\ UNCHANGED <<rowVars, agentVars, runtimeVars, enqueues, exec>>

ClaimAbort(c) ==
  /\ claims[c].pc # "idle"
  /\ ~claims[c].conn
  /\ claims' = [claims EXCEPT ![c] = IdleClaim]
  /\ UNCHANGED <<rowVars, agentVars, runtimeVars, enqueues, exec>>

-----------------------------------------------------------------------------
(* The daemon's side of a task: handleTask.                                  *)

Exec == {"no", "got", "run", "giveup"}

FinishExec(t) == exec' = [exec EXCEPT ![t] = "no"]

(* StartAgentTask, and its reply received. *)
StartTask(t) ==
  /\ exec[t] = "got"
  /\ HasWorkspace(t)
  /\ tq[t].st = "dispatched"
  /\ tq' = [tq EXCEPT ![t].st = "running"]
  /\ exec' = [exec EXCEPT ![t] = "run"]
  /\ UNCHANGED <<agentVars, runtimeVars, enqueues, claims, retries>>

(* The row is no longer dispatched, or the call or its reply is lost: the    *)
(* daemon sees an error and reports agent_error without running the agent.   *)
StartTaskError(t) ==
  /\ exec[t] = "got"
  /\ \/ UNCHANGED tq
     \/ /\ HasWorkspace(t)
        /\ tq[t].st = "dispatched"
        /\ tq' = [tq EXCEPT ![t].st = "running"]
  /\ exec' = [exec EXCEPT ![t] = "giveup"]
  /\ UNCHANGED <<agentVars, runtimeVars, enqueues, claims, retries>>

(* MaybeRetryFailedTask checks the row as the failing UPDATE returned it:    *)
(* the decision belongs to the moment of the failure, the INSERT comes later *)
(* (rows of a correlated run, which are never retried, are not modelled).    *)
RetryableReasons == {"runtime_offline", "runtime_recovery", "timeout",
                     "api_unavailable"}

(* Variant: one attempt too many. *)
RetryableOnceMore(t, reason) ==
  /\ reason \in RetryableReasons
  /\ tq[t].att <= MaxAttempts
  /\ tq[t].subj \in Issue \cup Chat

Retryable(t, reason) ==
  /\ reason \in RetryableReasons
  /\ tq[t].att < MaxAttempts
  /\ tq[t].subj \in Issue \cup Chat

(* The rows that one UPDATE fails, and those of them that will be retried. *)
FailRows(S, reason) ==
  /\ tq' = WithStatus(S, "failed", reason)
  /\ retries' = retries \cup {t \in S : Retryable(t, reason)}

(* Variant: whatever the row's status. *)
FailAnyTask(t, reason) == FailRows({t}, reason)

(* FailAgentTask: a row that is already final is left alone. *)
FailTask(t, reason) ==
  FailRows({u \in {t} : Active(u) /\ HasWorkspace(u)}, reason)

(* A report of failure: of the agent, of the API, or of a start that failed. *)
(* The call may be lost, and nobody repeats it.                              *)
ReportFailure(t) ==
  /\ exec[t] \in {"run", "giveup"}
  /\ \/ \E reason \in {"agent_error", "api_unavailable"} :
          (exec[t] = "giveup" => reason = "agent_error") /\ FailTask(t, reason)
     \/ UNCHANGED rowVars
  /\ FinishExec(t)
  /\ UNCHANGED <<agentVars, runtimeVars, enqueues, claims>>

(* CompleteAgentTask, else ReviveRuntimeOfflineTask, else nothing. *)
Completable(t) ==
  /\ HasWorkspace(t)
  /\ \/ tq[t].st = "running"
     \/ tq[t].st = "failed" /\ tq[t].reason = "runtime_offline"

CompleteTask(t) ==
  tq' = IF Completable(t) THEN WithStatus({t}, "completed", "none") ELSE tq

(* A report of completion.  When the call or its reply is lost the daemon    *)
(* falls back to reporting a failure of a row that may be completed already. *)
ReportCompletion(t) ==
  /\ exec[t] = "run"
  /\ \/ CompleteTask(t) /\ FinishExec(t)
     \/ /\ CompleteTask(t) \/ UNCHANGED tq
        /\ exec' = [exec EXCEPT ![t] = "giveup"]
  /\ UNCHANGED <<agentVars, runtimeVars, enqueues, claims, retries>>

(* shouldInterruptAgent: only a cancelled row, or one the server no longer   *)
(* finds a workspace for (a 404), stops the agent.                           *)
Interrupt(t) ==
  /\ exec[t] = "run"
  /\ tq[t].st = "cancelled" \/ ~HasWorkspace(t)
  /\ FinishExec(t)
  /\ UNCHANGED <<rowVars, agentVars, runtimeVars, enqueues, claims>>

-----------------------------------------------------------------------------
(* Cancellation: one UPDATE over the live rows of a scope. *)

CancelRows(S) ==
  /\ \E t \in S : Live(t)
  /\ tq' = [t \in Task |-> IF t \in S /\ Live(t)
                             THEN [tq[t] EXCEPT !.st = "cancelled"] ELSE tq[t]]

CancelTask(t) ==
  /\ CancelRows({t})
  /\ UNCHANGED <<agentVars, runtimeVars, enqueues, claims, retries, exec>>

OfIssue(i) == {t \in Task : tq[t].subj = i}

CancelTasksForIssue(i) ==
  /\ CancelRows(OfIssue(i))
  /\ UNCHANGED <<agentVars, runtimeVars, enqueues, claims, retries, exec>>

(* Reassignment, and the first half of RerunIssue (the second is an enqueue). *)
CancelTasksForIssueAgent(i, a) ==
  /\ CancelRows({t \in OfIssue(i) : tq[t].agent = a})
  /\ UNCHANGED <<agentVars, runtimeVars, enqueues, claims, retries, exec>>

CancelTasksForAgent(a) ==
  /\ CancelRows({t \in Task : tq[t].agent = a})
  /\ UNCHANGED <<agentVars, runtimeVars, enqueues, claims, retries, exec>>

(* The rows of an issue that one comment triggered: any of them. *)
CancelTasksByTriggerComment(i) ==
  /\ \E S \in SUBSET OfIssue(i) : CancelRows(S)
  /\ UNCHANGED <<agentVars, runtimeVars, enqueues, claims, retries, exec>>

(* DeleteChatSession, one transaction: cancel the session's live rows, delete *)
(* it, and let ON DELETE SET NULL unlink every row it had.                    *)
DeleteChatSession(k) ==
  /\ k \in chats
  /\ chats' = chats \ {k}
  /\ tq' = [t \in Task |->
              IF tq[t].subj # k THEN tq[t]
              ELSE [tq[t] EXCEPT !.subj = Orphan,
                                 !.st = IF Live(t) THEN "cancelled" ELSE @]]
  /\ UNCHANGED <<agentRt, archived, runtimeVars, enqueues, claims, retries, exec>>

-----------------------------------------------------------------------------
(* Agents *)

(* ArchiveAgent sets archived_at and then, in another statement, cancels the *)
(* agent's live rows: CancelTasksForAgent may run any time later.            *)
ArchiveAgent(a) ==
  /\ a \notin archived
  /\ archived' = archived \cup {a}
  /\ UNCHANGED <<rowVars, agentRt, chats, runtimeVars, enqueues, claims, exec>>

RestoreAgent(a) ==
  /\ a \in archived
  /\ archived' = archived \ {a}
  /\ UNCHANGED <<rowVars, agentRt, chats, runtimeVars, enqueues, claims, exec>>

(* UpdateAgent with a runtime_id: the agent's queued rows stay where they are. *)
MoveAgent(a, r) ==
  /\ agentRt[a] # r
  /\ agentRt' = [agentRt EXCEPT ![a] = r]
  /\ UNCHANGED <<rowVars, archived, chats, runtimeVars, enqueues, claims, exec>>

-----------------------------------------------------------------------------
(* Failure: the sweepers, orphan recovery and the retry that follows.        *)

(* MarkRuntimesOfflineByIDs.  A runtime the sweep picks may be alive: its    *)
(* heartbeats may have been cut off, not its process.                        *)
SweepRuntimes(S) ==
  /\ sweep = "idle"
  /\ S # {}
  /\ S \subseteq online
  /\ online' = online \ S
  /\ sweep' = "fail"
  /\ UNCHANGED <<rowVars, agentVars, daemon, enqueues, claims, exec>>

(* FailTasksForOfflineRuntimes: the rows of every runtime that is offline by *)
(* then, not only of those this tick has swept.                              *)
SweepTasks ==
  /\ sweep = "fail"
  /\ FailRows({t \in Task : Active(t) /\ tq[t].rt \notin online}, "runtime_offline")
  /\ sweep' = "idle"
  /\ UNCHANGED <<agentVars, online, daemon, enqueues, claims, exec>>

(* Variant: running rows never time out. *)
OverdueDispatch(t) == tq[t].st = "dispatched"

(* FailStaleTasks: rows dispatched for 300 s, or running with no sign of life *)
(* for 9000 s.  Time is not modelled: a daemon may be cut off for that long   *)
(* and go on executing, so any active row may be overdue.                     *)
Overdue(t) == Active(t)

SweepStaleTasks(S) ==
  /\ S # {}
  /\ \A t \in S : Overdue(t)
  /\ FailRows(S, "timeout")
  /\ UNCHANGED <<agentVars, runtimeVars, enqueues, claims, exec>>

(* CreateRetryTask clones the parent row, as it is by now, into a new queued *)
(* attempt; the unique index may refuse it, and then there is no retry.      *)
RetryRow(t) == [st |-> "queued", agent |-> tq[t].agent, subj |-> tq[t].subj,
                rt |-> tq[t].rt, prio |-> tq[t].prio, att |-> tq[t].att + 1,
                reason |-> "none", parent |-> t]

CreateRetryTask(t, u) ==
  /\ t \in retries
  /\ IndexAllows(tq[t].agent, tq[t].subj)
  /\ IsNextId(u)
  /\ Insert(u, RetryRow(t))
  /\ retries' = retries \ {t}
  /\ UNCHANGED <<agentVars, runtimeVars, enqueues, claims, exec>>

RetryRefused(t) ==
  /\ t \in retries
  /\ ~IndexAllows(tq[t].agent, tq[t].subj)
  /\ retries' = retries \ {t}
  /\ UNCHANGED <<tq, agentVars, runtimeVars, enqueues, claims, exec>>

-----------------------------------------------------------------------------
(* Runtimes and daemons *)

OnRuntime(r) == {t \in Task : tq[t].rt = r}

Disconnected(r) ==
  [c \in Claim |-> IF claims[c].rt = r THEN [claims[c] EXCEPT !.conn = FALSE]
                   ELSE claims[c]]

Heartbeat(r) ==
  /\ daemon[r] = "up"
  /\ r \notin online
  /\ online' = online \cup {r}
  /\ UNCHANGED <<rowVars, agentVars, sweep, daemon, enqueues, claims, exec>>

(* The daemon's process ends, and its executions with it: a crash, or a      *)
(* shutdown that also deregisters its runtimes.  Deregistration fails no row. *)
DaemonStop(r) ==
  /\ daemon[r] # "down" \/ \E t \in OnRuntime(r) : exec[t] # "no"
  /\ daemon' = [daemon EXCEPT ![r] = "down"]
  /\ exec' = [t \in Task |-> IF t \in OnRuntime(r) THEN "no" ELSE exec[t]]
  /\ claims' = Disconnected(r)
  /\ online' \in {online, online \ {r}}
  /\ UNCHANGED <<rowVars, agentVars, sweep, enqueues>>

(* The workspace leaves the daemon's watch list: polling ends, while the     *)
(* agents it has started run on.                                             *)
DaemonUnwatch(r) ==
  /\ daemon[r] = "up"
  /\ daemon' = [daemon EXCEPT ![r] = "down"]
  /\ claims' = Disconnected(r)
  /\ UNCHANGED <<rowVars, agentVars, online, sweep, enqueues, exec>>

(* A start of the daemon, or a workspace back on its watch list. *)
DaemonRegister(r) ==
  /\ daemon[r] = "down"
  /\ daemon' = [daemon EXCEPT ![r] = "starting"]
  /\ online' = online \cup {r}
  /\ UNCHANGED <<rowVars, agentVars, sweep, enqueues, claims, exec>>

(* RecoverOrphanedTasksForRuntime, before the first poll; a call that fails  *)
(* is logged and not repeated.                                               *)
RecoverOrphans(r) ==
  /\ daemon[r] = "starting"
  /\ daemon' = [daemon EXCEPT ![r] = "up"]
  /\ \/ FailRows({t \in OnRuntime(r) : Active(t)}, "runtime_recovery")
     \/ UNCHANGED rowVars
  /\ UNCHANGED <<agentVars, online, sweep, enqueues, claims, exec>>

(* The server process restarts: every request in progress dies with it, and  *)
(* with them the retries decided but not inserted.                           *)
ServerRestart ==
  /\ enqueues' = [q \in Request |-> None]
  /\ claims' = [c \in Claim |-> IdleClaim]
  /\ retries' = {}
  /\ sweep' = "idle"
  /\ UNCHANGED <<tq, agentVars, online, daemon, exec>>

-----------------------------------------------------------------------------
Init ==
  /\ tq = [t \in Task |-> AbsentRow]
  /\ agentRt = HomeRuntime
  /\ archived = {}
  /\ chats = Chat
  /\ enqueues = [q \in Request |-> None]
  /\ claims = [c \in Claim |-> IdleClaim]
  /\ retries = {}
  /\ online = {}
  /\ sweep = "idle"
  /\ daemon = [r \in Runtime |-> "down"]
  /\ exec = [t \in Task |-> "no"]

EnqueueNext ==
  \E q \in Request :
    \/ \E a \in Agent, k \in Work : EnqueueRead(q, a, k)
    \/ \E t \in Task : EnqueueInsert(q, t)
    \/ EnqueueRefused(q)

ClaimNext ==
  \E c \in Claim :
    \/ \E r \in Runtime : ClaimList(c, r)
    \/ \E t \in Task : ClaimDispatch(c, t)
    \/ ClaimCount(c) \/ ClaimSelect(c) \/ ClaimLostRace(c)
    \/ ClaimReply(c) \/ ClaimForeign(c) \/ ClaimDisconnect(c) \/ ClaimAbort(c)

TaskNext ==
  \E t \in Task :
    \/ StartTask(t) \/ StartTaskError(t)
    \/ ReportFailure(t) \/ ReportCompletion(t) \/ Interrupt(t)
    \/ RetryRefused(t)
    \/ \E u \in Task : CreateRetryTask(t, u)

(* What users do: cancel, delete, archive, move, unwatch. *)
UserNext ==
  \/ \E t \in Task : CancelTask(t)
  \/ \E i \in Issue : CancelTasksForIssue(i) \/ CancelTasksByTriggerComment(i)
  \/ \E i \in Issue, a \in Agent : CancelTasksForIssueAgent(i, a)
  \/ \E k \in Chat : DeleteChatSession(k)
  \/ \E a \in Agent : ArchiveAgent(a) \/ RestoreAgent(a) \/ CancelTasksForAgent(a)
  \/ \E a \in Agent, r \in Runtime : MoveAgent(a, r)
  \/ \E r \in Runtime : DaemonUnwatch(r)

RuntimeNext ==
  \/ \E S \in SUBSET Runtime : SweepRuntimes(S)
  \/ SweepTasks
  \/ \E S \in SUBSET Task : SweepStaleTasks(S)
  \/ \E r \in Runtime : \/ Heartbeat(r) \/ DaemonStop(r)
                        \/ DaemonRegister(r) \/ RecoverOrphans(r)
  \/ ServerRestart

Next == EnqueueNext \/ ClaimNext \/ TaskNext \/ UserNext \/ RuntimeNext

Spec == Init /\ [][Next]_vars

(* The sweeper runs on a ticker and gives up on every row that stays overdue; *)
(* a started server goroutine and a handed-out task take their next step; a   *)
(* poller polls again.  Nothing makes a user, a fault or a start of a daemon  *)
(* happen.                                                                    *)
Fairness ==
  /\ \A t \in Task :
       /\ WF_vars(\E S \in SUBSET Task : t \in S /\ SweepStaleTasks(S))
       /\ WF_vars(StartTask(t) \/ StartTaskError(t))
       /\ WF_vars(ReportFailure(t) \/ ReportCompletion(t) \/ Interrupt(t))
  /\ \A r \in Runtime : WF_vars(\E c \in Claim : ClaimList(c, r))
  /\ \A c \in Claim :
       /\ WF_vars(ClaimCount(c) \/ ClaimSelect(c) \/ ClaimLostRace(c))
       /\ WF_vars(\E t \in Task : ClaimDispatch(c, t))
       /\ WF_vars(ClaimReply(c) \/ ClaimForeign(c) \/ ClaimAbort(c))

FairSpec == Spec /\ Fairness

-----------------------------------------------------------------------------
(* What the queue promises *)

TypeOK ==
  /\ tq \in [Task -> Row]
  /\ agentRt \in [Agent -> Runtime]
  /\ archived \subseteq Agent
  /\ chats \subseteq Chat
  /\ enqueues \in [Request -> Enqueue \cup {None}]
  /\ claims \in [Claim -> ClaimState]
  /\ retries \subseteq Task
  /\ online \subseteq Runtime
  /\ sweep \in {"idle", "fail"}
  /\ daemon \in [Runtime -> {"down", "starting", "up"}]
  /\ exec \in [Task -> Exec]

(* Work of one agent on one issue. *)
SamePair(t, u) ==
  /\ tq[t].subj \in Issue
  /\ tq[t].subj = tq[u].subj
  /\ tq[t].agent = tq[u].agent

(* The agents of an issue work on it one task at a time each: no two rows of *)
(* one (issue, agent) pair are dispatched or running together, although the  *)
(* claim decides on a snapshot and re-reads only the status of the row it    *)
(* locks (ClaimAgentTask with idx_one_pending_task_per_issue_agent).         *)
OneActivePerIssueAgent ==
  \A t, u \in Task : Active(t) /\ Active(u) /\ SamePair(t, u) => t = u

(* Why it holds.  A row that waits excludes every other pending row of its    *)
(* pair, and a row that some claim's snapshot has found claimable stays so    *)
(* for as long as it waits: work of its pair can only become active by way of *)
(* that very row.  Hence a claim may dispatch on a stale snapshot.            *)
PendingUnique ==
  \A t, u \in Task : Pending(t) /\ Pending(u) /\ SamePair(t, u) => t = u

SnapshotHolds ==
  \A c \in Claim : \A t \in claims[c].snap :
    /\ tq[t].st # "absent"
    /\ Queued(t) => ~\E u \in Task : Active(u) /\ SamePair(t, u)

IssueInv == PendingUnique /\ SnapshotHolds /\ OneActivePerIssueAgent

(* max_concurrent_tasks is overshot by at most one task for each further     *)
(* claim request in flight: ClaimTask counts and dispatches in two           *)
(* statements, so this is all its check guarantees.                          *)
ActiveBounded ==
  \A a \in Agent :
    Cardinality(RunningTasks(a)) + 1 <= MaxConcurrent[a] + Cardinality(Claim)

(* Why it holds.  A claim request that has counted and not dispatched yet has *)
(* its place among the agent's tasks, and what it may dispatch is a row of    *)
(* the very agent it has counted for.                                         *)
Admitted(a) == {c \in Claim : claims[c].pc \in {"select", "lock"} /\ Tries(c, a)}

CapacityInv ==
  /\ \A c \in Claim :
       /\ \A t \in claims[c].cand \cup claims[c].snap : tq[t].st # "absent"
       /\ claims[c].pc = "lock" => \A t \in claims[c].snap : Tries(c, tq[t].agent)
  /\ \A a \in Agent :
       Cardinality(RunningTasks(a)) + Cardinality(Admitted(a)) + 1
         <= MaxConcurrent[a] + Cardinality(Claim)

(* A dispatched task is handed out once: at most one claim reply carries it, *)
(* no reply carries a task a daemon already holds, and no task in anybody's  *)
(* hands is back in the queue (ClaimAgentTask with SKIP LOCKED).             *)
HandedOutOnce ==
  \A c \in Claim : claims[c].pc = "reply" =>
    /\ exec[claims[c].got] = "no"
    /\ ~Queued(claims[c].got)
    /\ \A d \in Claim : claims[d].pc = "reply" /\ claims[d].got = claims[c].got => c = d

(* Why it holds: a row in anybody's hands has left the queue for good. *)
HandoutInv ==
  /\ \A t \in Task : exec[t] # "no" => tq[t].st \notin {"absent", "queued"}
  /\ \A c \in Claim : claims[c].pc = "reply" =>
       /\ claims[c].got \in Task
       /\ tq[claims[c].got].st # "absent"
  /\ HandedOutOnce

(* Automatic retries form chains within the attempt budget: a retry repeats  *)
(* its parent's work for the same agent, its parent is final, and no task is *)
(* retried twice, whoever reported its failure (MaybeRetryFailedTask).       *)
RetryChain ==
  \A t \in Task : tq[t].parent # None =>
    LET p == tq[t].parent
    IN  /\ tq[p].st \in {"failed", "completed"}
        /\ p < t
        /\ tq[t].att = tq[p].att + 1
        /\ tq[t].att <= MaxAttempts
        /\ tq[t].agent = tq[p].agent
        /\ \A u \in Task : tq[u].parent = p => u = t

(* Why it holds: a failure to be retried is final, has an attempt left, and   *)
(* has no retry yet.                                                          *)
RetryInv ==
  /\ \A t \in Task : tq[t].st = "absent" => tq[t].parent = None
  /\ \A p \in retries :
       /\ tq[p].st \in {"failed", "completed"}
       /\ tq[p].att < MaxAttempts
       /\ \A t \in Task : tq[t].parent # p
  /\ RetryChain

(* A final row stays as it is, whatever late report, sweep or cancel arrives; *)
(* the one exception is a runtime_offline verdict that a daemon's completion  *)
(* overturns (ReviveRuntimeOfflineTask).                                      *)
FinalStays ==
  [][\A t \in Task : Terminal(t) =>
       \/ tq'[t].st = tq[t].st /\ tq'[t].reason = tq[t].reason
       \/ /\ tq[t].st = "failed" /\ tq[t].reason = "runtime_offline"
          /\ tq'[t].st = "completed"]_vars

(* A deleted chat session leaves no work behind: enqueues and retries of it   *)
(* may be under way and claims may have dispatched its rows, yet no row names *)
(* it any more, the only live rows that were of it are retries inserted since *)
(* then, and none of them runs (DeleteChatSession with its row lock, and the  *)
(* workspace check of ClaimTaskByRuntime).                                    *)
DeletedChatIdle ==
  \A t \in Task :
    /\ tq[t].subj \in Chat => tq[t].subj \in chats
    /\ tq[t].subj = Orphan /\ Live(t) => tq[t].parent # None /\ tq[t].st # "running"

(* Why it holds: no enqueue request is about a deleted session either; the    *)
(* insert checks the foreign key of the rest.                                 *)
ChatInv ==
  /\ DeletedChatIdle
  /\ \A q \in Request : enqueues[q] # None => enqueues[q].subj # Orphan

(* Work in a daemon's hands ends: whatever reports are lost, daemons crash or *)
(* runtimes stay offline, no row is dispatched or running for good            *)
(* (FailStaleTasks with its two timeouts).                                    *)
NoStuckTask == \A t \in Task : Active(t) ~> Terminal(t)

(* A waiting row is served: while the daemon of its runtime stays up and the  *)
(* claim requests get through, it leaves the queue, whatever runs before it   *)
(* (ClaimTaskForRuntime tries every agent with a candidate row).              *)
Undisturbed(r) ==
  /\ <>[](daemon[r] = "up")
  /\ <>[][~ \/ ServerRestart
            \/ \E c \in Claim : ClaimDisconnect(c)]_vars

QueuedServed ==
  \A r \in Runtime :
    Undisturbed(r) => \A t \in Task : (Queued(t) /\ tq[t].rt = r) ~> ~Queued(t)

(* The queue of issue work as CoalescingQueue tells it: for each agent and    *)
(* issue one slot of pending work, offered only while none is in progress,    *)
(* through every interleaving of enqueues, claims, reports, sweeps, retries   *)
(* and cancellations (idx_one_pending_task_per_issue_agent, ClaimAgentTask).  *)
HasRow(k, st) ==
  \E t \in Task : tq[t].st = st /\ tq[t].agent = k[1] /\ tq[t].subj = k[2]

SlotOf(k) == IF HasRow(k, "dispatched") THEN "offered"
             ELSE IF HasRow(k, "queued") THEN "waiting" ELSE "free"

Queue == INSTANCE CoalescingQueue WITH
           Key  <- Agent \X Issue,
           slot <- [k \in Agent \X Issue |-> SlotOf(k)],
           busy <- [k \in Agent \X Issue |-> HasRow(k, "running")]

Coalesces == Queue!Spec

-----------------------------------------------------------------------------
(* What the code says of itself and does not keep *)

(* "ClaimTask atomically claims the next queued task for an agent, respecting *)
(* max_concurrent_tasks" (service/task.go): but it counts in one statement    *)
(* and dispatches in another.                                                 *)
MaxConcurrentRespected ==
  \A a \in Agent : Cardinality(RunningTasks(a)) <= MaxConcurrent[a]

(* "Chat tasks (issue_id IS NULL) use chat_session_id for serialization"      *)
(* (ClaimAgentTask): but nothing like the unique index keeps two queued rows  *)
(* of one session apart, and two claims may each pick one.                    *)
ChatSerialized ==
  \A t, u \in Task :
    /\ Active(t) /\ Active(u)
    /\ tq[t].subj \in Chat /\ tq[t].subj = tq[u].subj
    /\ tq[t].agent = tq[u].agent
    => t = u

(* "preventing a single agent from running duplicate tasks" (ClaimAgentTask): *)
(* but the daemon goes on with a task the sweeper has failed, and may be      *)
(* handed the retry, or a new task of the same issue, beside it.              *)
NoDuplicateRuns ==
  \A t, u \in Task :
    /\ exec[t] = "run" /\ exec[u] = "run"
    /\ tq[t].subj \in Issue /\ tq[t].subj = tq[u].subj
    /\ tq[t].agent = tq[u].agent
    => t = u

=============================================================================
