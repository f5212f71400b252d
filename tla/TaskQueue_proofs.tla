-------------------------- MODULE TaskQueue_proofs --------------------------
(***************************************************************************)
(* Proofs about TaskQueue, for every number of rows, agents, runtimes,     *)
(* issues, chat sessions and concurrent requests.                          *)
(***************************************************************************)
EXTENDS TaskQueue, TLAPS

-----------------------------------------------------------------------------
(* Types *)

(* What the updates of tq are made of: each leaves a table of rows. *)
LEMMA WithStatusType ==
  ASSUME tq \in [Task -> Row], NEW S, NEW st \in Status, NEW reason \in Reason
  PROVE  WithStatus(S, st, reason) \in [Task -> Row]
BY DEF WithStatus, Row

LEMMA StatusType ==
  ASSUME tq \in [Task -> Row], NEW t \in Task, NEW st \in Status
  PROVE  [tq EXCEPT ![t].st = st] \in [Task -> Row]
BY DEF Row

(* The same when the updated row need not exist. *)
LEMMA CancelOneType ==
  ASSUME tq \in [Task -> Row], NEW t
  PROVE  [tq EXCEPT ![t].st = "cancelled"] \in [Task -> Row]
<1>1. CASE t \in Task
  BY <1>1, StatusType DEF Status
<1>2. CASE t \notin Task
  BY <1>2
<1> QED BY <1>1, <1>2

LEMMA FailRowsType ==
  ASSUME TypeOK, NEW S \in SUBSET Task, NEW reason \in Reason,
         FailRows(S, reason)
  PROVE  tq' \in [Task -> Row] /\ retries' \subseteq Task
<1>1. tq' \in [Task -> Row]
  BY WithStatusType DEF FailRows, TypeOK, Status
<1>2. retries' \subseteq Task
  BY DEF FailRows, TypeOK
<1> QED BY <1>1, <1>2

LEMMA CancelRowsType ==
  ASSUME TypeOK, NEW S \in SUBSET Task, CancelRows(S)
  PROVE  tq' \in [Task -> Row]
BY DEF CancelRows, TypeOK, Row, Status

LEMMA NextAgentType ==
  ASSUME TypeOK, NEW c \in Claim, NEW a, NextAgent(c, a)
  PROVE  claims' \in [Claim -> ClaimState]
<1> DEFINE rest == {t \in claims[c].cand : tq[t].agent # a}
           next == IF rest = {} THEN IdleClaim
                   ELSE [claims[c] EXCEPT !.pc = "count", !.cand = rest, !.snap = {}]
<1>1. claims[c] \in ClaimState
  BY DEF TypeOK
<1>2. rest \subseteq Task
  BY <1>1 DEF ClaimState
<1>3. next \in ClaimState
  <2> HIDE DEF rest
  <2> QED BY <1>1, <1>2 DEF IdleClaim, ClaimState
<1>4. claims' = [claims EXCEPT ![c] = next]
  BY DEF NextAgent
<1> HIDE DEF next
<1> QED BY <1>3, <1>4 DEF TypeOK

LEMMA DisconnectedType ==
  ASSUME TypeOK, NEW r PROVE Disconnected(r) \in [Claim -> ClaimState]
<1>1. ASSUME NEW x \in ClaimState PROVE [x EXCEPT !.conn = FALSE] \in ClaimState
  BY <1>1 DEF ClaimState
<1>2. \A c \in Claim : claims[c] \in ClaimState
  BY DEF TypeOK
<1> QED BY <1>1, <1>2 DEF Disconnected

LEMMA InitType == ASSUME Init PROVE TypeOK
BY ConfigAssumption
   DEF Init, TypeOK, AbsentRow, Row, Status, Reason, IdleClaim, ClaimState, Exec

LEMMA EnqueueType == ASSUME TypeOK, EnqueueNext PROVE TypeOK'
<1> SUFFICES ASSUME NEW q \in Request,
                    \/ \E a \in Agent, k \in Work : EnqueueRead(q, a, k)
                    \/ \E t \in Task : EnqueueInsert(q, t)
                    \/ EnqueueRefused(q)
             PROVE  TypeOK'
  BY DEF EnqueueNext
<1>1. ASSUME NEW a \in Agent, NEW k \in Work, EnqueueRead(q, a, k) PROVE TypeOK'
  BY <1>1, SubjectAssumption
     DEF EnqueueRead, TypeOK, Enqueue, rowVars, agentVars, runtimeVars
<1>2. ASSUME NEW t \in Task, EnqueueInsert(q, t) PROVE TypeOK'
  <2>1. enqueues[q] \in Enqueue
    BY <1>2 DEF EnqueueInsert, TypeOK
  <2>2. NewRow(enqueues[q]) \in Row
    BY <2>1, ConfigAssumption DEF NewRow, Enqueue, Row, Status, Reason
  <2>3. tq' \in [Task -> Row]
    BY <1>2, <2>2 DEF EnqueueInsert, Insert, TypeOK
  <2> QED BY <1>2, <2>3 DEF EnqueueInsert, TypeOK, agentVars, runtimeVars
<1>3. ASSUME EnqueueRefused(q) PROVE TypeOK'
  BY <1>3 DEF EnqueueRefused, TypeOK, rowVars, agentVars, runtimeVars
<1> QED BY <1>1, <1>2, <1>3
LEMMA ClaimType == ASSUME TypeOK, ClaimNext PROVE TypeOK'
<1> SUFFICES ASSUME NEW c \in Claim,
                    \/ \E r \in Runtime : ClaimList(c, r)
                    \/ \E t \in Task : ClaimDispatch(c, t)
                    \/ ClaimCount(c) \/ ClaimSelect(c) \/ ClaimLostRace(c)
                    \/ ClaimReply(c) \/ ClaimForeign(c)
                    \/ ClaimDisconnect(c) \/ ClaimAbort(c)
             PROVE  TypeOK'
  BY DEF ClaimNext
<1> USE DEF rowVars, agentVars, runtimeVars
<1>0. claims[c] \in ClaimState
  BY DEF TypeOK
<1>1. ASSUME NEW r \in Runtime, ClaimList(c, r) PROVE TypeOK'
  <2>1. claims' \in [Claim -> ClaimState]
    BY <1>1, <1>0 DEF ClaimList, TypeOK, ClaimState
  <2> QED BY <1>1, <2>1 DEF ClaimList, TypeOK
<1>2. ASSUME NEW t \in Task, ClaimDispatch(c, t) PROVE TypeOK'
  <2>1. tq' \in [Task -> Row]
    BY <1>2, StatusType DEF ClaimDispatch, TypeOK, Status
  <2>2. claims' \in [Claim -> ClaimState]
    <3>1. CASE tq[t].rt = claims[c].rt
      BY <1>2, <1>0, <3>1 DEF ClaimDispatch, TypeOK, ClaimState
    <3>2. CASE tq[t].rt # claims[c].rt
      BY <1>2, <3>2, NextAgentType DEF ClaimDispatch
    <3> QED BY <3>1, <3>2
  <2> QED BY <1>2, <2>1, <2>2 DEF ClaimDispatch, TypeOK
<1>3. ASSUME ClaimCount(c) PROVE TypeOK'
  <2>1. claims' \in [Claim -> ClaimState]
    <3>1. ASSUME claims' = [claims EXCEPT ![c].pc = "select"]
          PROVE  claims' \in [Claim -> ClaimState]
      BY <3>1, <1>0 DEF TypeOK, ClaimState
    <3> QED BY <1>3, <3>1, NextAgentType DEF ClaimCount
  <2> QED BY <1>3, <2>1 DEF ClaimCount, TypeOK
<1>4. ASSUME ClaimSelect(c) PROVE TypeOK'
  <2>1. claims' \in [Claim -> ClaimState]
    <3>1. ASSUME NEW found \in SUBSET Task,
                 claims' = [claims EXCEPT ![c].pc = "lock", ![c].snap = found]
          PROVE  claims' \in [Claim -> ClaimState]
      <4>1. [claims[c] EXCEPT !.pc = "lock", !.snap = found] \in ClaimState
        BY <1>0 DEF ClaimState
      <4>2. claims' = [claims EXCEPT ![c] =
                         [claims[c] EXCEPT !.pc = "lock", !.snap = found]]
        BY <3>1 DEF TypeOK
      <4> QED BY <4>1, <4>2 DEF TypeOK
    <3> QED BY <1>4, <3>1, NextAgentType DEF ClaimSelect
  <2> QED BY <1>4, <2>1 DEF ClaimSelect, TypeOK
<1>5. ASSUME ClaimLostRace(c) PROVE TypeOK'
  <2>1. claims' \in [Claim -> ClaimState]
    BY <1>5, NextAgentType DEF ClaimLostRace
  <2> QED BY <1>5, <2>1 DEF ClaimLostRace, TypeOK
<1>6. IdleClaim \in ClaimState
  BY DEF IdleClaim, ClaimState
<1>7. ASSUME ClaimReply(c) PROVE TypeOK'
  BY <1>7, <1>6 DEF ClaimReply, TypeOK, Exec
<1>8. ASSUME ClaimForeign(c) PROVE TypeOK'
  <2>1. tq' \in [Task -> Row]
    BY <1>8, CancelOneType DEF ClaimForeign, TypeOK
  <2> QED BY <1>8, <1>6, <2>1 DEF ClaimForeign, TypeOK
<1>9. ASSUME ClaimDisconnect(c) PROVE TypeOK'
  BY <1>9, <1>0 DEF ClaimDisconnect, TypeOK, ClaimState
<1>10. ASSUME ClaimAbort(c) PROVE TypeOK'
  BY <1>10, <1>6 DEF ClaimAbort, TypeOK
<1> QED BY <1>1, <1>2, <1>3, <1>4, <1>5, <1>7, <1>8, <1>9, <1>10

LEMMA TaskType == ASSUME TypeOK, TaskNext PROVE TypeOK'
<1> SUFFICES ASSUME NEW t \in Task,
                    \/ StartTask(t) \/ StartTaskError(t)
                    \/ ReportFailure(t) \/ ReportCompletion(t) \/ Interrupt(t)
                    \/ RetryRefused(t)
                    \/ \E u \in Task : CreateRetryTask(t, u)
             PROVE  TypeOK'
  BY DEF TaskNext
<1> USE DEF rowVars, agentVars, runtimeVars
<1>1. ASSUME StartTask(t) PROVE TypeOK'
  <2>1. tq' \in [Task -> Row]
    BY <1>1, StatusType DEF StartTask, TypeOK, Status
  <2> QED BY <1>1, <2>1 DEF StartTask, TypeOK, Exec
<1>2. ASSUME StartTaskError(t) PROVE TypeOK'
  <2>1. tq' \in [Task -> Row]
    <3>1. [tq EXCEPT ![t].st = "running"] \in [Task -> Row]
      BY StatusType DEF TypeOK, Status
    <3> QED BY <1>2, <3>1 DEF StartTaskError, TypeOK
  <2> QED BY <1>2, <2>1 DEF StartTaskError, TypeOK, Exec
<1>3. ASSUME ReportFailure(t) PROVE TypeOK'
  <2>1. tq' \in [Task -> Row] /\ retries' \subseteq Task
    <3>1. ASSUME NEW reason \in {"agent_error", "api_unavailable"}, FailTask(t, reason)
          PROVE  tq' \in [Task -> Row] /\ retries' \subseteq Task
      <4>1. reason \in Reason
        BY DEF Reason
      <4>2. {u \in {t} : Active(u) /\ HasWorkspace(u)} \in SUBSET Task
        OBVIOUS
      <4> QED BY <3>1, <4>1, <4>2, FailRowsType DEF FailTask
    <3> QED BY <1>3, <3>1 DEF ReportFailure, TypeOK
  <2> QED BY <1>3, <2>1 DEF ReportFailure, FinishExec, TypeOK, Exec
<1>4. ASSUME ReportCompletion(t) PROVE TypeOK'
  <2>1. tq' \in [Task -> Row]
    <3>1. WithStatus({t}, "completed", "none") \in [Task -> Row]
      BY WithStatusType DEF TypeOK, Status, Reason
    <3> QED BY <1>4, <3>1 DEF ReportCompletion, CompleteTask, TypeOK
  <2> QED BY <1>4, <2>1 DEF ReportCompletion, FinishExec, TypeOK, Exec
<1>5. ASSUME Interrupt(t) PROVE TypeOK'
  BY <1>5 DEF Interrupt, FinishExec, TypeOK, Exec
<1>6. ASSUME RetryRefused(t) PROVE TypeOK'
  BY <1>6 DEF RetryRefused, TypeOK
<1>7. ASSUME NEW u \in Task, CreateRetryTask(t, u) PROVE TypeOK'
  <2>1. RetryRow(t) \in Row
    <3>1. tq[t] \in Row
      BY DEF TypeOK
    <3> QED BY <3>1 DEF RetryRow, Row, Status, Reason
  <2>2. tq' \in [Task -> Row]
    BY <1>7, <2>1 DEF CreateRetryTask, Insert, TypeOK
  <2> QED BY <1>7, <2>2 DEF CreateRetryTask, TypeOK
<1> QED BY <1>1, <1>2, <1>3, <1>4, <1>5, <1>6, <1>7
LEMMA UserType == ASSUME TypeOK, UserNext PROVE TypeOK'
<1> USE DEF rowVars, agentVars, runtimeVars
<1>1. ASSUME NEW t \in Task, CancelTask(t) PROVE TypeOK'
  <2>1. tq' \in [Task -> Row]
    BY <1>1, CancelRowsType DEF CancelTask
  <2> QED BY <1>1, <2>1 DEF CancelTask, TypeOK
<1>2. ASSUME NEW i \in Issue, CancelTasksForIssue(i) PROVE TypeOK'
  <2>1. tq' \in [Task -> Row]
    BY <1>2, CancelRowsType DEF CancelTasksForIssue, OfIssue
  <2> QED BY <1>2, <2>1 DEF CancelTasksForIssue, TypeOK
<1>3. ASSUME NEW i \in Issue, CancelTasksByTriggerComment(i) PROVE TypeOK'
  <2>1. tq' \in [Task -> Row]
    BY <1>3, CancelRowsType DEF CancelTasksByTriggerComment, OfIssue
  <2> QED BY <1>3, <2>1 DEF CancelTasksByTriggerComment, TypeOK
<1>4. ASSUME NEW i \in Issue, NEW a \in Agent, CancelTasksForIssueAgent(i, a)
      PROVE  TypeOK'
  <2>1. tq' \in [Task -> Row]
    BY <1>4, CancelRowsType DEF CancelTasksForIssueAgent, OfIssue
  <2> QED BY <1>4, <2>1 DEF CancelTasksForIssueAgent, TypeOK
<1>5. ASSUME NEW k \in Chat, DeleteChatSession(k) PROVE TypeOK'
  <2> DEFINE row(t) == [tq[t] EXCEPT !.subj = Orphan,
                                     !.st = IF Live(t) THEN "cancelled" ELSE tq[t].st]
  <2>1. ASSUME NEW t \in Task PROVE row(t) \in Row
    <3>1. tq[t] \in Row
      BY DEF TypeOK
    <3>2. (IF Live(t) THEN "cancelled" ELSE tq[t].st) \in Status
      BY <3>1 DEF Row, Status
    <3> QED BY <3>1, <3>2 DEF Row, Subject
  <2>2. tq' = [t \in Task |-> IF tq[t].subj # k THEN tq[t] ELSE row(t)]
    BY <1>5 DEF DeleteChatSession
  <2> HIDE DEF row
  <2>3. tq' \in [Task -> Row]
    BY <2>1, <2>2 DEF TypeOK
  <2> QED BY <1>5, <2>3 DEF DeleteChatSession, TypeOK
<1>6. ASSUME NEW a \in Agent, ArchiveAgent(a) \/ RestoreAgent(a) PROVE TypeOK'
  BY <1>6 DEF ArchiveAgent, RestoreAgent, TypeOK
<1>7. ASSUME NEW a \in Agent, CancelTasksForAgent(a) PROVE TypeOK'
  <2>1. tq' \in [Task -> Row]
    BY <1>7, CancelRowsType DEF CancelTasksForAgent
  <2> QED BY <1>7, <2>1 DEF CancelTasksForAgent, TypeOK
<1>8. ASSUME NEW a \in Agent, NEW r \in Runtime, MoveAgent(a, r) PROVE TypeOK'
  BY <1>8 DEF MoveAgent, TypeOK
<1>9. ASSUME NEW r \in Runtime, DaemonUnwatch(r) PROVE TypeOK'
  BY <1>9, DisconnectedType DEF DaemonUnwatch, TypeOK
<1> QED BY <1>1, <1>2, <1>3, <1>4, <1>5, <1>6, <1>7, <1>8, <1>9 DEF UserNext

LEMMA RuntimeType == ASSUME TypeOK, RuntimeNext PROVE TypeOK'
<1> USE DEF rowVars, agentVars, runtimeVars
<1>1. ASSUME NEW S \in SUBSET Runtime, SweepRuntimes(S) PROVE TypeOK'
  BY <1>1 DEF SweepRuntimes, TypeOK
<1>2. ASSUME SweepTasks PROVE TypeOK'
  <2>1. tq' \in [Task -> Row] /\ retries' \subseteq Task
    BY <1>2, FailRowsType DEF SweepTasks, Reason
  <2> QED BY <1>2, <2>1 DEF SweepTasks, TypeOK
<1>3. ASSUME NEW S \in SUBSET Task, SweepStaleTasks(S) PROVE TypeOK'
  <2>1. tq' \in [Task -> Row] /\ retries' \subseteq Task
    BY <1>3, FailRowsType DEF SweepStaleTasks, Reason
  <2> QED BY <1>3, <2>1 DEF SweepStaleTasks, TypeOK
<1>4. ASSUME NEW r \in Runtime, Heartbeat(r) PROVE TypeOK'
  BY <1>4 DEF Heartbeat, TypeOK
<1>5. ASSUME NEW r \in Runtime, DaemonStop(r) PROVE TypeOK'
  <2>1. exec' \in [Task -> Exec]
    BY <1>5 DEF DaemonStop, TypeOK, Exec
  <2> QED BY <1>5, <2>1, DisconnectedType DEF DaemonStop, TypeOK
<1>6. ASSUME NEW r \in Runtime, DaemonRegister(r) PROVE TypeOK'
  BY <1>6 DEF DaemonRegister, TypeOK
<1>7. ASSUME NEW r \in Runtime, RecoverOrphans(r) PROVE TypeOK'
  <2>1. tq' \in [Task -> Row] /\ retries' \subseteq Task
    <3>1. {t \in OnRuntime(r) : Active(t)} \in SUBSET Task
      BY DEF OnRuntime
    <3>2. "runtime_recovery" \in Reason
      BY DEF Reason
    <3> QED BY <1>7, <3>1, <3>2, FailRowsType DEF RecoverOrphans, TypeOK
  <2> QED BY <1>7, <2>1 DEF RecoverOrphans, TypeOK
<1>8. ASSUME ServerRestart PROVE TypeOK'
  BY <1>8 DEF ServerRestart, TypeOK, IdleClaim, ClaimState
<1> QED BY <1>1, <1>2, <1>3, <1>4, <1>5, <1>6, <1>7, <1>8 DEF RuntimeNext

LEMMA NextType == ASSUME TypeOK, [Next]_vars PROVE TypeOK'
<1>1. CASE Next
  BY <1>1, EnqueueType, ClaimType, TaskType, UserType, RuntimeType DEF Next
<1>2. CASE UNCHANGED vars
  BY <1>2 DEF TypeOK, vars
<1> QED BY <1>1, <1>2

(* The variables of every reachable state have their types: among other       *)
(* things no row points at a runtime, a parent or a subject there is none of. *)
THEOREM TypeCorrect == Spec => []TypeOK
BY InitType, NextType, PTL DEF Spec
-----------------------------------------------------------------------------
(* One task of an agent on an issue at a time                                *)

(* A step that ends rows and makes none wait or work. *)
Retires ==
  \A t \in Task :
    /\ tq[t].st # "absent" => tq'[t].st # "absent"
    /\ tq'[t].st \in {"queued", "dispatched", "running"} =>
         tq'[t].st = tq[t].st /\ tq'[t].agent = tq[t].agent /\ tq'[t].subj = tq[t].subj

SnapshotsShrink == \A c \in Claim : claims'[c].snap \subseteq claims[c].snap

LEMMA RetiresKeeps ==
  ASSUME TypeOK, IssueInv, Retires, SnapshotsShrink
  PROVE  IssueInv'
<1> USE DEF SamePair, Pending, Active, Queued
<1>1. PendingUnique'
  BY DEF IssueInv, PendingUnique, Retires
<1>2. OneActivePerIssueAgent'
  BY DEF IssueInv, OneActivePerIssueAgent, Retires
<1>3. SnapshotHolds'
  <2> SUFFICES ASSUME NEW c \in Claim, NEW t \in claims'[c].snap
               PROVE  /\ tq'[t].st # "absent"
                      /\ Queued(t)' => ~\E u \in Task : Active(u)' /\ SamePair(t, u)'
    BY DEF SnapshotHolds
  <2>1. t \in claims[c].snap /\ t \in Task
    BY DEF SnapshotsShrink, TypeOK, ClaimState
  <2>2. tq[t].st # "absent" /\ (Queued(t) => ~\E u \in Task : Active(u) /\ SamePair(t, u))
    BY <2>1 DEF IssueInv, SnapshotHolds
  <2> QED BY <2>1, <2>2 DEF Retires
<1> QED BY <1>1, <1>2, <1>3 DEF IssueInv

(* The unique index admits a row only where none is pending, and its id is   *)
(* new, so no snapshot holds it.                                             *)
LEMMA InsertKeeps ==
  ASSUME TypeOK, IssueInv, NEW t \in Task, NEW row \in Row,
         IsNextId(t), Insert(t, row), row.st = "queued",
         IndexAllows(row.agent, row.subj), claims' = claims
  PROVE  IssueInv'
<1> USE DEF SamePair, Pending, Active, Queued
<1>1. /\ tq'[t] = row
      /\ \A u \in Task \ {t} : tq'[u] = tq[u]
  BY DEF Insert, TypeOK
<1>2. PendingUnique'
  BY <1>1 DEF IssueInv, PendingUnique, IndexAllows
<1>3. OneActivePerIssueAgent'
  BY <1>1 DEF IssueInv, OneActivePerIssueAgent
<1>4. SnapshotHolds'
  <2>1. ASSUME NEW c \in Claim, NEW u \in claims[c].snap PROVE u \in Task \ {t}
    BY DEF IssueInv, SnapshotHolds, IsNextId, TypeOK, ClaimState
  <2> QED BY <1>1, <2>1 DEF IssueInv, SnapshotHolds
<1> QED BY <1>2, <1>3, <1>4 DEF IssueInv

LEMMA NextAgentShrinks ==
  ASSUME TypeOK, NEW c \in Claim, NEW a, NextAgent(c, a) PROVE SnapshotsShrink
BY DEF NextAgent, TypeOK, IdleClaim, SnapshotsShrink, ClaimState

LEMMA DisconnectedShrinks ==
  ASSUME TypeOK, NEW r, claims' = Disconnected(r) PROVE SnapshotsShrink
BY DEF Disconnected, SnapshotsShrink, TypeOK, ClaimState

LEMMA StaysRetires == ASSUME TypeOK, UNCHANGED tq PROVE Retires
BY DEF Retires

LEMMA FailRowsRetires ==
  ASSUME TypeOK, NEW S, NEW reason, FailRows(S, reason) PROVE Retires
BY DEF FailRows, WithStatus, Retires, TypeOK, Row

LEMMA CancelRowsRetires ==
  ASSUME TypeOK, NEW S, CancelRows(S) PROVE Retires
BY DEF CancelRows, Retires, TypeOK, Row
LEMMA EnqueueIssueInv == ASSUME TypeOK, IssueInv, EnqueueNext PROVE IssueInv'
<1> SUFFICES ASSUME NEW q \in Request,
                    \/ \E a \in Agent, k \in Work : EnqueueRead(q, a, k)
                    \/ \E t \in Task : EnqueueInsert(q, t)
                    \/ EnqueueRefused(q)
             PROVE  IssueInv'
  BY DEF EnqueueNext
<1>1. ASSUME NEW t \in Task, EnqueueInsert(q, t) PROVE IssueInv'
  <2>1. enqueues[q] \in Enqueue
    BY <1>1 DEF EnqueueInsert, TypeOK
  <2>2. NewRow(enqueues[q]) \in Row
    BY <2>1, ConfigAssumption DEF NewRow, Enqueue, Row, Status, Reason
  <2>3. IndexAllows(NewRow(enqueues[q]).agent, NewRow(enqueues[q]).subj)
    BY <1>1 DEF EnqueueInsert, NewRow
  <2>4. NewRow(enqueues[q]).st = "queued"
    BY DEF NewRow
  <2> QED BY <1>1, <2>2, <2>3, <2>4, InsertKeeps DEF EnqueueInsert
<1>2. ASSUME ~\E t \in Task : EnqueueInsert(q, t) PROVE IssueInv'
  <2>1. UNCHANGED tq /\ UNCHANGED claims
    BY <1>2 DEF EnqueueRead, EnqueueRefused, rowVars
  <2> QED BY <2>1, StaysRetires, RetiresKeeps DEF SnapshotsShrink
<1> QED BY <1>1, <1>2

LEMMA DispatchIssueInv ==
  ASSUME TypeOK, IssueInv, NEW c \in Claim, NEW t \in Task, ClaimDispatch(c, t)
  PROVE  IssueInv'
<1> USE DEF SamePair, Pending, Active, Queued
<1>1. /\ Queued(t)
      /\ ~\E u \in Task : Active(u) /\ SamePair(t, u)
  <2>1. t \in claims[c].snap /\ Queued(t)
    BY DEF ClaimDispatch, First, StillQueued
  <2> QED BY <2>1 DEF IssueInv, SnapshotHolds
<1>2. /\ tq'[t] = [tq[t] EXCEPT !.st = "dispatched"]
      /\ \A u \in Task \ {t} : tq'[u] = tq[u]
  BY DEF ClaimDispatch, TypeOK
<1>3. /\ tq'[t].st = "dispatched"
      /\ tq'[t].agent = tq[t].agent
      /\ tq'[t].subj = tq[t].subj
  BY <1>2 DEF TypeOK, Row
<1>4. SnapshotsShrink
  <2>1. CASE tq[t].rt = claims[c].rt
    BY <2>1 DEF ClaimDispatch, SnapshotsShrink, TypeOK
  <2>2. CASE tq[t].rt # claims[c].rt
    BY <2>2, NextAgentShrinks DEF ClaimDispatch
  <2> QED BY <2>1, <2>2
<1>5. PendingUnique'
  <2> SUFFICES ASSUME NEW u \in Task, NEW v \in Task,
                      Pending(u)', Pending(v)', SamePair(u, v)'
               PROVE  u = v
    BY DEF PendingUnique
  <2>1. \A w \in Task : /\ tq'[w].subj = tq[w].subj /\ tq'[w].agent = tq[w].agent
                        /\ Pending(w)' => Pending(w)
    BY <1>1, <1>2, <1>3
  <2> QED BY <2>1 DEF IssueInv, PendingUnique
<1>6. OneActivePerIssueAgent'
  <2> SUFFICES ASSUME NEW u \in Task, NEW v \in Task,
                      Active(u)', Active(v)', SamePair(u, v)', u # v
               PROVE  FALSE
    BY DEF OneActivePerIssueAgent
  <2>1. \A w \in Task : /\ tq'[w].subj = tq[w].subj /\ tq'[w].agent = tq[w].agent
                        /\ w # t /\ Active(w)' => Active(w)
    BY <1>2, <1>3
  <2>2. CASE u = t
    BY <1>1, <2>1, <2>2
  <2>3. CASE v = t
    BY <1>1, <2>1, <2>3
  <2>4. CASE u # t /\ v # t
    BY <2>1, <2>4 DEF IssueInv, OneActivePerIssueAgent
  <2> QED BY <2>2, <2>3, <2>4
<1>7. SnapshotHolds'
  <2> SUFFICES ASSUME NEW d \in Claim, NEW u \in claims'[d].snap
               PROVE  /\ tq'[u].st # "absent"
                      /\ Queued(u)' => ~\E v \in Task : Active(v)' /\ SamePair(u, v)'
    BY DEF SnapshotHolds
  <2>1. u \in claims[d].snap /\ u \in Task
    BY <1>4 DEF SnapshotsShrink, TypeOK, ClaimState
  <2>2. tq[u].st # "absent" /\ (Queued(u) => ~\E v \in Task : Active(v) /\ SamePair(u, v))
    BY <2>1 DEF IssueInv, SnapshotHolds
  <2>3. tq'[u].st # "absent"
    BY <1>2, <1>3, <2>1, <2>2
  <2>4. ASSUME Queued(u)', NEW v \in Task, Active(v)', SamePair(u, v)' PROVE FALSE
    <3>1. u # t /\ Queued(u)
      BY <1>2, <1>3, <2>1, <2>4
    <3>2. CASE v = t
      <4>1. tq'[u] = tq[u]
        BY <1>2, <2>1, <3>1
      <4>2. SamePair(u, t)
        BY <1>3, <2>4, <3>2, <4>1
      <4>3. Pending(u) /\ Pending(t)
        BY <1>1, <3>1
      <4> QED BY <2>1, <3>1, <4>2, <4>3 DEF IssueInv, PendingUnique
    <3>3. CASE v # t
      BY <1>2, <2>1, <2>2, <2>4, <3>1, <3>3
    <3> QED BY <3>2, <3>3
  <2> QED BY <2>3, <2>4
<1> QED BY <1>5, <1>6, <1>7 DEF IssueInv

LEMMA ClaimIssueInv == ASSUME TypeOK, IssueInv, ClaimNext PROVE IssueInv'
<1> SUFFICES ASSUME NEW c \in Claim,
                    \/ \E r \in Runtime : ClaimList(c, r)
                    \/ \E t \in Task : ClaimDispatch(c, t)
                    \/ ClaimCount(c) \/ ClaimSelect(c) \/ ClaimLostRace(c)
                    \/ ClaimReply(c) \/ ClaimForeign(c)
                    \/ ClaimDisconnect(c) \/ ClaimAbort(c)
             PROVE  IssueInv'
  BY DEF ClaimNext
<1> USE DEF rowVars, agentVars, runtimeVars
<1>0. claims[c] \in ClaimState
  BY DEF TypeOK
<1>1. ASSUME NEW r \in Runtime, ClaimList(c, r) PROVE IssueInv'
  BY <1>1, StaysRetires, RetiresKeeps DEF ClaimList, SnapshotsShrink, TypeOK
<1>2. ASSUME NEW t \in Task, ClaimDispatch(c, t) PROVE IssueInv'
  BY <1>2, DispatchIssueInv
<1>3. ASSUME ClaimCount(c) PROVE IssueInv'
  <2>1. ASSUME claims' = [claims EXCEPT ![c].pc = "select"] PROVE SnapshotsShrink
    BY <2>1, <1>0 DEF SnapshotsShrink, TypeOK, ClaimState
  <2>2. SnapshotsShrink
    BY <1>3, <2>1, NextAgentShrinks DEF ClaimCount
  <2> QED BY <1>3, <2>2, StaysRetires, RetiresKeeps DEF ClaimCount
<1>4. ASSUME ClaimSelect(c) PROVE IssueInv'
  <2>1. CASE SnapshotsShrink
    BY <1>4, <2>1, StaysRetires, RetiresKeeps DEF ClaimSelect
  <2>2. CASE ~SnapshotsShrink
    <3>1. PICK a \in Agent :
             claims' = [claims EXCEPT ![c].pc = "lock",
                                      ![c].snap = {t \in Task : Claimable(t, a)}]
      BY <1>4, <2>2, NextAgentShrinks DEF ClaimSelect
    <3>2. /\ claims'[c].snap = {t \in Task : Claimable(t, a)}
          /\ \A d \in Claim \ {c} : claims'[d] = claims[d]
      BY <3>1, <1>0 DEF TypeOK, ClaimState
    <3>3. UNCHANGED tq
      BY <1>4 DEF ClaimSelect
    <3>4. ASSUME NEW t \in Task, Claimable(t, a)
          PROVE  /\ tq[t].st # "absent"
                 /\ ~\E u \in Task : Active(u) /\ SamePair(t, u)
      BY <3>4 DEF Claimable, Serialized, SamePair, Queued
    <3>5. SnapshotHolds'
      BY <3>2, <3>3, <3>4 DEF SnapshotHolds, IssueInv, SamePair, Queued, Active
    <3>6. PendingUnique' /\ OneActivePerIssueAgent'
      BY <3>3 DEF IssueInv, PendingUnique, OneActivePerIssueAgent, SamePair,
                  Pending, Active
    <3> QED BY <3>5, <3>6 DEF IssueInv
  <2> QED BY <2>1, <2>2
<1>5. ASSUME ClaimLostRace(c) PROVE IssueInv'
  BY <1>5, NextAgentShrinks, StaysRetires, RetiresKeeps DEF ClaimLostRace
<1>6. ASSUME claims' = [claims EXCEPT ![c] = IdleClaim] PROVE SnapshotsShrink
  BY <1>6 DEF SnapshotsShrink, TypeOK, IdleClaim
<1>7. ASSUME ClaimReply(c) \/ ClaimAbort(c) PROVE IssueInv'
  BY <1>7, <1>6, StaysRetires, RetiresKeeps DEF ClaimReply, ClaimAbort
<1>8. ASSUME ClaimForeign(c) PROVE IssueInv'
  <2>1. Retires
    BY <1>8 DEF ClaimForeign, Retires, TypeOK, Row
  <2> QED BY <1>8, <1>6, <2>1, RetiresKeeps DEF ClaimForeign
<1>9. ASSUME ClaimDisconnect(c) PROVE IssueInv'
  <2>1. SnapshotsShrink
    BY <1>9, <1>0 DEF ClaimDisconnect, SnapshotsShrink, TypeOK, ClaimState
  <2> QED BY <1>9, <2>1, StaysRetires, RetiresKeeps DEF ClaimDisconnect
<1> QED BY <1>1, <1>2, <1>3, <1>4, <1>5, <1>7, <1>8, <1>9
LEMMA StartKeeps ==
  ASSUME TypeOK, IssueInv, NEW t \in Task, tq[t].st = "dispatched",
         tq' = [tq EXCEPT ![t].st = "running"], UNCHANGED claims
  PROVE  IssueInv'
<1> USE DEF SamePair, Pending, Active, Queued
<1>1. /\ tq'[t].st = "running"
      /\ \A u \in Task \ {t} : tq'[u].st = tq[u].st
      /\ \A u \in Task : tq'[u].agent = tq[u].agent /\ tq'[u].subj = tq[u].subj
  BY DEF TypeOK, Row
<1>2. PendingUnique'
  BY <1>1 DEF IssueInv, PendingUnique
<1>3. OneActivePerIssueAgent'
  BY <1>1 DEF IssueInv, OneActivePerIssueAgent
<1>4. SnapshotHolds'
  <2>1. ASSUME NEW c \in Claim, NEW u \in claims[c].snap PROVE u \in Task
    BY DEF TypeOK, ClaimState
  <2> QED BY <1>1, <2>1 DEF IssueInv, SnapshotHolds
<1> QED BY <1>2, <1>3, <1>4 DEF IssueInv

LEMMA TaskIssueInv == ASSUME TypeOK, IssueInv, TaskNext PROVE IssueInv'
<1> SUFFICES ASSUME NEW t \in Task,
                    \/ StartTask(t) \/ StartTaskError(t)
                    \/ ReportFailure(t) \/ ReportCompletion(t) \/ Interrupt(t)
                    \/ RetryRefused(t)
                    \/ \E u \in Task : CreateRetryTask(t, u)
             PROVE  IssueInv'
  BY DEF TaskNext
<1> USE DEF rowVars, agentVars, runtimeVars
<1>1. ASSUME Retires, UNCHANGED claims PROVE IssueInv'
  BY <1>1, RetiresKeeps DEF SnapshotsShrink
<1>2. ASSUME StartTask(t) PROVE IssueInv'
  BY <1>2, StartKeeps DEF StartTask
<1>3. ASSUME StartTaskError(t) PROVE IssueInv'
  BY <1>1, <1>3, StartKeeps, StaysRetires DEF StartTaskError
<1>4. ASSUME ReportFailure(t) PROVE IssueInv'
  BY <1>1, <1>4, StaysRetires, FailRowsRetires DEF ReportFailure, FailTask
<1>5. ASSUME ReportCompletion(t) PROVE IssueInv'
  <2>1. ASSUME tq' = WithStatus({t}, "completed", "none") PROVE Retires
    BY <2>1 DEF WithStatus, Retires, TypeOK, Row
  <2> QED BY <1>1, <1>5, <2>1, StaysRetires DEF ReportCompletion, CompleteTask
<1>6. ASSUME Interrupt(t) \/ RetryRefused(t) PROVE IssueInv'
  BY <1>1, <1>6, StaysRetires DEF Interrupt, RetryRefused
<1>7. ASSUME NEW u \in Task, CreateRetryTask(t, u) PROVE IssueInv'
  <2>1. RetryRow(t) \in Row
    <3>1. tq[t] \in Row
      BY DEF TypeOK
    <3> QED BY <3>1 DEF RetryRow, Row, Status, Reason
  <2>2. /\ RetryRow(t).st = "queued"
        /\ RetryRow(t).agent = tq[t].agent
        /\ RetryRow(t).subj = tq[t].subj
    BY DEF RetryRow
  <2> QED BY <1>7, <2>1, <2>2, InsertKeeps DEF CreateRetryTask
<1> QED BY <1>2, <1>3, <1>4, <1>5, <1>6, <1>7

LEMMA UserIssueInv == ASSUME TypeOK, IssueInv, UserNext PROVE IssueInv'
<1> USE DEF rowVars, agentVars, runtimeVars
<1>1. ASSUME Retires, UNCHANGED claims PROVE IssueInv'
  BY <1>1, RetiresKeeps DEF SnapshotsShrink
<1>2. ASSUME NEW S, CancelRows(S), UNCHANGED claims PROVE IssueInv'
  BY <1>1, <1>2, CancelRowsRetires
<1>3. ASSUME NEW k \in Chat, DeleteChatSession(k) PROVE IssueInv'
  <2>1. Retires
    <3> SUFFICES ASSUME NEW t \in Task
                 PROVE  /\ tq[t].st # "absent" => tq'[t].st # "absent"
                        /\ tq'[t].st \in {"queued", "dispatched", "running"} =>
                             tq'[t] = tq[t]
      BY DEF Retires
    <3>1. CASE tq[t].subj # k
      BY <1>3, <3>1 DEF DeleteChatSession
    <3>2. CASE tq[t].subj = k
      <4>1. tq'[t].st = IF Live(t) THEN "cancelled" ELSE tq[t].st
        BY <1>3, <3>2 DEF DeleteChatSession, TypeOK, Row
      <4> QED BY <4>1 DEF Live
    <3> QED BY <3>1, <3>2
  <2> QED BY <1>1, <1>3, <2>1 DEF DeleteChatSession
<1>4. ASSUME NEW r \in Runtime, DaemonUnwatch(r) PROVE IssueInv'
  BY <1>4, DisconnectedShrinks, StaysRetires, RetiresKeeps DEF DaemonUnwatch
<1>5. ASSUME NEW a \in Agent,
             \/ ArchiveAgent(a) \/ RestoreAgent(a)
             \/ \E r \in Runtime : MoveAgent(a, r)
      PROVE  IssueInv'
  BY <1>1, <1>5, StaysRetires DEF ArchiveAgent, RestoreAgent, MoveAgent
<1> QED
  BY <1>2, <1>3, <1>4, <1>5
     DEF UserNext, CancelTask, CancelTasksForIssue, CancelTasksByTriggerComment,
         CancelTasksForIssueAgent, CancelTasksForAgent

LEMMA RuntimeIssueInv == ASSUME TypeOK, IssueInv, RuntimeNext PROVE IssueInv'
<1> USE DEF rowVars, agentVars, runtimeVars
<1>1. ASSUME Retires, UNCHANGED claims PROVE IssueInv'
  BY <1>1, RetiresKeeps DEF SnapshotsShrink
<1>2. ASSUME NEW S, NEW reason, FailRows(S, reason), UNCHANGED claims PROVE IssueInv'
  BY <1>1, <1>2, FailRowsRetires
<1>3. ASSUME SweepTasks PROVE IssueInv'
  BY <1>2, <1>3 DEF SweepTasks
<1>4. ASSUME NEW S \in SUBSET Task, SweepStaleTasks(S) PROVE IssueInv'
  BY <1>2, <1>4 DEF SweepStaleTasks
<1>5. ASSUME NEW r \in Runtime, RecoverOrphans(r) PROVE IssueInv'
  BY <1>1, <1>2, <1>5, StaysRetires DEF RecoverOrphans
<1>6. ASSUME NEW r \in Runtime, DaemonStop(r) PROVE IssueInv'
  BY <1>6, DisconnectedShrinks, StaysRetires, RetiresKeeps DEF DaemonStop
<1>7. ASSUME NEW r \in Runtime, Heartbeat(r) \/ DaemonRegister(r) PROVE IssueInv'
  BY <1>1, <1>7, StaysRetires DEF Heartbeat, DaemonRegister
<1>8. ASSUME NEW S \in SUBSET Runtime, SweepRuntimes(S) PROVE IssueInv'
  BY <1>1, <1>8, StaysRetires DEF SweepRuntimes
<1>9. ASSUME ServerRestart PROVE IssueInv'
  <2>1. SnapshotsShrink
    BY <1>9 DEF ServerRestart, SnapshotsShrink, IdleClaim
  <2> QED BY <1>9, <2>1, StaysRetires, RetiresKeeps DEF ServerRestart
<1> QED BY <1>3, <1>4, <1>5, <1>6, <1>7, <1>8, <1>9 DEF RuntimeNext

LEMMA NextIssueInv == ASSUME TypeOK, IssueInv, [Next]_vars PROVE IssueInv'
<1>1. CASE Next
  BY <1>1, EnqueueIssueInv, ClaimIssueInv, TaskIssueInv, UserIssueInv,
     RuntimeIssueInv DEF Next
<1>2. CASE UNCHANGED vars
  BY <1>2, StaysRetires, RetiresKeeps DEF vars, SnapshotsShrink
<1> QED BY <1>1, <1>2

LEMMA InitIssueInv == ASSUME Init PROVE IssueInv
BY DEF Init, IssueInv, PendingUnique, SnapshotHolds, OneActivePerIssueAgent,
       Pending, Active, AbsentRow, IdleClaim

(* A row that waits keeps its pair to itself, and a claim's snapshot stays    *)
(* good for as long as the row it names waits: the strengthening.             *)
THEOREM IssueInvariant == Spec => []IssueInv
BY TypeCorrect, InitIssueInv, NextIssueInv, PTL DEF Spec

(* No agent ever has two tasks of one issue dispatched or running, for every  *)
(* number of concurrent claims, retries, sweeps and cancellations.            *)
THEOREM OneActive == Spec => []OneActivePerIssueAgent
<1>1. IssueInv => OneActivePerIssueAgent
  BY DEF IssueInv
<1> QED BY <1>1, IssueInvariant, PTL
=============================================================================
