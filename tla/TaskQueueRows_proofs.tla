------------------------ MODULE TaskQueueRows_proofs ------------------------
(***************************************************************************)
(* What a step of TaskQueue may do to the rows, and what follows for the   *)
(* life of a row: final rows, chains of retries, deleted chat sessions.    *)
(***************************************************************************)
EXTENDS TaskQueue_proofs

-----------------------------------------------------------------------------
(* The kinds of steps                                                        *)

Kept(t) ==
  /\ tq'[t].agent = tq[t].agent
  /\ tq'[t].rt = tq[t].rt
  /\ tq'[t].prio = tq[t].prio
  /\ tq'[t].att = tq[t].att
  /\ tq'[t].parent = tq[t].parent

(* The row ends, loses its chat session, or stays. *)
Fails(t) == Active(t) /\ tq'[t].st = "failed"

Ends(t) ==
  \/ Fails(t)
  \/ Completable(t) /\ tq'[t].st = "completed"
  \/ Live(t) /\ tq'[t].st = "cancelled"

LosesChat(t) ==
  /\ tq[t].subj \in Chat
  /\ tq'[t].subj = Orphan
  /\ IF Live(t) THEN tq'[t].st = "cancelled"
     ELSE tq'[t].st = tq[t].st /\ tq'[t].reason = tq[t].reason

EndsOrStays(t) ==
  \/ tq'[t] = tq[t]
  \/ Kept(t) /\ tq'[t].subj = tq[t].subj /\ Ends(t)
  \/ Kept(t) /\ LosesChat(t)

(* A step that makes no row wait or work: what it fails may be retried later, *)
(* and a chat session it deletes is in no row afterwards.                     *)
EndStep ==
  /\ \A t \in Task : EndsOrStays(t)
  /\ \A p \in retries' : p \in retries \/ (Fails(p) /\ tq[p].att < MaxAttempts)
  /\ \A k \in chats : k \in chats' \/ \A t \in Task : tq'[t].subj # k

StartStep(t) ==
  /\ tq[t].st = "dispatched"
  /\ HasWorkspace(t)
  /\ tq' = [tq EXCEPT ![t].st = "running"]
  /\ UNCHANGED <<agentVars, enqueues, claims, retries>>

StepKinds ==
  \/ EndStep
  \/ \E q \in Request, t \in Task : EnqueueInsert(q, t)
  \/ \E p \in Task, t \in Task : CreateRetryTask(p, t)
  \/ \E c \in Claim, t \in Task : ClaimDispatch(c, t)
  \/ \E t \in Task : StartStep(t)

LEMMA StaysEnds ==
  ASSUME UNCHANGED <<tq, chats>>, retries' \subseteq retries
  PROVE  EndStep
BY DEF EndStep, EndsOrStays

LEMMA FailRowsEnds ==
  ASSUME TypeOK, NEW S \in SUBSET Task, \A t \in S : Active(t), NEW reason,
         FailRows(S, reason), UNCHANGED chats
  PROVE  EndStep
<1>1. ASSUME NEW t \in Task PROVE EndsOrStays(t)
  <2>1. tq[t] \in Row
    BY DEF TypeOK
  <2> QED BY <2>1 DEF FailRows, WithStatus, EndsOrStays, Ends, Fails, Kept, Row
<1>2. ASSUME NEW p \in retries', p \notin retries
      PROVE  Fails(p) /\ tq[p].att < MaxAttempts
  <2>1. p \in S /\ Retryable(p, reason)
    BY <1>2 DEF FailRows
  <2>2. tq[p] \in Row
    BY <2>1 DEF TypeOK
  <2> QED BY <2>1, <2>2 DEF FailRows, WithStatus, Fails, Retryable, Row
<1> QED BY <1>1, <1>2 DEF EndStep

LEMMA CancelRowsEnds ==
  ASSUME TypeOK, NEW S, CancelRows(S), UNCHANGED <<chats, retries>>
  PROVE  EndStep
<1>1. ASSUME NEW t \in Task PROVE EndsOrStays(t)
  <2>1. tq[t] \in Row
    BY DEF TypeOK
  <2> QED BY <2>1 DEF CancelRows, EndsOrStays, Ends, Kept, Row
<1> QED BY <1>1 DEF EndStep

LEMMA EnqueueKinds ==
  ASSUME TypeOK, EnqueueNext
  PROVE  EndStep \/ \E q \in Request, t \in Task : EnqueueInsert(q, t)
<1> USE DEF rowVars, agentVars
<1>1. PICK q \in Request : \/ \E a \in Agent, k \in Work : EnqueueRead(q, a, k)
                           \/ \E t \in Task : EnqueueInsert(q, t)
                           \/ EnqueueRefused(q)
  BY DEF EnqueueNext
<1>2. ASSUME ~\E t \in Task : EnqueueInsert(q, t) PROVE EndStep
  BY <1>1, <1>2, StaysEnds DEF EnqueueRead, EnqueueRefused
<1> QED BY <1>2

LEMMA ClaimKinds == ASSUME TypeOK, ClaimNext PROVE StepKinds
<1> USE DEF rowVars, agentVars
<1>1. PICK c \in Claim :
         \/ \E r \in Runtime : ClaimList(c, r)
         \/ \E t \in Task : ClaimDispatch(c, t)
         \/ ClaimCount(c) \/ ClaimSelect(c) \/ ClaimLostRace(c)
         \/ ClaimReply(c) \/ ClaimForeign(c) \/ ClaimDisconnect(c) \/ ClaimAbort(c)
  BY DEF ClaimNext
<1>2. ASSUME NEW r \in Runtime, ClaimList(c, r) PROVE EndStep
  BY <1>2, StaysEnds DEF ClaimList
<1>3. ASSUME \/ ClaimCount(c) \/ ClaimSelect(c) \/ ClaimLostRace(c)
             \/ ClaimReply(c) \/ ClaimDisconnect(c) \/ ClaimAbort(c)
      PROVE  EndStep
  BY <1>3, StaysEnds
     DEF ClaimCount, ClaimSelect, ClaimLostRace, ClaimReply, ClaimDisconnect, ClaimAbort
<1>4. ASSUME ClaimForeign(c) PROVE EndStep
  <2>1. ASSUME NEW t \in Task PROVE EndsOrStays(t)
    <3>1. tq[t] \in Row
      BY DEF TypeOK
    <3> QED BY <1>4, <3>1 DEF ClaimForeign, EndsOrStays, Ends, Kept, Row, TypeOK
  <2> QED BY <1>4, <2>1 DEF ClaimForeign, EndStep
<1> QED BY <1>1, <1>2, <1>3, <1>4 DEF StepKinds

LEMMA TaskKinds ==
  ASSUME TypeOK, TaskNext
  PROVE  \/ EndStep
         \/ \E p \in Task, t \in Task : CreateRetryTask(p, t)
         \/ \E t \in Task : StartStep(t)
<1> USE DEF rowVars, agentVars
<1>1. PICK t \in Task :
         \/ StartTask(t) \/ StartTaskError(t)
         \/ ReportFailure(t) \/ ReportCompletion(t) \/ Interrupt(t)
         \/ RetryRefused(t)
         \/ \E u \in Task : CreateRetryTask(t, u)
  BY DEF TaskNext
<1>2. ASSUME StartTask(t) PROVE StartStep(t)
  BY <1>2 DEF StartTask, StartStep
<1>3. ASSUME StartTaskError(t) PROVE StartStep(t) \/ EndStep
  BY <1>3, StaysEnds DEF StartTaskError, StartStep
<1>4. ASSUME ReportFailure(t) PROVE EndStep
  <2>1. CASE UNCHANGED rowVars
    BY <1>4, <2>1, StaysEnds DEF ReportFailure
  <2>2. ASSUME NEW reason, FailTask(t, reason) PROVE EndStep
    <3> DEFINE S == {u \in {t} : Active(u) /\ HasWorkspace(u)}
    <3>1. S \in SUBSET Task /\ \A u \in S : Active(u)
      OBVIOUS
    <3>2. FailRows(S, reason)
      BY <2>2 DEF FailTask
    <3> HIDE DEF S
    <3> QED BY <1>4, <3>1, <3>2, FailRowsEnds DEF ReportFailure
  <2> QED BY <1>4, <2>1, <2>2 DEF ReportFailure
<1>5. ASSUME ReportCompletion(t) PROVE EndStep
  <2>1. ASSUME CompleteTask(t), NEW u \in Task PROVE EndsOrStays(u)
    <3>1. tq[u] \in Row
      BY DEF TypeOK
    <3> QED BY <2>1, <3>1 DEF CompleteTask, WithStatus, EndsOrStays, Ends, Kept, Row
  <2>2. CASE UNCHANGED tq
    BY <1>5, <2>2, StaysEnds DEF ReportCompletion
  <2>3. CASE CompleteTask(t)
    BY <1>5, <2>1, <2>3 DEF ReportCompletion, EndStep
  <2> QED BY <1>5, <2>2, <2>3 DEF ReportCompletion
<1>6. ASSUME Interrupt(t) \/ RetryRefused(t) PROVE EndStep
  BY <1>6, StaysEnds DEF Interrupt, RetryRefused
<1> QED BY <1>1, <1>2, <1>3, <1>4, <1>5, <1>6

LEMMA UserKinds == ASSUME TypeOK, UserNext PROVE EndStep
<1> USE DEF rowVars, agentVars
<1>1. ASSUME NEW S, CancelRows(S), UNCHANGED <<chats, retries>> PROVE EndStep
  BY <1>1, CancelRowsEnds
<1>2. ASSUME NEW k \in Chat, DeleteChatSession(k) PROVE EndStep
  <2>1. ASSUME NEW t \in Task PROVE EndsOrStays(t) /\ tq'[t].subj # k
    <3>1. tq[t] \in Row /\ k # Orphan
      BY SubjectAssumption DEF TypeOK
    <3>2. CASE tq[t].subj # k
      BY <1>2, <3>2 DEF DeleteChatSession, EndsOrStays
    <3>3. CASE tq[t].subj = k
      <4>1. tq'[t] = [tq[t] EXCEPT !.subj = Orphan,
                                   !.st = IF Live(t) THEN "cancelled" ELSE tq[t].st]
        BY <1>2, <3>3 DEF DeleteChatSession
      <4>2. Kept(t) /\ LosesChat(t)
        BY <3>1, <3>3, <4>1 DEF Kept, LosesChat, Row
      <4> QED BY <3>1, <4>2 DEF EndsOrStays, LosesChat
    <3> QED BY <3>2, <3>3
  <2> QED BY <1>2, <2>1 DEF DeleteChatSession, EndStep
<1>3. ASSUME NEW a \in Agent,
             \/ ArchiveAgent(a) \/ RestoreAgent(a)
             \/ \E r \in Runtime : MoveAgent(a, r)
      PROVE  EndStep
  BY <1>3, StaysEnds DEF ArchiveAgent, RestoreAgent, MoveAgent
<1>4. ASSUME NEW r \in Runtime, DaemonUnwatch(r) PROVE EndStep
  BY <1>4, StaysEnds DEF DaemonUnwatch
<1> QED
  BY <1>1, <1>2, <1>3, <1>4
     DEF UserNext, CancelTask, CancelTasksForIssue, CancelTasksByTriggerComment,
         CancelTasksForIssueAgent, CancelTasksForAgent

LEMMA RuntimeKinds == ASSUME TypeOK, RuntimeNext PROVE EndStep
<1> USE DEF rowVars, agentVars
<1>1. ASSUME NEW S \in SUBSET Runtime, SweepRuntimes(S) PROVE EndStep
  BY <1>1, StaysEnds DEF SweepRuntimes
<1>2. ASSUME SweepTasks PROVE EndStep
  <2> DEFINE S == {t \in Task : Active(t) /\ tq[t].rt \notin online}
  <2>1. S \in SUBSET Task /\ (\A t \in S : Active(t)) /\ FailRows(S, "runtime_offline")
    BY <1>2 DEF SweepTasks
  <2> HIDE DEF S
  <2> QED BY <1>2, <2>1, FailRowsEnds DEF SweepTasks
<1>3. ASSUME NEW S \in SUBSET Task, SweepStaleTasks(S) PROVE EndStep
  BY <1>3, FailRowsEnds DEF SweepStaleTasks, Overdue
<1>4. ASSUME NEW r \in Runtime, RecoverOrphans(r) PROVE EndStep
  <2> DEFINE S == {t \in OnRuntime(r) : Active(t)}
  <2>1. S \in SUBSET Task /\ \A t \in S : Active(t)
    BY DEF OnRuntime
  <2>2. FailRows(S, "runtime_recovery") \/ UNCHANGED rowVars
    BY <1>4 DEF RecoverOrphans
  <2> HIDE DEF S
  <2> QED BY <1>4, <2>1, <2>2, FailRowsEnds, StaysEnds DEF RecoverOrphans
<1>5. ASSUME NEW r \in Runtime, Heartbeat(r) \/ DaemonStop(r) \/ DaemonRegister(r)
      PROVE  EndStep
  BY <1>5, StaysEnds DEF Heartbeat, DaemonStop, DaemonRegister
<1>6. ASSUME ServerRestart PROVE EndStep
  BY <1>6, StaysEnds DEF ServerRestart
<1> QED BY <1>1, <1>2, <1>3, <1>4, <1>5, <1>6 DEF RuntimeNext

(* Every step inserts one row, dispatches one, starts one, or ends some. *)
LEMMA NextKinds == ASSUME TypeOK, [Next]_vars PROVE StepKinds
<1>1. CASE UNCHANGED vars
  BY <1>1, StaysEnds DEF vars, StepKinds
<1> QED
  BY <1>1, EnqueueKinds, ClaimKinds, TaskKinds, UserKinds, RuntimeKinds
     DEF Next, StepKinds

(* What a step does to the table, whichever kind it is of: at most one row,   *)
(* given and new, differs from what EndsOrStays leaves of it.                 *)
LEMMA InsertRow ==
  ASSUME TypeOK, NEW t \in Task, NEW row, IsNextId(t), Insert(t, row)
  PROVE  /\ tq[t].st = "absent" /\ tq'[t] = row
         /\ \A u \in Task \ {t} : tq'[u] = tq[u]
         /\ \A u \in Task : tq[u].st # "absent" => u < t
  BY TaskAssumption DEF Insert, IsNextId, TypeOK

LEMMA MoveRow ==
  ASSUME TypeOK, NEW t \in Task, NEW st, tq' = [tq EXCEPT ![t].st = st]
  PROVE  /\ tq'[t].st = st
         /\ \A u \in Task \ {t} : tq'[u] = tq[u]
         /\ \A u \in Task : /\ Kept(u)
                            /\ tq'[u].subj = tq[u].subj
                            /\ tq'[u].reason = tq[u].reason
<1>1. tq'[t] = [tq[t] EXCEPT !.st = st] /\ \A u \in Task \ {t} : tq'[u] = tq[u]
  BY DEF TypeOK
<1>2. tq[t] \in Row
  BY DEF TypeOK
<1> QED BY <1>1, <1>2 DEF Kept, Row

-----------------------------------------------------------------------------
(* Final rows *)

Settled(t) ==
  \/ tq'[t].st = tq[t].st /\ tq'[t].reason = tq[t].reason
  \/ /\ tq[t].st = "failed" /\ tq[t].reason = "runtime_offline"
     /\ tq'[t].st = "completed"

LEMMA FinalRowsSettled ==
  ASSUME TypeOK, StepKinds, NEW t \in Task, Terminal(t) PROVE Settled(t)
<1> USE DEF Terminal
<1>1. CASE EndStep
  BY <1>1 DEF EndStep, EndsOrStays, Ends, Fails, LosesChat, Active, Live,
              Completable, Settled
<1>2. ASSUME NEW q \in Request, NEW u \in Task, EnqueueInsert(q, u) PROVE Settled(t)
  BY <1>2, InsertRow DEF EnqueueInsert, Settled
<1>3. ASSUME NEW p \in Task, NEW u \in Task, CreateRetryTask(p, u) PROVE Settled(t)
  BY <1>3, InsertRow DEF CreateRetryTask, Settled
<1>4. ASSUME NEW c \in Claim, NEW u \in Task, ClaimDispatch(c, u) PROVE Settled(t)
  <2>1. tq[u].st = "queued"
    BY <1>4 DEF ClaimDispatch, First, StillQueued, Queued
  <2> QED BY <1>4, <2>1, MoveRow DEF ClaimDispatch, Settled
<1>5. ASSUME NEW u \in Task, StartStep(u) PROVE Settled(t)
  BY <1>5, MoveRow DEF StartStep, Settled
<1> QED BY <1>1, <1>2, <1>3, <1>4, <1>5 DEF StepKinds

(* A final row stays final, with its verdict, whatever late report, sweep or  *)
(* cancellation arrives; only a runtime_offline verdict may be overturned.    *)
THEOREM FinalRowsStay == Spec => FinalStays
<1> DEFINE Stay == \A t \in Task : Terminal(t) => Settled(t)
<1>1. TypeOK /\ [Next]_vars => [Stay]_vars
  BY NextKinds, FinalRowsSettled
<1>2. FinalStays <=> [][Stay]_vars
  BY DEF FinalStays, Settled
<1> HIDE DEF Stay
<1> QED BY <1>1, <1>2, TypeCorrect, PTL DEF Spec

-----------------------------------------------------------------------------
(* Retries *)

LEMMA InsertRowRetries ==
  ASSUME TypeOK, RetryInv, NEW t \in Task, NEW row \in Row,
         IsNextId(t), Insert(t, row),
         \/ row.parent = None /\ retries' = retries
         \/ /\ row.parent \in retries
            /\ retries' = retries \ {row.parent}
            /\ row.att = tq[row.parent].att + 1
            /\ row.agent = tq[row.parent].agent,
         row.st = "queued"
  PROVE  RetryInv'
<1>1. /\ tq[t].st = "absent" /\ tq'[t] = row /\ tq[t].parent = None
      /\ \A u \in Task \ {t} : tq'[u] = tq[u]
      /\ \A u \in Task : tq[u].st # "absent" => u < t
  BY InsertRow DEF RetryInv
<1>2. \A u \in Task : tq[u].parent # None =>
        /\ tq[u].parent \in Task \ {t}
        /\ tq[tq[u].parent].st \in {"failed", "completed"}
  BY <1>1 DEF RetryInv, RetryChain, TypeOK, Row
<1>3. \A p \in retries : p \in Task \ {t}
  BY <1>1 DEF RetryInv, TypeOK
<1>4. \A u \in Task : tq'[u].st = "absent" => tq'[u].parent = None
  BY <1>1 DEF RetryInv
<1>5. ASSUME NEW p \in retries'
      PROVE  /\ tq'[p].st \in {"failed", "completed"}
             /\ tq'[p].att < MaxAttempts
             /\ \A u \in Task : tq'[u].parent # p
  <2>1. p \in retries /\ row.parent # p
    BY <1>5, NoneAssumption DEF TypeOK
  <2> QED BY <1>1, <1>3, <2>1 DEF RetryInv
<1>6. RetryChain'
  <2> SUFFICES ASSUME NEW u \in Task, tq'[u].parent # None
               PROVE  LET p == tq'[u].parent
                      IN  /\ tq'[p].st \in {"failed", "completed"}
                          /\ p < u
                          /\ tq'[u].att = tq'[p].att + 1
                          /\ tq'[u].att <= MaxAttempts
                          /\ tq'[u].agent = tq'[p].agent
                          /\ \A v \in Task : tq'[v].parent = p => v = u
    BY DEF RetryChain
  <2> DEFINE p == tq'[u].parent
  <2>1. CASE u # t
    <3>1. tq'[u] = tq[u] /\ p \in Task \ {t} /\ tq'[p] = tq[p] /\ row.parent # p
      BY <1>1, <1>2, <2>1 DEF RetryInv
    <3>2. /\ tq[p].st \in {"failed", "completed"}
          /\ p < u
          /\ tq[u].att = tq[p].att + 1
          /\ tq[u].att <= MaxAttempts
          /\ tq[u].agent = tq[p].agent
          /\ \A v \in Task : tq[v].parent = p => v = u
      BY <3>1 DEF RetryInv, RetryChain
    <3> QED BY <1>1, <3>1, <3>2
  <2>2. CASE u = t
    <3>1. /\ p = row.parent /\ p \in retries /\ p \in Task \ {t} /\ tq'[p] = tq[p]
          /\ tq'[u] = row
          /\ row.att = tq[p].att + 1
          /\ row.agent = tq[p].agent
      BY <1>1, <1>3, <2>2
    <3>2. /\ tq[p].st \in {"failed", "completed"}
          /\ tq[p].att < MaxAttempts
          /\ \A v \in Task : tq[v].parent # p
      BY <3>1 DEF RetryInv
    <3>3. p < t /\ tq[p].att \in Nat
      BY <1>1, <3>1, <3>2 DEF TypeOK, Row
    <3>4. row.att <= MaxAttempts
      BY <3>1, <3>2, <3>3, ConfigAssumption
    <3> QED BY <1>1, <2>2, <3>1, <3>2, <3>3, <3>4
  <2> QED BY <2>1, <2>2
<1> QED BY <1>4, <1>5, <1>6 DEF RetryInv

(* A step that leaves parents, attempts and agents alone, and final rows final. *)
LEMMA KeptRetries ==
  ASSUME TypeOK, RetryInv,
         \A t \in Task :
           /\ tq'[t] = tq[t] \/ Kept(t)
           /\ tq[t].st = "absent" <=> tq'[t].st = "absent"
           /\ tq[t].st \in {"failed", "completed"} => tq'[t].st \in {"failed", "completed"},
         \A p \in retries' : p \in retries \/ (p \in Task /\ Fails(p) /\ tq[p].att < MaxAttempts)
  PROVE  RetryInv'
<1>1. \A t \in Task : /\ tq'[t].parent = tq[t].parent
                      /\ tq'[t].att = tq[t].att
                      /\ tq'[t].agent = tq[t].agent
  BY DEF Kept
<1>2. \A t \in Task : tq[t].parent \in Task \cup {None}
  BY DEF TypeOK, Row
<1>3. \A t \in Task : tq'[t].st = "absent" => tq'[t].parent = None
  BY <1>1 DEF RetryInv
<1>4. RetryChain'
  BY <1>1, <1>2 DEF RetryInv, RetryChain
<1>5. ASSUME NEW p \in retries'
      PROVE  /\ tq'[p].st \in {"failed", "completed"}
             /\ tq'[p].att < MaxAttempts
             /\ \A t \in Task : tq'[t].parent # p
  <2>1. CASE p \in retries
    BY <1>1, <2>1 DEF RetryInv, TypeOK
  <2>2. CASE p \notin retries
    <3>1. p \in Task /\ Fails(p) /\ tq[p].att < MaxAttempts
      BY <2>2
    <3>2. \A t \in Task : tq[t].parent # p
      BY <3>1, NoneAssumption DEF RetryInv, RetryChain, Fails, Active
    <3> QED BY <1>1, <3>1, <3>2 DEF Fails
  <2> QED BY <2>1, <2>2
<1> QED BY <1>3, <1>4, <1>5 DEF RetryInv

LEMMA NextRetryInv == ASSUME TypeOK, RetryInv, [Next]_vars PROVE RetryInv'
<1>1. CASE EndStep
  <2>1. ASSUME NEW t \in Task
        PROVE  /\ tq'[t] = tq[t] \/ Kept(t)
               /\ tq[t].st = "absent" <=> tq'[t].st = "absent"
               /\ tq[t].st \in {"failed", "completed"} =>
                    tq'[t].st \in {"failed", "completed"}
    BY <1>1 DEF EndStep, EndsOrStays, Ends, Fails, LosesChat, Active, Live, Completable
  <2>2. retries' \subseteq Task
    BY NextType DEF TypeOK
  <2> QED BY <1>1, <2>1, <2>2, KeptRetries DEF EndStep
<1>2. ASSUME NEW q \in Request, NEW t \in Task, EnqueueInsert(q, t) PROVE RetryInv'
  <2>1. enqueues[q] \in Enqueue
    BY <1>2 DEF EnqueueInsert, TypeOK
  <2>2. NewRow(enqueues[q]) \in Row
    BY <2>1, ConfigAssumption DEF NewRow, Enqueue, Row, Status, Reason
  <2>3. NewRow(enqueues[q]).parent = None /\ NewRow(enqueues[q]).st = "queued"
    BY DEF NewRow
  <2> QED BY <1>2, <2>2, <2>3, InsertRowRetries DEF EnqueueInsert
<1>3. ASSUME NEW p \in Task, NEW t \in Task, CreateRetryTask(p, t) PROVE RetryInv'
  <2>1. RetryRow(p) \in Row
    <3>1. tq[p] \in Row
      BY DEF TypeOK
    <3> QED BY <3>1 DEF RetryRow, Row, Status, Reason
  <2>2. /\ RetryRow(p).parent = p /\ RetryRow(p).st = "queued"
        /\ RetryRow(p).att = tq[p].att + 1 /\ RetryRow(p).agent = tq[p].agent
    BY DEF RetryRow
  <2> QED BY <1>3, <2>1, <2>2, InsertRowRetries DEF CreateRetryTask
<1>4. ASSUME NEW t \in Task, NEW st, tq[t].st \in {"queued", "dispatched"},
             st \in {"dispatched", "running"},
             tq' = [tq EXCEPT ![t].st = st], retries' = retries
      PROVE  RetryInv'
  BY <1>4, MoveRow, KeptRetries
<1>5. ASSUME NEW c \in Claim, NEW t \in Task, ClaimDispatch(c, t) PROVE RetryInv'
  BY <1>4, <1>5 DEF ClaimDispatch, First, StillQueued, Queued
<1>6. ASSUME NEW t \in Task, StartStep(t) PROVE RetryInv'
  <2>1. /\ tq[t].st = "dispatched" /\ retries' = retries
        /\ tq' = [tq EXCEPT ![t].st = "running"]
    BY <1>6 DEF StartStep
  <2>2. /\ tq'[t].st = "running"
        /\ \A u \in Task \ {t} : tq'[u] = tq[u]
        /\ \A u \in Task : Kept(u)
    BY <2>1, MoveRow
  <2> QED BY <2>1, <2>2, KeptRetries
<1> QED BY <1>1, <1>2, <1>3, <1>5, <1>6, NextKinds DEF StepKinds

LEMMA InitRetryInv == ASSUME Init PROVE RetryInv
BY DEF Init, RetryInv, RetryChain, AbsentRow

(* A failure that is to be retried is final, has an attempt left and has no   *)
(* retry yet: the strengthening.                                              *)
THEOREM RetryInvariant == Spec => []RetryInv
BY TypeCorrect, InitRetryInv, NextRetryInv, PTL DEF Spec

(* Retries form chains: each repeats the work of one final task for the same  *)
(* agent, within the attempt budget, and no task is retried twice.            *)
THEOREM RetriesAreChains == Spec => []RetryChain
<1>1. RetryInv => RetryChain
  BY DEF RetryInv
<1> QED BY <1>1, RetryInvariant, PTL

-----------------------------------------------------------------------------
(* Deleted chat sessions *)

(* What an enqueue request inserts is work, and a deletion of chat sessions   *)
(* is an EndStep.                                                             *)
LEMMA EnqueuesAreWork ==
  ASSUME TypeOK, ChatInv, [Next]_vars
  PROVE  \A q \in Request : enqueues'[q] # None => enqueues'[q].subj # Orphan
<1> DEFINE Fine == \A q \in Request : enqueues'[q] # None => enqueues'[q].subj # Orphan
<1>0. \A q \in Request : enqueues[q] # None => enqueues[q].subj # Orphan
  BY DEF ChatInv
<1>1. CASE UNCHANGED enqueues
  BY <1>0, <1>1
<1>2. ASSUME NEW q \in Request, NEW a \in Agent, NEW k \in Work, EnqueueRead(q, a, k)
      PROVE  Fine
  <2>1. enqueues' = [enqueues EXCEPT ![q] = [agent |-> a, subj |-> k, rt |-> agentRt[a]]]
    BY <1>2 DEF EnqueueRead
  <2> QED BY <1>0, <2>1, SubjectAssumption DEF TypeOK
<1>3. ASSUME NEW q \in Request, enqueues' = [enqueues EXCEPT ![q] = None] PROVE Fine
  BY <1>0, <1>3 DEF TypeOK
<1>4. CASE EnqueueNext
  BY <1>2, <1>3, <1>4 DEF EnqueueNext, EnqueueInsert, EnqueueRefused
<1>5. CASE ClaimNext
  BY <1>1, <1>5
     DEF ClaimNext, ClaimList, ClaimDispatch, ClaimCount, ClaimSelect, ClaimLostRace,
         ClaimReply, ClaimForeign, ClaimDisconnect, ClaimAbort
<1>6. CASE TaskNext
  BY <1>1, <1>6
     DEF TaskNext, StartTask, StartTaskError, ReportFailure, ReportCompletion,
         Interrupt, RetryRefused, CreateRetryTask
<1>7. CASE UserNext
  BY <1>1, <1>7
     DEF UserNext, CancelTask, CancelTasksForIssue, CancelTasksByTriggerComment,
         CancelTasksForIssueAgent, CancelTasksForAgent, DeleteChatSession,
         ArchiveAgent, RestoreAgent, MoveAgent, DaemonUnwatch
<1>8. CASE ServerRestart
  BY <1>8 DEF ServerRestart
<1>9. CASE RuntimeNext /\ ~ServerRestart
  BY <1>1, <1>9
     DEF RuntimeNext, SweepRuntimes, SweepTasks, SweepStaleTasks, Heartbeat,
         DaemonStop, DaemonRegister, RecoverOrphans
<1> QED
  BY <1>1, <1>4, <1>5, <1>6, <1>7, <1>8, <1>9 DEF Next, vars

LEMMA InsertRowChats ==
  ASSUME TypeOK, DeletedChatIdle, NEW t \in Task, NEW row, IsNextId(t),
         Insert(t, row), UNCHANGED chats, row.st = "queued",
         row.subj \in Chat => row.subj \in chats,
         row.subj = Orphan => row.parent # None
  PROVE  DeletedChatIdle'
BY InsertRow DEF DeletedChatIdle, Live

LEMMA NextDeletedChatIdle ==
  ASSUME TypeOK, ChatInv, [Next]_vars PROVE DeletedChatIdle'
<1>0. DeletedChatIdle
  BY DEF ChatInv
<1>1. CASE EndStep
  <2> SUFFICES ASSUME NEW t \in Task
               PROVE  /\ tq'[t].subj \in Chat => tq'[t].subj \in chats'
                      /\ tq'[t].subj = Orphan /\ Live(t)' =>
                           tq'[t].parent # None /\ tq'[t].st # "running"
    BY DEF DeletedChatIdle
  <2>1. /\ tq[t].subj \in Chat => tq[t].subj \in chats
        /\ tq[t].subj = Orphan /\ Live(t) => tq[t].parent # None /\ tq[t].st # "running"
    BY <1>0 DEF DeletedChatIdle
  <2>2. EndsOrStays(t)
    BY <1>1 DEF EndStep
  <2>3. /\ tq'[t].subj = tq[t].subj \/ (tq'[t].subj = Orphan /\ ~Live(t)')
        /\ Live(t)' => tq'[t].st = tq[t].st /\ tq'[t].parent = tq[t].parent /\ Live(t)
    BY <2>2 DEF EndsOrStays, Kept, Ends, Fails, LosesChat, Live
  <2>4. tq'[t].subj \in Chat => tq'[t].subj \in chats'
    BY <1>1, <2>1, <2>3, SubjectAssumption DEF EndStep
  <2> QED BY <2>1, <2>3, <2>4
<1>2. ASSUME NEW q \in Request, NEW t \in Task, EnqueueInsert(q, t)
      PROVE  DeletedChatIdle'
  <2>1. /\ NewRow(enqueues[q]).st = "queued"
        /\ NewRow(enqueues[q]).subj = enqueues[q].subj
    BY DEF NewRow
  <2>2. enqueues[q].subj # Orphan
    BY <1>2 DEF EnqueueInsert, ChatInv
  <2> QED
    BY <1>0, <1>2, <2>1, <2>2, InsertRowChats
       DEF EnqueueInsert, ForeignKeyAllows, agentVars
<1>3. ASSUME NEW p \in Task, NEW t \in Task, CreateRetryTask(p, t)
      PROVE  DeletedChatIdle'
  <2>1. /\ RetryRow(p).st = "queued" /\ RetryRow(p).parent = p
        /\ RetryRow(p).subj = tq[p].subj
    BY DEF RetryRow
  <2>2. p # None
    BY NoneAssumption
  <2>3. tq[p].subj \in Chat => tq[p].subj \in chats
    BY <1>0 DEF DeletedChatIdle
  <2> QED
    BY <1>0, <1>3, <2>1, <2>2, <2>3, InsertRowChats DEF CreateRetryTask, agentVars
<1>4. ASSUME NEW c \in Claim, NEW t \in Task, ClaimDispatch(c, t)
      PROVE  DeletedChatIdle'
  <2>1. tq[t].st = "queued"
    BY <1>4 DEF ClaimDispatch, First, StillQueued, Queued
  <2> QED
    BY <1>0, <1>4, <2>1, MoveRow
       DEF ClaimDispatch, DeletedChatIdle, Live, Kept, agentVars
<1>5. ASSUME NEW t \in Task, StartStep(t) PROVE DeletedChatIdle'
  BY <1>0, <1>5, MoveRow
     DEF StartStep, HasWorkspace, DeletedChatIdle, Live, Kept, agentVars
<1> QED BY <1>1, <1>2, <1>3, <1>4, <1>5, NextKinds DEF StepKinds

LEMMA InitChatInv == ASSUME Init PROVE ChatInv
BY NoneAssumption DEF Init, ChatInv, DeletedChatIdle, AbsentRow, Live, Subject

(* No enqueue is about a deleted session, and no row names one: the           *)
(* strengthening.                                                             *)
THEOREM ChatInvariant == Spec => []ChatInv
<1>1. TypeOK /\ ChatInv /\ [Next]_vars => ChatInv'
  BY EnqueuesAreWork, NextDeletedChatIdle DEF ChatInv
<1> QED BY <1>1, TypeCorrect, InitChatInv, PTL DEF Spec

(* A deleted chat session leaves no work behind but retries inserted since    *)
(* then, and none of them runs.                                               *)
THEOREM DeletedChatsIdle == Spec => []DeletedChatIdle
<1>1. ChatInv => DeletedChatIdle
  BY DEF ChatInv
<1> QED BY <1>1, ChatInvariant, PTL

-----------------------------------------------------------------------------
(* The queue of issue work: TaskQueue implements CoalescingQueue             *)

Keys == Agent \X Issue

(* SlotOf and HasRow of a given table of rows. *)
OnKey(T, t, k) == T[t].agent = k[1] /\ T[t].subj = k[2]

HasIn(T, k, st) == \E t \in Task : T[t].st = st /\ OnKey(T, t, k)

SlotIn(T, k) ==
  IF HasIn(T, k, "dispatched") THEN "offered"
  ELSE IF HasIn(T, k, "queued") THEN "waiting" ELSE "free"

LEMMA TableView ==
  ASSUME NEW k \in Keys
  PROVE  /\ SlotOf(k) = SlotIn(tq, k)
         /\ SlotOf(k)' = SlotIn(tq', k)
         /\ \A st : HasRow(k, st) <=> HasIn(tq, k, st)
         /\ \A st : HasRow(k, st)' <=> HasIn(tq', k, st)
<1>1. \A st : HasRow(k, st) <=> HasIn(tq, k, st)
  BY DEF HasRow, HasIn, OnKey
<1>2. \A st : HasRow(k, st)' <=> HasIn(tq', k, st)
  BY DEF HasRow, HasIn, OnKey
<1>3. SlotOf(k) = SlotIn(tq, k)
  BY <1>1 DEF SlotOf, SlotIn
<1>4. SlotOf(k)' = SlotIn(tq', k)
  BY <1>2 DEF SlotOf, SlotIn
<1> QED BY <1>1, <1>2, <1>3, <1>4

(* Where pending rows are unique, the slot shows the one there is. *)
LEMMA SlotShows ==
  ASSUME NEW T, NEW k, NEW t \in Task, OnKey(T, t, k),
         T[t].st \in {"queued", "dispatched"},
         \A u \in Task : T[u].st \in {"queued", "dispatched"} /\ OnKey(T, u, k) => u = t
  PROVE  SlotIn(T, k) = IF T[t].st = "dispatched" THEN "offered" ELSE "waiting"
BY DEF SlotIn, HasIn

LEMMA SlotFree ==
  ASSUME NEW T, NEW k,
         \A u \in Task : OnKey(T, u, k) => T[u].st \notin {"queued", "dispatched"}
  PROVE  SlotIn(T, k) = "free"
BY DEF SlotIn, HasIn

LEMMA PendingOnKey ==
  ASSUME PendingUnique, NEW k \in Keys, NEW t \in Task, OnKey(tq, t, k), Pending(t)
  PROVE  \A u \in Task : tq[u].st \in {"queued", "dispatched"} /\ OnKey(tq, u, k) => u = t
BY DEF PendingUnique, SamePair, Pending, OnKey, Keys

(* A key that the one changed row is not of, before or after, shows the same. *)
LEMMA OtherKey ==
  ASSUME NEW t \in Task, \A u \in Task \ {t} : tq'[u] = tq[u],
         NEW k \in Keys, OnKey(tq, t, k) => tq[t].st = "absent", ~OnKey(tq', t, k)
  PROVE  /\ SlotOf(k)' = SlotOf(k)
         /\ HasRow(k, "running")' <=> HasRow(k, "running")
<1>1. ASSUME NEW st, st # "absent" PROVE HasIn(tq', k, st) <=> HasIn(tq, k, st)
  <2>1. HasIn(tq, k, st) => HasIn(tq', k, st)
    BY <1>1 DEF HasIn, OnKey
  <2>2. HasIn(tq', k, st) => HasIn(tq, k, st)
    BY <1>1 DEF HasIn, OnKey
  <2> QED BY <2>1, <2>2
<1>2. HasIn(tq', k, "dispatched") <=> HasIn(tq, k, "dispatched")
  BY <1>1
<1>3. HasIn(tq', k, "queued") <=> HasIn(tq, k, "queued")
  BY <1>1
<1>4. HasIn(tq', k, "running") <=> HasIn(tq, k, "running")
  BY <1>1
<1> QED BY <1>2, <1>3, <1>4, TableView DEF SlotIn

(* The two functions of CoalescingQueue, updated at one key. *)
LEMMA SlotUpdate ==
  ASSUME NEW k \in Keys, NEW v, SlotOf(k)' = v,
         \A j \in Keys \ {k} : SlotOf(j)' = SlotOf(j)
  PROVE  [j \in Keys |-> SlotOf(j)]' = [[j \in Keys |-> SlotOf(j)] EXCEPT ![k] = v]
OBVIOUS

LEMMA BusyStays ==
  ASSUME \A j \in Keys : HasRow(j, "running")' <=> HasRow(j, "running")
  PROVE  [j \in Keys |-> HasRow(j, "running")]' = [j \in Keys |-> HasRow(j, "running")]
BY Zenon DEF HasRow

LEMMA BusyUpdate ==
  ASSUME NEW k \in Keys, HasRow(k, "running")',
         \A j \in Keys \ {k} : HasRow(j, "running")' <=> HasRow(j, "running")
  PROVE  [j \in Keys |-> HasRow(j, "running")]' =
           [[j \in Keys |-> HasRow(j, "running")] EXCEPT ![k] = TRUE]
<1>1. HasRow(k, "running")' = TRUE
  BY DEF HasRow
<1>2. \A j \in Keys \ {k} : HasRow(j, "running")' = HasRow(j, "running")
  BY Zenon DEF HasRow
<1> QED BY <1>1, <1>2

LEMMA EndRefines ==
  ASSUME TypeOK, PendingUnique, EndStep
  PROVE  Queue!Next
<1>1. ASSUME NEW t \in Task, tq'[t].st \in {"queued", "dispatched", "running"}
      PROVE  /\ tq'[t].st = tq[t].st
             /\ \A k \in Keys : OnKey(tq', t, k) <=> OnKey(tq, t, k)
  BY <1>1 DEF EndStep, EndsOrStays, Ends, Fails, LosesChat, Live, Kept, OnKey
<1> DEFINE S == {k \in Keys : SlotOf(k)' = "free"}
           B == {k \in Keys : ~HasRow(k, "running")'}
<1>2. ASSUME NEW k \in Keys
      PROVE  SlotIn(tq', k) = IF SlotIn(tq', k) = "free" THEN "free" ELSE SlotIn(tq, k)
  <2>1. CASE \E t \in Task : OnKey(tq', t, k) /\ tq'[t].st \in {"queued", "dispatched"}
    <3>1. PICK t \in Task : OnKey(tq', t, k) /\ tq'[t].st \in {"queued", "dispatched"}
      BY <2>1
    <3>2. OnKey(tq, t, k) /\ tq[t].st = tq'[t].st /\ Pending(t)
      BY <1>1, <3>1 DEF Pending
    <3>3. \A u \in Task : tq[u].st \in {"queued", "dispatched"} /\ OnKey(tq, u, k) => u = t
      BY <3>2, PendingOnKey
    <3>4. \A u \in Task : tq'[u].st \in {"queued", "dispatched"} /\ OnKey(tq', u, k) => u = t
      BY <1>1, <3>3
    <3> QED BY <3>1, <3>2, <3>3, <3>4, SlotShows
  <2>2. CASE ~\E t \in Task : OnKey(tq', t, k) /\ tq'[t].st \in {"queued", "dispatched"}
    BY <2>2, SlotFree
  <2> QED BY <2>1, <2>2
<1>3. ASSUME NEW k \in Keys, HasIn(tq', k, "running") PROVE HasIn(tq, k, "running")
  BY <1>1, <1>3 DEF HasIn
<1>4. Queue!Release(S, B)
  <2>1. \A k \in Keys : SlotOf(k)' = IF k \in S THEN "free" ELSE SlotOf(k)
    BY <1>2, TableView
  <2>2. \A k \in Keys : HasRow(k, "running")' <=> HasRow(k, "running") /\ k \notin B
    BY <1>3, TableView
  <2> HIDE DEF S, B
  <2>3. [k \in Keys |-> SlotOf(k)]' =
          [k \in Keys |-> IF k \in S THEN "free" ELSE [j \in Keys |-> SlotOf(j)][k]]
    BY <2>1
  <2>4. [k \in Keys |-> HasRow(k, "running")]' =
          [k \in Keys |-> [j \in Keys |-> HasRow(j, "running")][k] /\ k \notin B]
    <3>1. \A k \in Keys : [j \in Keys |-> HasRow(j, "running")][k] = HasRow(k, "running")
      OBVIOUS
    <3>2. \A k \in Keys : HasRow(k, "running")' =
            ([j \in Keys |-> HasRow(j, "running")][k] /\ k \notin B)
      BY <2>2, <3>1, Zenon DEF HasRow
    <3> QED BY <3>2, Zenon
  <2> QED BY <2>3, <2>4 DEF Queue!Release, Keys
<1> QED BY <1>4 DEF Queue!Next, Keys

LEMMA InsertRefines ==
  ASSUME TypeOK, NEW t \in Task, NEW row \in Row, IsNextId(t), Insert(t, row),
         row.st = "queued", IndexAllows(row.agent, row.subj)
  PROVE  Queue!Next \/ UNCHANGED Queue!vars
<1>1. /\ tq[t].st = "absent" /\ tq'[t] = row
      /\ \A u \in Task \ {t} : tq'[u] = tq[u]
  BY InsertRow
<1>2. CASE row.subj \notin Issue \/ row.agent \notin Agent
  <2>1. \A k \in Keys : ~OnKey(tq', t, k)
    BY <1>1, <1>2 DEF OnKey, Keys
  <2>2. \A k \in Keys : /\ SlotOf(k)' = SlotOf(k)
                        /\ HasRow(k, "running")' <=> HasRow(k, "running")
    BY <1>1, <2>1, OtherKey
  <2>3. [k \in Keys |-> SlotOf(k)]' = [k \in Keys |-> SlotOf(k)]
    BY <2>2
  <2> QED BY <2>2, <2>3, BusyStays DEF Queue!vars, Keys
<1>3. CASE row.subj \in Issue /\ row.agent \in Agent
  <2> DEFINE k == <<row.agent, row.subj>>
  <2>1. k \in Keys /\ OnKey(tq', t, k) /\ \A j \in Keys \ {k} : ~OnKey(tq', t, j)
    BY <1>1, <1>3 DEF OnKey, Keys
  <2>2. \A j \in Keys \ {k} : /\ SlotOf(j)' = SlotOf(j)
                              /\ HasRow(j, "running")' <=> HasRow(j, "running")
    BY <1>1, <2>1, OtherKey
  <2>3. \A u \in Task : OnKey(tq, u, k) => tq[u].st \notin {"queued", "dispatched"}
    BY <1>3 DEF IndexAllows, OnKey, Pending
  <2> HIDE DEF k
  <2>4. SlotOf(k) = "free"
    BY <2>1, <2>3, SlotFree, TableView
  <2>5. SlotOf(k)' = "waiting"
    <3>1. \A u \in Task : tq'[u].st \in {"queued", "dispatched"} /\ OnKey(tq', u, k) => u = t
      BY <1>1, <2>3 DEF OnKey
    <3> QED BY <1>1, <2>1, <3>1, SlotShows, TableView
  <2>6. HasRow(k, "running")' <=> HasRow(k, "running")
    <3>1. HasIn(tq', k, "running") <=> HasIn(tq, k, "running")
      BY <1>1 DEF HasIn, OnKey
    <3> QED BY <2>1, <3>1, TableView
  <2>7. [j \in Keys |-> SlotOf(j)]' = [[j \in Keys |-> SlotOf(j)] EXCEPT ![k] = "waiting"]
    BY <2>1, <2>2, <2>5, SlotUpdate
  <2>8. [j \in Keys |-> HasRow(j, "running")]' = [j \in Keys |-> HasRow(j, "running")]
    BY <2>2, <2>6, BusyStays
  <2>9. [j \in Keys |-> SlotOf(j)][k] = "free"
    BY <2>1, <2>4
  <2>10. Queue!Submit(k)
    BY <2>7, <2>8, <2>9 DEF Queue!Submit, Keys
  <2> QED BY <2>1, <2>10 DEF Queue!Next, Keys
<1> QED BY <1>2, <1>3

(* A dispatched or started row keeps its agent and its subject, and with them *)
(* its key, if it has one.                                                    *)
LEMMA MoveKeys ==
  ASSUME TypeOK, NEW t \in Task, NEW st, tq' = [tq EXCEPT ![t].st = st]
  PROVE  \A u \in Task, k \in Keys : OnKey(tq', u, k) <=> OnKey(tq, u, k)
BY MoveRow DEF Kept, OnKey

LEMMA DispatchRefines ==
  ASSUME TypeOK, IssueInv, NEW c \in Claim, NEW t \in Task, ClaimDispatch(c, t)
  PROVE  Queue!Next \/ UNCHANGED Queue!vars
<1>1. /\ tq[t].st = "queued" /\ tq' = [tq EXCEPT ![t].st = "dispatched"]
      /\ t \in claims[c].snap
  BY DEF ClaimDispatch, First, StillQueued, Queued
<1>2. /\ tq'[t].st = "dispatched"
      /\ \A u \in Task \ {t} : tq'[u] = tq[u]
      /\ \A u \in Task, k \in Keys : OnKey(tq', u, k) <=> OnKey(tq, u, k)
  BY <1>1, MoveRow, MoveKeys
<1>3. \A k \in Keys : ~OnKey(tq, t, k) =>
        /\ SlotOf(k)' = SlotOf(k)
        /\ HasRow(k, "running")' <=> HasRow(k, "running")
  BY <1>2, OtherKey
<1>4. CASE \A k \in Keys : ~OnKey(tq, t, k)
  <2>1. [k \in Keys |-> SlotOf(k)]' = [k \in Keys |-> SlotOf(k)]
    BY <1>3, <1>4
  <2> QED BY <1>3, <1>4, <2>1, BusyStays DEF Queue!vars, Keys
<1>5. ASSUME NEW k \in Keys, OnKey(tq, t, k) PROVE Queue!Next
  <2>1. \A j \in Keys \ {k} : ~OnKey(tq, t, j)
    BY <1>5 DEF OnKey, Keys
  <2>2. \A u \in Task : tq[u].st \in {"queued", "dispatched"} /\ OnKey(tq, u, k) => u = t
    BY <1>1, <1>5, PendingOnKey DEF IssueInv, Pending
  <2>3. \A u \in Task : tq'[u].st \in {"queued", "dispatched"} /\ OnKey(tq', u, k) => u = t
    BY <1>2, <2>2
  <2>4. SlotOf(k) = "waiting" /\ SlotOf(k)' = "offered"
    BY <1>1, <1>2, <1>5, <2>2, <2>3, SlotShows, TableView
  <2>5. ~HasRow(k, "running")
    <3>1. \A u \in Task : ~(Active(u) /\ SamePair(t, u))
      BY <1>1 DEF IssueInv, SnapshotHolds, Queued
    <3>2. \A u \in Task : OnKey(tq, u, k) => SamePair(t, u)
      BY <1>5 DEF OnKey, SamePair, Keys
    <3> QED BY <3>1, <3>2 DEF HasRow, OnKey, Active
  <2>6. HasRow(k, "running")' <=> HasRow(k, "running")
    <3>1. HasIn(tq', k, "running") <=> HasIn(tq, k, "running")
      BY <1>1, <1>2 DEF HasIn, OnKey
    <3> QED BY <3>1, TableView
  <2>7. [j \in Keys |-> SlotOf(j)]' = [[j \in Keys |-> SlotOf(j)] EXCEPT ![k] = "offered"]
    BY <1>3, <2>1, <2>4, SlotUpdate
  <2>8. [j \in Keys |-> HasRow(j, "running")]' = [j \in Keys |-> HasRow(j, "running")]
    BY <1>3, <2>1, <2>6, BusyStays
  <2>9. /\ [j \in Keys |-> SlotOf(j)][k] = "waiting"
        /\ ~[j \in Keys |-> HasRow(j, "running")][k]
    BY <2>4, <2>5
  <2>10. Queue!Offer(k)
    BY <2>7, <2>8, <2>9 DEF Queue!Offer, Keys
  <2> QED BY <2>10 DEF Queue!Next, Keys
<1> QED BY <1>4, <1>5

LEMMA StartRefines ==
  ASSUME TypeOK, IssueInv, NEW t \in Task, StartStep(t)
  PROVE  Queue!Next \/ UNCHANGED Queue!vars
<1>1. tq[t].st = "dispatched" /\ tq' = [tq EXCEPT ![t].st = "running"]
  BY DEF StartStep
<1>2. /\ tq'[t].st = "running"
      /\ \A u \in Task \ {t} : tq'[u] = tq[u]
      /\ \A u \in Task, k \in Keys : OnKey(tq', u, k) <=> OnKey(tq, u, k)
  BY <1>1, MoveRow, MoveKeys
<1>3. \A k \in Keys : ~OnKey(tq, t, k) =>
        /\ SlotOf(k)' = SlotOf(k)
        /\ HasRow(k, "running")' <=> HasRow(k, "running")
  BY <1>2, OtherKey
<1>4. CASE \A k \in Keys : ~OnKey(tq, t, k)
  <2>1. [k \in Keys |-> SlotOf(k)]' = [k \in Keys |-> SlotOf(k)]
    BY <1>3, <1>4
  <2> QED BY <1>3, <1>4, <2>1, BusyStays DEF Queue!vars, Keys
<1>5. ASSUME NEW k \in Keys, OnKey(tq, t, k) PROVE Queue!Next
  <2>1. \A j \in Keys \ {k} : ~OnKey(tq, t, j)
    BY <1>5 DEF OnKey, Keys
  <2>2. \A u \in Task : tq[u].st \in {"queued", "dispatched"} /\ OnKey(tq, u, k) => u = t
    BY <1>1, <1>5, PendingOnKey DEF IssueInv, Pending
  <2>3. SlotOf(k) = "offered"
    BY <1>1, <1>5, <2>2, SlotShows, TableView
  <2>4. SlotOf(k)' = "free"
    <3>1. \A u \in Task : OnKey(tq', u, k) => tq'[u].st \notin {"queued", "dispatched"}
      BY <1>2, <2>2
    <3> QED BY <3>1, SlotFree, TableView
  <2>5. HasRow(k, "running")'
    <3>1. HasIn(tq', k, "running")
      BY <1>2, <1>5 DEF HasIn
    <3> QED BY <3>1, TableView
  <2>6. [j \in Keys |-> SlotOf(j)]' = [[j \in Keys |-> SlotOf(j)] EXCEPT ![k] = "free"]
    BY <1>3, <2>1, <2>4, SlotUpdate
  <2>7. [j \in Keys |-> HasRow(j, "running")]' =
          [[j \in Keys |-> HasRow(j, "running")] EXCEPT ![k] = TRUE]
    BY <1>3, <2>1, <2>5, BusyUpdate
  <2>8. [j \in Keys |-> SlotOf(j)][k] = "offered"
    BY <2>3
  <2>9. Queue!Begin(k)
    BY <2>6, <2>7, <2>8 DEF Queue!Begin, Keys
  <2> QED BY <2>9 DEF Queue!Next, Keys
<1> QED BY <1>4, <1>5

LEMMA NextRefines ==
  ASSUME TypeOK, IssueInv, [Next]_vars
  PROVE  Queue!Next \/ UNCHANGED Queue!vars
<1>1. CASE EndStep
  BY <1>1, EndRefines DEF IssueInv
<1>2. ASSUME NEW q \in Request, NEW t \in Task, EnqueueInsert(q, t)
      PROVE  Queue!Next \/ UNCHANGED Queue!vars
  <2>1. enqueues[q] \in Enqueue
    BY <1>2 DEF EnqueueInsert, TypeOK
  <2>2. NewRow(enqueues[q]) \in Row
    BY <2>1, ConfigAssumption DEF NewRow, Enqueue, Row, Status, Reason
  <2>3. /\ NewRow(enqueues[q]).st = "queued"
        /\ NewRow(enqueues[q]).agent = enqueues[q].agent
        /\ NewRow(enqueues[q]).subj = enqueues[q].subj
    BY DEF NewRow
  <2> QED BY <1>2, <2>2, <2>3, InsertRefines DEF EnqueueInsert
<1>3. ASSUME NEW p \in Task, NEW t \in Task, CreateRetryTask(p, t)
      PROVE  Queue!Next \/ UNCHANGED Queue!vars
  <2>1. tq[p] \in Row
    BY DEF TypeOK
  <2>2. RetryRow(p) \in Row
    BY <2>1 DEF RetryRow, Row, Status, Reason
  <2>3. /\ RetryRow(p).st = "queued"
        /\ RetryRow(p).agent = tq[p].agent
        /\ RetryRow(p).subj = tq[p].subj
    BY DEF RetryRow
  <2> QED BY <1>3, <2>2, <2>3, InsertRefines DEF CreateRetryTask
<1>4. ASSUME NEW c \in Claim, NEW t \in Task, ClaimDispatch(c, t)
      PROVE  Queue!Next \/ UNCHANGED Queue!vars
  BY <1>4, DispatchRefines
<1>5. ASSUME NEW t \in Task, StartStep(t)
      PROVE  Queue!Next \/ UNCHANGED Queue!vars
  BY <1>5, StartRefines
<1> QED BY <1>1, <1>2, <1>3, <1>4, <1>5, NextKinds DEF StepKinds

LEMMA InitRefines == ASSUME Init PROVE Queue!Init
<1>1. \A st : st # "absent" => \A k \in Keys : ~HasRow(k, st)
  BY DEF Init, AbsentRow, HasRow
<1>2. \A k \in Keys : SlotOf(k) = "free"
  BY <1>1 DEF SlotOf
<1>3. \A k \in Keys : HasRow(k, "running") = FALSE
  BY <1>1, Zenon DEF HasRow
<1> QED BY <1>2, <1>3 DEF Queue!Init, Keys

(* The rows of issue work behave as CoalescingQueue: one slot of pending work *)
(* for each agent and issue, offered only while none is in progress.          *)
THEOREM QueueCoalesces == Spec => Coalesces
<1>1. Init => Queue!Init
  BY InitRefines
<1>2. TypeOK /\ IssueInv /\ [Next]_vars => [Queue!Next]_(Queue!vars)
  BY NextRefines
<1> QED
  BY <1>1, <1>2, TypeCorrect, IssueInvariant, PTL DEF Spec, Coalesces, Queue!Spec
=============================================================================
