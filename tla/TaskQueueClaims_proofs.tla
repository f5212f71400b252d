----------------------- MODULE TaskQueueClaims_proofs -----------------------
(***************************************************************************)
(* What the claim requests of TaskQueue promise: a row is handed out once, *)
(* and an agent's capacity is overshot by no more than the requests that   *)
(* count at the same time.                                                 *)
(***************************************************************************)
EXTENDS TaskQueueRows_proofs, FiniteSetTheorems

-----------------------------------------------------------------------------
(* Rows of claims *)

(* A row that is inserted stays in the table, with its agent and priority. *)
RowsKept == \A t \in Task : tq[t].st # "absent" => tq'[t].st # "absent" /\ Kept(t)

(* A row never returns to the queue. *)
LEMMA NextRowsKept ==
  ASSUME TypeOK, [Next]_vars
  PROVE  /\ RowsKept
         /\ \A t \in Task : tq[t].st \notin {"absent", "queued"} =>
              tq'[t].st \notin {"absent", "queued"}
<1> DEFINE Goal == /\ RowsKept
                   /\ \A t \in Task : tq[t].st \notin {"absent", "queued"} =>
                        tq'[t].st \notin {"absent", "queued"}
<1>1. CASE EndStep
  BY <1>1 DEF EndStep, EndsOrStays, Ends, Fails, LosesChat, Active, Live,
              Completable, RowsKept, Kept
<1>2. ASSUME NEW t \in Task, NEW row, IsNextId(t), Insert(t, row) PROVE Goal
  <2>1. tq[t].st = "absent" /\ \A u \in Task \ {t} : tq'[u] = tq[u]
    BY <1>2, InsertRow
  <2> QED BY <2>1 DEF RowsKept, Kept
<1>3. ASSUME NEW t \in Task, tq' = [tq EXCEPT ![t].st = "dispatched"] PROVE Goal
  <2>1. tq'[t].st = "dispatched" /\ Kept(t) /\ \A u \in Task \ {t} : tq'[u] = tq[u]
    BY <1>3, MoveRow
  <2> QED BY <2>1 DEF RowsKept, Kept
<1>4. ASSUME NEW t \in Task, tq' = [tq EXCEPT ![t].st = "running"] PROVE Goal
  <2>1. tq'[t].st = "running" /\ Kept(t) /\ \A u \in Task \ {t} : tq'[u] = tq[u]
    BY <1>4, MoveRow
  <2> QED BY <2>1 DEF RowsKept, Kept
<1>5. ASSUME NEW q \in Request, NEW t \in Task, EnqueueInsert(q, t) PROVE Goal
  BY <1>2, <1>5 DEF EnqueueInsert
<1>6. ASSUME NEW p \in Task, NEW t \in Task, CreateRetryTask(p, t) PROVE Goal
  BY <1>2, <1>6 DEF CreateRetryTask
<1>7. ASSUME NEW c \in Claim, NEW t \in Task, ClaimDispatch(c, t) PROVE Goal
  BY <1>3, <1>7 DEF ClaimDispatch
<1>8. ASSUME NEW t \in Task, StartStep(t) PROVE Goal
  BY <1>4, <1>8 DEF StartStep
<1> HIDE DEF Goal
<1>9. Goal
  BY <1>1, <1>5, <1>6, <1>7, <1>8, NextKinds DEF StepKinds, Goal
<1> QED BY <1>9 DEF Goal

-----------------------------------------------------------------------------
(* Handing out *)

(* A step that puts no row in anybody's hands. *)
HandsShrink ==
  /\ \A t \in Task : exec'[t] # "no" => exec[t] # "no"
  /\ \A c \in Claim : claims'[c].pc = "reply" =>
       claims[c].pc = "reply" /\ claims'[c].got = claims[c].got

LEMMA ShrinkHandout ==
  ASSUME TypeOK, HandoutInv, [Next]_vars, HandsShrink PROVE HandoutInv'
<1>1. \A t \in Task : tq[t].st \notin {"absent", "queued"} =>
        tq'[t].st \notin {"absent", "queued"}
  BY NextRowsKept
<1>2. \A c \in Claim : claims[c].pc = "reply" =>
        /\ claims[c].got \in Task
        /\ tq[claims[c].got].st \notin {"absent", "queued"}
        /\ exec[claims[c].got] = "no"
        /\ \A d \in Claim :
             claims[d].pc = "reply" /\ claims[d].got = claims[c].got => c = d
  BY DEF HandoutInv, HandedOutOnce, Queued
<1>3. \A c \in Claim : claims'[c].pc = "reply" =>
        /\ claims'[c].got \in Task
        /\ tq'[claims'[c].got].st \notin {"absent", "queued"}
        /\ exec'[claims'[c].got] = "no"
        /\ \A d \in Claim :
             claims'[d].pc = "reply" /\ claims'[d].got = claims'[c].got => c = d
  BY <1>1, <1>2 DEF HandsShrink
<1>4. \A t \in Task : exec'[t] # "no" => tq'[t].st \notin {"absent", "queued"}
  BY <1>1 DEF HandsShrink, HandoutInv
<1> QED BY <1>3, <1>4 DEF HandoutInv, HandedOutOnce, Queued

LEMMA NextAgentHands ==
  ASSUME TypeOK, NEW c \in Claim, NEW a, NextAgent(c, a), UNCHANGED exec
  PROVE  HandsShrink
<1>1. claims[c] \in ClaimState
  BY DEF TypeOK
<1> DEFINE next == claims'[c]
<1>2. next.pc \in {"idle", "count"}
  BY <1>1 DEF NextAgent, TypeOK, ClaimState, IdleClaim
<1>3. \A d \in Claim \ {c} : claims'[d] = claims[d]
  BY DEF NextAgent, TypeOK
<1> QED BY <1>2, <1>3 DEF HandsShrink

LEMMA DispatchHandout ==
  ASSUME TypeOK, HandoutInv, [Next]_vars,
         NEW c \in Claim, NEW t \in Task, ClaimDispatch(c, t)
  PROVE  HandoutInv'
<1>1. CASE tq[t].rt # claims[c].rt
  BY <1>1, NextAgentHands, ShrinkHandout DEF ClaimDispatch
<1>2. CASE tq[t].rt = claims[c].rt
  <2>1. /\ tq[t].st = "queued" /\ tq' = [tq EXCEPT ![t].st = "dispatched"]
        /\ UNCHANGED exec
        /\ claims'[c].pc = "reply" /\ claims'[c].got = t
        /\ \A d \in Claim \ {c} : claims'[d] = claims[d]
    BY <1>2 DEF ClaimDispatch, First, StillQueued, Queued, TypeOK
  <2>2. tq'[t].st = "dispatched" /\ \A u \in Task \ {t} : tq'[u] = tq[u]
    BY <2>1, MoveRow
  <2>3. exec[t] = "no" /\ \A d \in Claim : ~(claims[d].pc = "reply" /\ claims[d].got = t)
    BY <2>1 DEF HandoutInv, HandedOutOnce, Queued
  <2>4. HandedOutOnce'
    BY <2>1, <2>2, <2>3 DEF HandoutInv, HandedOutOnce, Queued
  <2>5. \A d \in Claim : claims'[d].pc = "reply" =>
          claims'[d].got \in Task /\ tq'[claims'[d].got].st # "absent"
    BY <2>1, <2>2, <2>3 DEF HandoutInv
  <2>6. \A u \in Task : exec'[u] # "no" => tq'[u].st \notin {"absent", "queued"}
    BY <2>1, <2>2 DEF HandoutInv
  <2> QED BY <2>4, <2>5, <2>6 DEF HandoutInv
<1> QED BY <1>1, <1>2

LEMMA ReplyHandout ==
  ASSUME TypeOK, HandoutInv, NEW c \in Claim, ClaimReply(c) PROVE HandoutInv'
<1> DEFINE t == claims[c].got
<1>1. /\ t \in Task /\ tq[t].st \notin {"absent", "queued"}
      /\ \A d \in Claim : claims[d].pc = "reply" /\ claims[d].got = t => c = d
  BY DEF ClaimReply, HandoutInv, HandedOutOnce, Queued
<1>2. /\ exec'[t] = "got" /\ \A u \in Task \ {t} : exec'[u] = exec[u]
      /\ claims'[c].pc = "idle" /\ \A d \in Claim \ {c} : claims'[d] = claims[d]
      /\ UNCHANGED tq
  BY <1>1 DEF ClaimReply, IdleClaim, TypeOK, rowVars
<1> HIDE DEF t
<1>3. HandedOutOnce'
  BY <1>1, <1>2 DEF HandoutInv, HandedOutOnce, Queued
<1>4. \A d \in Claim : claims'[d].pc = "reply" =>
        claims'[d].got \in Task /\ tq'[claims'[d].got].st # "absent"
  BY <1>2 DEF HandoutInv
<1>5. \A u \in Task : exec'[u] # "no" => tq'[u].st \notin {"absent", "queued"}
  BY <1>1, <1>2 DEF HandoutInv
<1> QED BY <1>3, <1>4, <1>5 DEF HandoutInv

LEMMA ClaimHandout ==
  ASSUME TypeOK, HandoutInv, ClaimNext PROVE HandoutInv'
<1>1. PICK c \in Claim :
         \/ \E r \in Runtime : ClaimList(c, r)
         \/ \E t \in Task : ClaimDispatch(c, t)
         \/ ClaimCount(c) \/ ClaimSelect(c) \/ ClaimLostRace(c)
         \/ ClaimReply(c) \/ ClaimForeign(c) \/ ClaimDisconnect(c) \/ ClaimAbort(c)
  BY DEF ClaimNext
<1>2. [Next]_vars
  BY DEF Next
<1>3. claims[c] \in ClaimState
  BY DEF TypeOK
<1>4. ASSUME NEW new, new.pc # "reply", claims' = [claims EXCEPT ![c] = new],
             UNCHANGED exec
      PROVE  HandsShrink
  BY <1>4 DEF HandsShrink, TypeOK
<1>5. ASSUME NEW r \in Runtime, ClaimList(c, r) PROVE HandsShrink
  BY <1>4, <1>5 DEF ClaimList
<1>6. ASSUME ClaimCount(c) PROVE HandsShrink
  <2>1. ASSUME claims' = [claims EXCEPT ![c].pc = "select"], UNCHANGED exec
        PROVE  HandsShrink
    BY <1>3, <2>1 DEF HandsShrink, TypeOK, ClaimState
  <2> QED BY <1>6, <2>1, NextAgentHands DEF ClaimCount
<1>7. ASSUME ClaimSelect(c) PROVE HandsShrink
  <2>1. ASSUME NEW found, UNCHANGED exec,
               claims' = [claims EXCEPT ![c].pc = "lock", ![c].snap = found]
        PROVE  HandsShrink
    BY <1>3, <2>1 DEF HandsShrink, TypeOK, ClaimState
  <2> QED BY <1>7, <2>1, NextAgentHands DEF ClaimSelect
<1>8. ASSUME ClaimLostRace(c) PROVE HandsShrink
  BY <1>8, NextAgentHands DEF ClaimLostRace
<1>9. ASSUME ClaimForeign(c) \/ ClaimAbort(c) PROVE HandsShrink
  BY <1>4, <1>9 DEF ClaimForeign, ClaimAbort, IdleClaim
<1>10. ASSUME ClaimDisconnect(c) PROVE HandsShrink
  BY <1>3, <1>10 DEF ClaimDisconnect, HandsShrink, TypeOK, ClaimState
<1> QED
  BY <1>1, <1>2, <1>5, <1>6, <1>7, <1>8, <1>9, <1>10, ShrinkHandout,
     DispatchHandout, ReplyHandout

LEMMA TaskHandout == ASSUME TypeOK, HandoutInv, TaskNext PROVE HandoutInv'
<1>1. PICK t \in Task :
         \/ StartTask(t) \/ StartTaskError(t)
         \/ ReportFailure(t) \/ ReportCompletion(t) \/ Interrupt(t)
         \/ RetryRefused(t)
         \/ \E u \in Task : CreateRetryTask(t, u)
  BY DEF TaskNext
<1>2. ASSUME UNCHANGED claims, exec[t] # "no",
             \A u \in Task \ {t} : exec'[u] = exec[u]
      PROVE  HandsShrink
  BY <1>2 DEF HandsShrink
<1>3. \A v : exec' = [exec EXCEPT ![t] = v] => \A u \in Task \ {t} : exec'[u] = exec[u]
  BY DEF TypeOK
<1>4. ASSUME \/ StartTask(t) \/ StartTaskError(t)
             \/ ReportFailure(t) \/ ReportCompletion(t) \/ Interrupt(t)
      PROVE  HandsShrink
  BY <1>2, <1>3, <1>4
     DEF StartTask, StartTaskError, ReportFailure, ReportCompletion, Interrupt,
         FinishExec
<1>5. ASSUME RetryRefused(t) \/ \E u \in Task : CreateRetryTask(t, u)
      PROVE  HandsShrink
  BY <1>5 DEF RetryRefused, CreateRetryTask, HandsShrink
<1> QED BY <1>1, <1>4, <1>5, ShrinkHandout DEF Next

LEMMA DisconnectedHands ==
  ASSUME TypeOK, NEW r, claims' = Disconnected(r),
         \A t \in Task : exec'[t] # "no" => exec[t] # "no"
  PROVE  HandsShrink
BY DEF Disconnected, HandsShrink, TypeOK, ClaimState

LEMMA NextHandoutInv ==
  ASSUME TypeOK, HandoutInv, [Next]_vars PROVE HandoutInv'
<1>1. ASSUME UNCHANGED <<claims, exec>> PROVE HandoutInv'
  BY <1>1, ShrinkHandout DEF HandsShrink
<1>2. CASE EnqueueNext
  BY <1>1, <1>2 DEF EnqueueNext, EnqueueRead, EnqueueInsert, EnqueueRefused
<1>3. CASE UserNext
  <2>1. ASSUME NEW r \in Runtime, DaemonUnwatch(r) PROVE HandoutInv'
    BY <2>1, DisconnectedHands, ShrinkHandout DEF DaemonUnwatch
  <2> QED
    BY <1>1, <1>3, <2>1
       DEF UserNext, CancelTask, CancelTasksForIssue, CancelTasksByTriggerComment,
           CancelTasksForIssueAgent, CancelTasksForAgent, DeleteChatSession,
           ArchiveAgent, RestoreAgent, MoveAgent
<1>4. CASE RuntimeNext
  <2>1. ASSUME NEW r \in Runtime, DaemonStop(r) PROVE HandoutInv'
    BY <2>1, DisconnectedHands, ShrinkHandout DEF DaemonStop
  <2>2. ASSUME ServerRestart PROVE HandoutInv'
    BY <2>2, ShrinkHandout DEF ServerRestart, HandsShrink, IdleClaim
  <2> QED
    BY <1>1, <1>4, <2>1, <2>2
       DEF RuntimeNext, SweepRuntimes, SweepTasks, SweepStaleTasks, Heartbeat,
           DaemonRegister, RecoverOrphans
<1> QED
  BY <1>1, <1>2, <1>3, <1>4, ClaimHandout, TaskHandout DEF Next, vars

LEMMA InitHandoutInv == ASSUME Init PROVE HandoutInv
BY DEF Init, HandoutInv, HandedOutOnce, IdleClaim

(* A row in a claim's reply or in a daemon's hands has left the queue for     *)
(* good: the strengthening.                                                   *)
THEOREM HandoutInvariant == Spec => []HandoutInv
BY TypeCorrect, InitHandoutInv, NextHandoutInv, PTL DEF Spec

(* A dispatched task is handed out at most once, for every number of claim    *)
(* requests, lost replies, daemons that stop and server restarts.             *)
THEOREM HandedOut == Spec => []HandedOutOnce
<1>1. HandoutInv => HandedOutOnce
  BY DEF HandoutInv
<1> QED BY <1>1, HandoutInvariant, PTL

-----------------------------------------------------------------------------
(* Capacity *)

Table == {t \in Task : tq[t].st # "absent"}

FiniteTable == IsFiniteSet(Table)

LEMMA NextFiniteTable ==
  ASSUME TypeOK, FiniteTable, [Next]_vars PROVE FiniteTable'
<1>1. ASSUME Table' \subseteq Table PROVE FiniteTable'
  BY <1>1, FS_Subset DEF FiniteTable
<1>2. ASSUME NEW t \in Task, NEW row, IsNextId(t), Insert(t, row) PROVE FiniteTable'
  <2>1. \A u \in Task \ {t} : tq'[u] = tq[u]
    BY <1>2, InsertRow
  <2>2. Table' \subseteq Table \cup {t}
    BY <2>1 DEF Table
  <2>3. IsFiniteSet(Table \cup {t})
    BY FS_AddElement DEF FiniteTable
  <2> QED BY <2>2, <2>3, FS_Subset DEF FiniteTable
<1>3. CASE EndStep
  <2>1. Table' \subseteq Table
    BY <1>3 DEF EndStep, EndsOrStays, Ends, Fails, LosesChat, Active, Live,
                Completable, Table
  <2> QED BY <1>1, <2>1
<1>4. ASSUME NEW t \in Task, NEW st, tq[t].st # "absent", tq' = [tq EXCEPT ![t].st = st]
      PROVE  FiniteTable'
  <2>1. \A u \in Task \ {t} : tq'[u] = tq[u]
    BY <1>4, MoveRow
  <2>2. Table' \subseteq Table
    BY <1>4, <2>1 DEF Table
  <2> QED BY <1>1, <2>2
<1>5. ASSUME NEW q \in Request, NEW t \in Task, EnqueueInsert(q, t) PROVE FiniteTable'
  BY <1>2, <1>5 DEF EnqueueInsert
<1>6. ASSUME NEW p \in Task, NEW t \in Task, CreateRetryTask(p, t) PROVE FiniteTable'
  BY <1>2, <1>6 DEF CreateRetryTask
<1>7. ASSUME NEW c \in Claim, NEW t \in Task, ClaimDispatch(c, t) PROVE FiniteTable'
  BY <1>4, <1>7 DEF ClaimDispatch, First, StillQueued, Queued
<1>8. ASSUME NEW t \in Task, StartStep(t) PROVE FiniteTable'
  <2>1. tq[t].st = "dispatched" /\ tq' = [tq EXCEPT ![t].st = "running"]
    BY <1>8 DEF StartStep
  <2>2. \A u \in Task \ {t} : tq'[u] = tq[u]
    BY <2>1, MoveRow
  <2>3. Table' \subseteq Table
    BY <2>1, <2>2 DEF Table
  <2> QED BY <1>1, <2>3
<1> QED BY <1>3, <1>5, <1>6, <1>7, <1>8, NextKinds DEF StepKinds

LEMMA RunningFinite ==
  ASSUME FiniteTable, NEW a PROVE IsFiniteSet(RunningTasks(a))
<1>1. RunningTasks(a) \subseteq Table
  BY DEF RunningTasks, Active, Table
<1> QED BY <1>1, FS_Subset DEF FiniteTable

LEMMA AdmittedFinite ==
  ASSUME NEW a PROVE IsFiniteSet(Admitted(a))
<1>1. Admitted(a) \subseteq Claim
  BY DEF Admitted
<1> QED BY <1>1, FS_Subset, ClaimAssumption

(* A claim request tries one agent at a time, *)
LEMMA TriesOne ==
  ASSUME TypeOK, NEW c \in Claim, NEW a, NEW b, Tries(c, a), Tries(c, b)
  PROVE  a = b
<1>1. PICK t \in Task : First(claims[c].cand, t) /\ tq[t].agent = a
  BY DEF Tries
<1>2. PICK u \in Task : First(claims[c].cand, u) /\ tq[u].agent = b
  BY DEF Tries
<1>3. Before(t, u) /\ Before(u, t)
  BY <1>1, <1>2 DEF First
<1>4. tq[t].prio \in Nat /\ tq[u].prio \in Nat /\ t \in Nat /\ u \in Nat
  BY TaskAssumption DEF TypeOK, Row
<1>5. t = u
  BY <1>3, <1>4 DEF Before
<1> QED BY <1>1, <1>2, <1>5

(* the same whatever happens to the rows meanwhile. *)
LEMMA FirstKept ==
  ASSUME RowsKept, NEW c \in Claim, claims'[c].cand = claims[c].cand,
         claims[c].cand \subseteq Task, \A t \in claims[c].cand : tq[t].st # "absent"
  PROVE  /\ \A t \in Task : First(claims[c].cand, t)' <=> First(claims[c].cand, t)
         /\ \A t \in Task : First(claims[c].cand, t) => tq'[t].agent = tq[t].agent
         /\ \A a : Tries(c, a)' <=> Tries(c, a)
<1>1. \A t \in claims[c].cand : tq'[t].prio = tq[t].prio /\ tq'[t].agent = tq[t].agent
  BY DEF RowsKept, Kept
<1>2. \A t, u \in claims[c].cand : Before(t, u)' <=> Before(t, u)
  BY <1>1 DEF Before
<1>3. \A t \in Task : First(claims[c].cand, t)' <=> First(claims[c].cand, t)
  BY <1>2 DEF First
<1>4. \A t \in Task : First(claims[c].cand, t) => tq'[t].agent = tq[t].agent
  BY <1>1 DEF First
<1>5. \A a : Tries(c, a)' <=> Tries(c, a)
  BY <1>3, <1>4 DEF Tries
<1> QED BY <1>3, <1>4, <1>5

(* What every step leaves of a claim request. *)
ClaimRows(c) ==
  /\ \A t \in claims'[c].cand \cup claims'[c].snap : tq[t].st # "absent"
  /\ claims'[c].pc \in {"select", "lock"} => claims'[c].cand = claims[c].cand
  /\ claims'[c].pc = "lock" => \A t \in claims'[c].snap : Tries(c, tq[t].agent)

LockTries(c) ==
  claims[c].pc = "lock" => \A t \in claims[c].snap : Tries(c, tq[t].agent)

Counted(T) == {c \in Claim : T[c].pc \in {"select", "lock"}}

LEMMA ClaimRowsKeep ==
  ASSUME TypeOK, TypeOK', CapacityInv, RowsKept, \A c \in Claim : ClaimRows(c)
  PROVE  /\ \A c \in Claim :
              /\ \A t \in claims'[c].cand \cup claims'[c].snap : tq'[t].st # "absent"
              /\ LockTries(c)'
         /\ \A a : Admitted(a)' = {c \in Counted(claims') : Tries(c, a)}
<1>1. \A c \in Claim : claims[c].cand \subseteq Task /\ claims'[c].cand \subseteq Task
                       /\ claims'[c].snap \subseteq Task
  BY DEF TypeOK, ClaimState
<1>2. ASSUME NEW c \in Claim, NEW t \in claims'[c].cand \cup claims'[c].snap
      PROVE  tq'[t].st # "absent" /\ tq'[t].agent = tq[t].agent
  <2>1. t \in Task /\ tq[t].st # "absent"
    BY <1>1 DEF ClaimRows
  <2> QED BY <2>1 DEF RowsKept, Kept
<1>3. ASSUME NEW c \in Claim, claims'[c].pc \in {"select", "lock"}
      PROVE  /\ \A t \in Task : First(claims[c].cand, t)' <=> First(claims[c].cand, t)
             /\ \A t \in Task : First(claims[c].cand, t) => tq'[t].agent = tq[t].agent
             /\ \A a : Tries(c, a)' <=> Tries(c, a)
  <2>1. claims'[c].cand = claims[c].cand
    BY <1>3 DEF ClaimRows
  <2>2. \A t \in claims[c].cand : tq[t].st # "absent"
    BY DEF CapacityInv
  <2> QED BY <1>1, <2>1, <2>2, FirstKept
<1>4. ASSUME NEW c \in Claim PROVE LockTries(c)'
  <2>1. ASSUME claims'[c].pc = "lock", NEW t \in claims'[c].snap
        PROVE  \E u \in Task : First(claims[c].cand, u)' /\ tq'[u].agent = tq'[t].agent
    <3>1. Tries(c, tq[t].agent) /\ tq'[t].agent = tq[t].agent
      BY <1>2, <2>1 DEF ClaimRows
    <3>2. PICK u \in Task : First(claims[c].cand, u) /\ tq[u].agent = tq[t].agent
      BY <3>1 DEF Tries
    <3> QED BY <1>3, <2>1, <3>1, <3>2
  <2> QED BY <2>1 DEF LockTries, Tries
<1>5. ASSUME NEW a PROVE Admitted(a)' = {c \in Counted(claims') : Tries(c, a)}
  BY <1>3 DEF Admitted, Counted
<1> QED BY <1>2, <1>4, <1>5

LEMMA NextRunning ==
  ASSUME TypeOK, \/ EndStep
                 \/ \E t \in Task : \E row :
                      row.st = "queued" /\ IsNextId(t) /\ Insert(t, row)
                 \/ \E t \in Task : tq[t].st = "dispatched"
                                    /\ tq' = [tq EXCEPT ![t].st = "running"],
         NEW a
  PROVE  RunningTasks(a)' \subseteq RunningTasks(a)
<1>1. CASE EndStep
  BY <1>1 DEF EndStep, EndsOrStays, Ends, Fails, LosesChat, Active, Live, Kept,
              Completable, RunningTasks
<1>2. ASSUME NEW t \in Task, NEW row, row.st = "queued", IsNextId(t), Insert(t, row)
      PROVE  RunningTasks(a)' \subseteq RunningTasks(a)
  <2>1. tq'[t] = row /\ \A u \in Task \ {t} : tq'[u] = tq[u]
    BY <1>2, InsertRow
  <2> QED BY <1>2, <2>1 DEF RunningTasks, Active
<1>3. ASSUME NEW t \in Task, tq[t].st = "dispatched", tq' = [tq EXCEPT ![t].st = "running"]
      PROVE  RunningTasks(a)' \subseteq RunningTasks(a)
  <2>1. /\ tq'[t].st = "running" /\ tq'[t].agent = tq[t].agent
        /\ \A u \in Task \ {t} : tq'[u] = tq[u]
    BY <1>3, MoveRow DEF Kept
  <2> QED BY <1>3, <2>1 DEF RunningTasks, Active
<1> QED BY <1>1, <1>2, <1>3

(* Nothing that does not count or dispatch uses up capacity. *)
LEMMA CalmCapacity ==
  ASSUME TypeOK, TypeOK', FiniteTable, CapacityInv, RowsKept,
         \A c \in Claim : ClaimRows(c),
         Counted(claims') \subseteq Counted(claims),
         \A a \in Agent : RunningTasks(a)' \subseteq RunningTasks(a)
  PROVE  CapacityInv'
<1>1. \A c \in Claim :
        /\ \A t \in claims'[c].cand \cup claims'[c].snap : tq'[t].st # "absent"
        /\ LockTries(c)'
  BY ClaimRowsKeep
<1>2. ASSUME NEW a \in Agent
      PROVE  Cardinality(RunningTasks(a))' + Cardinality(Admitted(a))' + 1
               <= MaxConcurrent[a] + Cardinality(Claim)
  <2>1. Admitted(a)' \subseteq Admitted(a)
    BY ClaimRowsKeep DEF Admitted, Counted
  <2>2. /\ Cardinality(Admitted(a)) \in Nat /\ Cardinality(Admitted(a)') \in Nat
        /\ Cardinality(Admitted(a)') <= Cardinality(Admitted(a))
    BY <2>1, AdmittedFinite, FS_Subset, FS_CardinalityType
  <2>3. /\ Cardinality(RunningTasks(a)) \in Nat /\ Cardinality(RunningTasks(a)') \in Nat
        /\ Cardinality(RunningTasks(a)') <= Cardinality(RunningTasks(a))
    BY RunningFinite, FS_Subset, FS_CardinalityType
  <2>4. Cardinality(RunningTasks(a)) + Cardinality(Admitted(a)) + 1
          <= MaxConcurrent[a] + Cardinality(Claim)
    BY DEF CapacityInv
  <2>5. MaxConcurrent[a] \in Nat /\ Cardinality(Claim) \in Nat
    BY ConfigAssumption, ClaimAssumption, FS_CardinalityType
  <2> QED BY <2>2, <2>3, <2>4, <2>5
<1> QED BY <1>1, <1>2 DEF CapacityInv, LockTries

(* A request that has counted takes a place that its own absence left free. *)
LEMMA CountCapacity ==
  ASSUME TypeOK, TypeOK', FiniteTable, CapacityInv, UNCHANGED tq,
         NEW c \in Claim, NEW a \in Agent, Tries(c, a), HasCapacity(a),
         claims[c].pc = "count", claims' = [claims EXCEPT ![c].pc = "select"]
  PROVE  CapacityInv'
<1>1. /\ claims'[c].pc = "select" /\ claims'[c].cand = claims[c].cand
      /\ claims'[c].snap = claims[c].snap
      /\ \A d \in Claim \ {c} : claims'[d] = claims[d]
  BY DEF TypeOK, ClaimState
<1>2. RowsKept
  BY DEF RowsKept, Kept
<1>3. \A d \in Claim : ClaimRows(d)
  BY <1>1 DEF ClaimRows, CapacityInv
<1>4. /\ \A d \in Claim :
           /\ \A t \in claims'[d].cand \cup claims'[d].snap : tq'[t].st # "absent"
           /\ LockTries(d)'
      /\ \A b : Admitted(b)' = {d \in Counted(claims') : Tries(d, b)}
  BY <1>2, <1>3, ClaimRowsKeep
<1>5. ASSUME NEW b \in Agent
      PROVE  Cardinality(RunningTasks(b))' + Cardinality(Admitted(b))' + 1
               <= MaxConcurrent[b] + Cardinality(Claim)
  <2>1. MaxConcurrent[b] \in Nat /\ Cardinality(Claim) \in Nat
    BY ConfigAssumption, ClaimAssumption, FS_CardinalityType
  <2>2. RunningTasks(b)' = RunningTasks(b) /\ Cardinality(RunningTasks(b)) \in Nat
    BY RunningFinite, FS_CardinalityType DEF RunningTasks, Active
  <2>3. CASE b = a
    <3>1. Cardinality(RunningTasks(a)) < MaxConcurrent[a]
      BY DEF HasCapacity
    <3>2. Admitted(a)' \in SUBSET Claim
      BY DEF Admitted
    <3>3. Cardinality(Admitted(a)') <= Cardinality(Claim) /\ Cardinality(Admitted(a)') \in Nat
      BY <3>2, ClaimAssumption, FS_Subset, FS_CardinalityType
    <3> QED BY <2>1, <2>2, <2>3, <3>1, <3>3
  <2>4. CASE b # a
    <3>1. ~Tries(c, b)
      BY <2>4, TriesOne
    <3>2. Admitted(b)' \subseteq Admitted(b)
      BY <1>1, <1>4, <3>1 DEF Admitted, Counted
    <3>3. /\ Cardinality(Admitted(b)) \in Nat /\ Cardinality(Admitted(b)') \in Nat
          /\ Cardinality(Admitted(b)') <= Cardinality(Admitted(b))
      BY <3>2, AdmittedFinite, FS_Subset, FS_CardinalityType
    <3>4. Cardinality(RunningTasks(b)) + Cardinality(Admitted(b)) + 1
            <= MaxConcurrent[b] + Cardinality(Claim)
      BY DEF CapacityInv
    <3> QED BY <2>1, <2>2, <3>3, <3>4
  <2> QED BY <2>3, <2>4
<1> QED BY <1>4, <1>5 DEF CapacityInv, LockTries

(* A dispatch turns a place into a task. *)
LEMMA DispatchCapacity ==
  ASSUME TypeOK, TypeOK', FiniteTable, CapacityInv, RowsKept,
         NEW c \in Claim, NEW t \in Task, claims[c].pc = "lock", t \in claims[c].snap,
         tq' = [tq EXCEPT ![t].st = "dispatched"],
         \A d \in Claim : ClaimRows(d),
         Counted(claims') \subseteq Counted(claims) \ {c}
  PROVE  CapacityInv'
<1>1. /\ \A d \in Claim :
           /\ \A u \in claims'[d].cand \cup claims'[d].snap : tq'[u].st # "absent"
           /\ LockTries(d)'
      /\ \A b : Admitted(b)' = {d \in Counted(claims') : Tries(d, b)}
  BY ClaimRowsKeep
<1>2. Tries(c, tq[t].agent)
  BY DEF CapacityInv
<1>3. /\ tq'[t].agent = tq[t].agent
      /\ \A u \in Task \ {t} : tq'[u] = tq[u]
  BY MoveRow DEF Kept
<1>4. ASSUME NEW a \in Agent
      PROVE  Cardinality(RunningTasks(a))' + Cardinality(Admitted(a))' + 1
               <= MaxConcurrent[a] + Cardinality(Claim)
  <2>1. MaxConcurrent[a] \in Nat /\ Cardinality(Claim) \in Nat
    BY ConfigAssumption, ClaimAssumption, FS_CardinalityType
  <2>2. /\ IsFiniteSet(RunningTasks(a)) /\ Cardinality(RunningTasks(a)) \in Nat
        /\ IsFiniteSet(Admitted(a)) /\ Cardinality(Admitted(a)) \in Nat
    BY RunningFinite, AdmittedFinite, FS_CardinalityType
  <2>3. Cardinality(RunningTasks(a)) + Cardinality(Admitted(a)) + 1
          <= MaxConcurrent[a] + Cardinality(Claim)
    BY DEF CapacityInv
  <2>4. Admitted(a)' \subseteq Admitted(a) \ {c}
    BY <1>1 DEF Admitted, Counted
  <2>5. CASE tq[t].agent = a
    <3>1. c \in Admitted(a)
      BY <1>2, <2>5 DEF Admitted
    <3>2. /\ IsFiniteSet(Admitted(a) \ {c})
          /\ Cardinality(Admitted(a) \ {c}) = Cardinality(Admitted(a)) - 1
      BY <2>2, <3>1, FS_RemoveElement
    <3>3. /\ Cardinality(Admitted(a)') \in Nat
          /\ Cardinality(Admitted(a)') <= Cardinality(Admitted(a)) - 1
      BY <2>4, <3>2, FS_Subset, FS_CardinalityType
    <3>4. RunningTasks(a)' \subseteq RunningTasks(a) \cup {t}
      BY <1>3 DEF RunningTasks, Active
    <3>5. /\ IsFiniteSet(RunningTasks(a) \cup {t})
          /\ Cardinality(RunningTasks(a) \cup {t}) <= Cardinality(RunningTasks(a)) + 1
      <4>1. \A R : IsFiniteSet(R) =>
              /\ IsFiniteSet(R \cup {t})
              /\ Cardinality(R \cup {t}) = IF t \in R THEN Cardinality(R)
                                           ELSE Cardinality(R) + 1
        BY FS_AddElement
      <4>2. Cardinality(RunningTasks(a) \cup {t})
              \in {Cardinality(RunningTasks(a)), Cardinality(RunningTasks(a)) + 1}
        BY <2>2, <4>1
      <4> QED BY <2>2, <4>1, <4>2
    <3>6. /\ Cardinality(RunningTasks(a)') \in Nat
          /\ Cardinality(RunningTasks(a) \cup {t}) \in Nat
          /\ Cardinality(RunningTasks(a)') <= Cardinality(RunningTasks(a) \cup {t})
      BY <3>4, <3>5, FS_Subset, FS_CardinalityType
    <3> QED BY <2>1, <2>2, <2>3, <3>3, <3>5, <3>6
  <2>6. CASE tq[t].agent # a
    <3>1. RunningTasks(a)' \subseteq RunningTasks(a)
      BY <1>3, <2>6 DEF RunningTasks, Active
    <3>2. /\ Cardinality(RunningTasks(a)') \in Nat
          /\ Cardinality(RunningTasks(a)') <= Cardinality(RunningTasks(a))
      BY <2>2, <3>1, FS_Subset, FS_CardinalityType
    <3>3. Admitted(a)' \subseteq Admitted(a)
      BY <2>4
    <3>4. /\ Cardinality(Admitted(a)') \in Nat
          /\ Cardinality(Admitted(a)') <= Cardinality(Admitted(a))
      BY <2>2, <3>3, FS_Subset, FS_CardinalityType
    <3> QED BY <2>1, <2>2, <2>3, <3>2, <3>4
  <2> QED BY <2>5, <2>6
<1> QED BY <1>1, <1>4 DEF CapacityInv, LockTries

LEMMA NextAgentRows ==
  ASSUME TypeOK, CapacityInv, NEW c \in Claim, NEW a, NextAgent(c, a)
  PROVE  /\ \A d \in Claim : ClaimRows(d)
         /\ Counted(claims') \subseteq Counted(claims) \ {c}
<1>1. /\ claims'[c].pc \in {"idle", "count"}
      /\ claims'[c].cand \cup claims'[c].snap \subseteq claims[c].cand
      /\ \A d \in Claim \ {c} : claims'[d] = claims[d]
  BY DEF NextAgent, TypeOK, ClaimState, IdleClaim
<1>2. \A d \in Claim : ClaimRows(d)
  BY <1>1 DEF ClaimRows, CapacityInv
<1>3. Counted(claims') \subseteq Counted(claims) \ {c}
  BY <1>1 DEF Counted
<1> QED BY <1>2, <1>3

(* A claim step that ends a request, or leaves it where it is. *)
LEMMA SameClaimsRows ==
  ASSUME CapacityInv,
         \A d \in Claim : \/ claims'[d] = IdleClaim
                          \/ /\ claims'[d].pc = claims[d].pc
                             /\ claims'[d].cand = claims[d].cand
                             /\ claims'[d].snap = claims[d].snap
  PROVE  /\ \A d \in Claim : ClaimRows(d)
         /\ Counted(claims') \subseteq Counted(claims)
BY DEF ClaimRows, Counted, CapacityInv, IdleClaim

LEMMA DispatchCapacityInv ==
  ASSUME TypeOK, TypeOK', FiniteTable, CapacityInv, RowsKept,
         NEW c \in Claim, NEW t \in Task, ClaimDispatch(c, t)
  PROVE  CapacityInv'
<1>1. /\ claims[c].pc = "lock" /\ t \in claims[c].snap
      /\ tq' = [tq EXCEPT ![t].st = "dispatched"]
  BY DEF ClaimDispatch, First, StillQueued
<1>2. /\ \A d \in Claim : ClaimRows(d)
      /\ Counted(claims') \subseteq Counted(claims) \ {c}
  <2>1. CASE tq[t].rt = claims[c].rt
    <3>1. /\ claims'[c].pc = "reply" /\ claims'[c].cand = {} /\ claims'[c].snap = {}
          /\ \A d \in Claim \ {c} : claims'[d] = claims[d]
      BY <2>1 DEF ClaimDispatch, TypeOK
    <3> QED BY <3>1 DEF ClaimRows, Counted, CapacityInv
  <2>2. CASE tq[t].rt # claims[c].rt
    BY <2>2, NextAgentRows DEF ClaimDispatch
  <2> QED BY <2>1, <2>2
<1> QED BY <1>1, <1>2, DispatchCapacity

LEMMA ClaimCapacityInv ==
  ASSUME TypeOK, TypeOK', FiniteTable, CapacityInv, RowsKept, ClaimNext
  PROVE  CapacityInv'
<1> USE DEF rowVars
<1>1. PICK c \in Claim :
         \/ \E r \in Runtime : ClaimList(c, r)
         \/ \E t \in Task : ClaimDispatch(c, t)
         \/ ClaimCount(c) \/ ClaimSelect(c) \/ ClaimLostRace(c)
         \/ ClaimReply(c) \/ ClaimForeign(c) \/ ClaimDisconnect(c) \/ ClaimAbort(c)
  BY DEF ClaimNext
<1>2. claims[c] \in ClaimState
  BY DEF TypeOK
<1>3. ASSUME UNCHANGED tq, \A d \in Claim : ClaimRows(d),
             Counted(claims') \subseteq Counted(claims)
      PROVE  CapacityInv'
  BY <1>3, CalmCapacity DEF RunningTasks, Active
<1>4. ASSUME UNCHANGED tq, NEW a, NextAgent(c, a) PROVE CapacityInv'
  BY <1>3, <1>4, NextAgentRows
<1>5. ASSUME NEW r \in Runtime, ClaimList(c, r) PROVE CapacityInv'
  <2>1. /\ claims'[c].pc = "count" /\ claims'[c].snap = {}
        /\ \A t \in claims'[c].cand : tq[t].st # "absent"
        /\ \A d \in Claim \ {c} : claims'[d] = claims[d]
    BY <1>5 DEF ClaimList, TypeOK, Queued
  <2>2. (\A d \in Claim : ClaimRows(d)) /\ Counted(claims') \subseteq Counted(claims)
    BY <2>1 DEF ClaimRows, Counted, CapacityInv
  <2> QED BY <1>3, <1>5, <2>2 DEF ClaimList
<1>6. ASSUME NEW t \in Task, ClaimDispatch(c, t) PROVE CapacityInv'
  BY <1>6, DispatchCapacityInv
<1>7. ASSUME ClaimCount(c) PROVE CapacityInv'
  BY <1>4, <1>7, CountCapacity DEF ClaimCount
<1>8. ASSUME ClaimSelect(c) PROVE CapacityInv'
  <2>1. ASSUME NEW a \in Agent, Tries(c, a),
               claims' = [claims EXCEPT ![c].pc = "lock",
                                        ![c].snap = {t \in Task : Claimable(t, a)}]
        PROVE  CapacityInv'
    <3>1. /\ claims'[c].pc = "lock" /\ claims'[c].cand = claims[c].cand
          /\ claims'[c].snap = {t \in Task : Claimable(t, a)}
          /\ \A d \in Claim \ {c} : claims'[d] = claims[d]
      BY <1>2, <2>1 DEF TypeOK, ClaimState
    <3>2. \A t \in claims'[c].snap : tq[t].st # "absent" /\ tq[t].agent = a
      BY <3>1 DEF Claimable, Queued
    <3>3. \A d \in Claim : ClaimRows(d)
      <4>1. ASSUME NEW d \in Claim, d # c PROVE ClaimRows(d)
        BY <3>1, <4>1 DEF ClaimRows, CapacityInv
      <4>2. \A t \in claims'[c].cand : tq[t].st # "absent"
        BY <3>1 DEF CapacityInv
      <4>3. ClaimRows(c)
        BY <2>1, <3>1, <3>2, <4>2 DEF ClaimRows
      <4> QED BY <4>1, <4>3
    <3>4. Counted(claims') \subseteq Counted(claims)
      BY <1>8, <3>1 DEF Counted, ClaimSelect
    <3> QED BY <1>3, <1>8, <3>3, <3>4 DEF ClaimSelect
  <2> QED BY <1>4, <1>8, <2>1 DEF ClaimSelect
<1>9. ASSUME ClaimLostRace(c) PROVE CapacityInv'
  BY <1>4, <1>9 DEF ClaimLostRace
<1>10. ASSUME ClaimReply(c) \/ ClaimAbort(c) PROVE CapacityInv'
  <2>1. \A d \in Claim : claims'[d] = IdleClaim \/ claims'[d] = claims[d]
    BY <1>10 DEF ClaimReply, ClaimAbort, TypeOK
  <2> QED BY <1>3, <1>10, <2>1, SameClaimsRows DEF ClaimReply, ClaimAbort
<1>11. ASSUME ClaimForeign(c) PROVE CapacityInv'
  <2>1. \A d \in Claim : claims'[d] = IdleClaim \/ claims'[d] = claims[d]
    BY <1>11 DEF ClaimForeign, TypeOK
  <2>2. \A a : RunningTasks(a)' \subseteq RunningTasks(a)
    <3>1. EndStep
      <4>1. ASSUME NEW t \in Task PROVE EndsOrStays(t)
        <5>1. tq[t] \in Row
          BY DEF TypeOK
        <5> QED BY <1>11, <5>1 DEF ClaimForeign, EndsOrStays, Ends, Kept, Row, TypeOK
      <4> QED BY <1>11, <4>1 DEF ClaimForeign, EndStep, agentVars
    <3> QED BY <3>1, NextRunning
  <2> QED BY <2>1, <2>2, SameClaimsRows, CalmCapacity
<1>12. ASSUME ClaimDisconnect(c) PROVE CapacityInv'
  <2>1. \A d \in Claim : /\ claims'[d].pc = claims[d].pc
                         /\ claims'[d].cand = claims[d].cand
                         /\ claims'[d].snap = claims[d].snap
    BY <1>2, <1>12 DEF ClaimDisconnect, TypeOK, ClaimState
  <2> QED BY <1>3, <1>12, <2>1, SameClaimsRows DEF ClaimDisconnect
<1> QED BY <1>1, <1>5, <1>6, <1>7, <1>8, <1>9, <1>10, <1>11, <1>12

(* No step of the others counts or dispatches. *)
LEMMA OtherKinds ==
  ASSUME TypeOK, \/ EnqueueNext \/ TaskNext \/ UserNext \/ RuntimeNext \/ UNCHANGED vars
  PROVE  \/ EndStep
         \/ \E q \in Request, t \in Task : EnqueueInsert(q, t)
         \/ \E p \in Task, t \in Task : CreateRetryTask(p, t)
         \/ \E t \in Task : StartStep(t)
BY EnqueueKinds, TaskKinds, UserKinds, RuntimeKinds, StaysEnds DEF vars

LEMMA OtherCapacityInv ==
  ASSUME TypeOK, TypeOK', FiniteTable, CapacityInv, RowsKept,
         \/ EnqueueNext \/ TaskNext \/ UserNext \/ RuntimeNext \/ UNCHANGED vars
  PROVE  CapacityInv'
<1>1. ASSUME NEW a PROVE RunningTasks(a)' \subseteq RunningTasks(a)
  <2>1. CASE EndStep
    BY <2>1, NextRunning
  <2>2. ASSUME NEW q \in Request, NEW t \in Task, EnqueueInsert(q, t)
        PROVE  RunningTasks(a)' \subseteq RunningTasks(a)
    <3>1. NewRow(enqueues[q]).st = "queued"
      BY DEF NewRow
    <3> QED BY <2>2, <3>1, NextRunning DEF EnqueueInsert
  <2>3. ASSUME NEW p \in Task, NEW t \in Task, CreateRetryTask(p, t)
        PROVE  RunningTasks(a)' \subseteq RunningTasks(a)
    <3>1. RetryRow(p).st = "queued"
      BY DEF RetryRow
    <3> QED BY <2>3, <3>1, NextRunning DEF CreateRetryTask
  <2>4. ASSUME NEW t \in Task, StartStep(t)
        PROVE  RunningTasks(a)' \subseteq RunningTasks(a)
    BY <2>4, NextRunning DEF StartStep
  <2> QED
    BY <2>1, <2>2, <2>3, <2>4, OtherKinds
<1>2. \A d \in Claim : \/ claims'[d] = IdleClaim
                       \/ /\ claims'[d].pc = claims[d].pc
                          /\ claims'[d].cand = claims[d].cand
                          /\ claims'[d].snap = claims[d].snap
  <2>1. CASE UNCHANGED claims
    BY <2>1
  <2>2. ASSUME NEW r, claims' = Disconnected(r)
        PROVE  \A d \in Claim : /\ claims'[d].pc = claims[d].pc
                                /\ claims'[d].cand = claims[d].cand
                                /\ claims'[d].snap = claims[d].snap
    BY <2>2 DEF Disconnected, TypeOK, ClaimState
  <2>3. CASE EnqueueNext
    BY <2>1, <2>3 DEF EnqueueNext, EnqueueRead, EnqueueInsert, EnqueueRefused
  <2>4. CASE TaskNext
    BY <2>1, <2>4
       DEF TaskNext, StartTask, StartTaskError, ReportFailure, ReportCompletion,
           Interrupt, RetryRefused, CreateRetryTask
  <2>5. CASE UserNext
    BY <2>1, <2>2, <2>5
       DEF UserNext, CancelTask, CancelTasksForIssue, CancelTasksByTriggerComment,
           CancelTasksForIssueAgent, CancelTasksForAgent, DeleteChatSession,
           ArchiveAgent, RestoreAgent, MoveAgent, DaemonUnwatch
  <2>6. CASE ServerRestart
    BY <2>6 DEF ServerRestart
  <2>7. CASE RuntimeNext /\ ~ServerRestart
    BY <2>1, <2>2, <2>7
       DEF RuntimeNext, SweepRuntimes, SweepTasks, SweepStaleTasks, Heartbeat,
           DaemonStop, DaemonRegister, RecoverOrphans
  <2>8. CASE UNCHANGED vars
    BY <2>1, <2>8 DEF vars
  <2> QED BY <2>3, <2>4, <2>5, <2>6, <2>7, <2>8
<1>3. (\A d \in Claim : ClaimRows(d)) /\ Counted(claims') \subseteq Counted(claims)
  BY <1>2, SameClaimsRows
<1> QED BY <1>1, <1>3, CalmCapacity

LEMMA InitCapacityInv == ASSUME Init PROVE CapacityInv /\ FiniteTable
<1>1. \A a : RunningTasks(a) = {}
  BY DEF Init, RunningTasks, Active, AbsentRow
<1>2. \A a : Admitted(a) = {}
  BY DEF Init, Admitted, IdleClaim
<1>3. Table = {}
  BY DEF Init, Table, AbsentRow
<1>4. \A a \in Agent : MaxConcurrent[a] \in Nat \ {0}
  BY ConfigAssumption
<1>5. Cardinality(Claim) \in Nat
  BY ClaimAssumption, FS_CardinalityType
<1>6. \A a \in Agent :
        Cardinality(RunningTasks(a)) + Cardinality(Admitted(a)) + 1
          <= MaxConcurrent[a] + Cardinality(Claim)
  <2>1. Cardinality({}) = 0
    BY FS_EmptySet
  <2>2. TAKE a \in Agent
  <2>3. Cardinality(RunningTasks(a)) = 0 /\ Cardinality(Admitted(a)) = 0
    BY <1>1, <1>2, <2>1
  <2> QED BY <1>4, <1>5, <2>3
<1>7. \A c \in Claim :
        /\ \A t \in claims[c].cand \cup claims[c].snap : tq[t].st # "absent"
        /\ claims[c].pc = "lock" => \A t \in claims[c].snap : Tries(c, tq[t].agent)
  BY DEF Init, IdleClaim
<1> QED BY <1>3, <1>6, <1>7, FS_EmptySet DEF CapacityInv, FiniteTable

(* Every claim request that has counted has its place among the agent's       *)
(* tasks until it dispatches or gives up: the strengthening.                  *)
THEOREM CapacityInvariant == Spec => [](CapacityInv /\ FiniteTable)
<1>1. Init => CapacityInv /\ FiniteTable
  BY InitCapacityInv
<1>2. TypeOK /\ (CapacityInv /\ FiniteTable) /\ [Next]_vars => (CapacityInv /\ FiniteTable)'
  BY NextType, NextRowsKept, NextFiniteTable, ClaimCapacityInv, OtherCapacityInv
     DEF Next
<1> QED BY <1>1, <1>2, TypeCorrect, PTL DEF Spec

(* An agent has at most one active task too many for each further claim       *)
(* request in flight.                                                         *)
THEOREM ActiveIsBounded == Spec => []ActiveBounded
<1>1. CapacityInv /\ FiniteTable => ActiveBounded
  <2> SUFFICES ASSUME CapacityInv, FiniteTable, NEW a \in Agent
               PROVE  Cardinality(RunningTasks(a)) + 1
                        <= MaxConcurrent[a] + Cardinality(Claim)
    BY DEF ActiveBounded
  <2>1. Cardinality(RunningTasks(a)) \in Nat /\ Cardinality(Admitted(a)) \in Nat
    BY RunningFinite, AdmittedFinite, FS_CardinalityType
  <2>2. MaxConcurrent[a] \in Nat /\ Cardinality(Claim) \in Nat
    BY ConfigAssumption, ClaimAssumption, FS_CardinalityType
  <2> QED BY <2>1, <2>2 DEF CapacityInv
<1> QED BY <1>1, CapacityInvariant, PTL
=============================================================================
