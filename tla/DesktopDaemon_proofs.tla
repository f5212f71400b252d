------------------------ MODULE DesktopDaemon_proofs ------------------------
(***************************************************************************)
(* Proofs about DesktopDaemon, for any operations at once, users and        *)
(* versions.  For any number of overlapping effects of logins and logouts:  *)
(* the flag operationInProgress never outlives the operation that set it,   *)
(* and every reachable state is well typed, which takes an order among the  *)
(* steps of an operation.                                                   *)
(***************************************************************************)
EXTENDS DesktopDaemon, SequenceTheorems, TLAPS

(* An operation that holds the guard starts or stops the daemon, and does   *)
(* nothing else before it is done; only an effect of the session or a       *)
(* button of the card can hold it.                                          *)
GuardSteps == {"startCli", "startHealth", "startExec", "stopCli", "stopExec"}

Operation(r) ==
    /\ "todo" \in DOMAIN r
    /\ r.todo \in Seq(Steps)

ProcOK ==
    /\ proc = [p \in Procs |-> proc[p]]
    /\ \A p \in Procs : Operation(proc[p])

HolderOK ==
    guard # Nobody =>
        /\ guard \in Sessions \cup {"panel"}
        /\ proc[guard].todo # <<>>
        /\ proc[guard].todo \in Seq(GuardSteps)

GuardInv == ProcOK /\ HolderOK

-----------------------------------------------------------------------------
LEMMA NotEmpty ==
    ASSUME NEW S, NEW q \in Seq(S), Len(q) > 0
    PROVE  q # <<>>
  OBVIOUS

LEMMA Scripts ==
    /\ \A q \in {Starting, Stopping, Restarting} :
          q \in Seq(GuardSteps) /\ q \in Seq(Steps) /\ q # <<>>
    /\ \A q \in {Checking, Writing, LoggingIn, Clearing, <<"bootCli">>,
                 <<"pollSet">>} : q \in Seq(Steps)
<1>1. Starting \in Seq(GuardSteps) /\ Starting \in Seq(Steps) /\ Len(Starting) = 3
  BY DEF Starting, GuardSteps, Steps
<1>2. Stopping \in Seq(GuardSteps) /\ Stopping \in Seq(Steps) /\ Len(Stopping) = 2
  BY DEF Stopping, GuardSteps, Steps
<1>3. /\ Restarting \in Seq(GuardSteps) /\ Restarting \in Seq(Steps)
      /\ Len(Restarting) = 5
  <2> HIDE DEF Starting, Stopping, GuardSteps, Steps
  <2>1. /\ Stopping \o Starting \in Seq(GuardSteps)
        /\ Len(Stopping \o Starting) = Len(Stopping) + Len(Starting)
    BY <1>1, <1>2, ConcatProperties
  <2>2. Stopping \o Starting \in Seq(Steps)
    BY <1>1, <1>2, ConcatProperties
  <2> QED
    BY <2>1, <2>2, <1>1, <1>2 DEF Restarting
<1>4. \A q \in {Starting, Stopping, Restarting} :
          q \in Seq(GuardSteps) /\ q \in Seq(Steps) /\ q # <<>>
  <2> HIDE DEF Starting, Stopping, Restarting, GuardSteps, Steps
  <2>2. Starting # <<>>
    BY <1>1, NotEmpty
  <2>3. Stopping # <<>>
    BY <1>2, NotEmpty
  <2>4. Restarting # <<>>
    BY <1>3, NotEmpty
  <2> QED
    BY <2>2, <2>3, <2>4, <1>1, <1>2, <1>3
<1>5. AutoStarting \in Seq(Steps) /\ <<"writeConfig", "writeUser", "syncHealth">> \in Seq(Steps)
      /\ <<"syncRead", "mint">> \in Seq(Steps)
  BY DEF AutoStarting, Steps
<1>6. Writing \in Seq(Steps)
  BY <1>5, ConcatProperties DEF Writing
<1>7. LoggingIn \in Seq(Steps)
  BY <1>5, <1>6, ConcatProperties DEF LoggingIn
<1>8. Checking \in Seq(Steps) /\ Clearing \in Seq(Steps)
      /\ <<"bootCli">> \in Seq(Steps) /\ <<"pollSet">> \in Seq(Steps)
  BY DEF Checking, Clearing, Steps
<1> QED
  BY <1>4, <1>6, <1>7, <1>8

LEMMA Launched ==
    ASSUME ProcOK, NEW p \in Procs, NEW q \in Seq(Steps), NEW r,
           Operation(r), r.todo = q, proc' = Launch(p, r)
    PROVE  /\ ProcOK' /\ proc'[p] = r
           /\ \A x \in Procs : x # p => proc'[x] = proc[x]
  BY DEF ProcOK, Launch

LEMMA OpIsOperation ==
    ASSUME NEW q \in Seq(Steps)
    PROVE  Operation(Op(q)) /\ Op(q).todo = q
<1>1. "todo" \in DOMAIN Idle
  BY DEF Idle
<1>2. PICK i : i = Idle
  OBVIOUS
<1>3. Op(q) = [i EXCEPT !.todo = q] /\ "todo" \in DOMAIN i
  BY <1>1, <1>2 DEF Op
<1>4. "todo" \in DOMAIN [i EXCEPT !.todo = q] /\ [i EXCEPT !.todo = q].todo = q
  BY <1>3
<1> QED
  BY <1>3, <1>4 DEF Operation

LEMMA IdleIsOperation == Operation(Idle) /\ Idle.todo = <<>>
<1>1. <<>> \in Seq(Steps)
  BY EmptySeq
<1> QED
  BY <1>1 DEF Idle, Operation

(* An operation that takes a step: if it holds the guard it goes on with    *)
(* steps of a start or a stop, or lets go.                                  *)
LEMMA BecomesOK ==
    ASSUME GuardInv, NEW p \in Procs, NEW r, Operation(r), Becomes(p, r),
           guard = p => r.todo \in Seq(GuardSteps)
    PROVE  GuardInv'
<1>1. Operation(Idle) /\ Idle.todo = <<>>
  BY IdleIsOperation
<1> DEFINE s == IF r.todo = <<>> THEN Idle ELSE r
<1>2. Operation(s) /\ s.todo = r.todo /\ proc' = Launch(p, s)
  BY <1>1 DEF Becomes
<1> HIDE DEF s
<1>3. /\ ProcOK' /\ proc'[p] = s
      /\ \A x \in Procs : x # p => proc'[x] = proc[x]
  BY <1>2, Launched DEF GuardInv, Operation
<1>4. HolderOK'
  BY <1>2, <1>3 DEF Becomes, GuardInv, HolderOK, Procs
<1> QED
  BY <1>3, <1>4 DEF GuardInv

(* The same for a step that only shortens or replaces the list.             *)
LEMMA ProceedOK ==
    ASSUME GuardInv, NEW p \in Procs, NEW q \in Seq(Steps), Proceed(p, q),
           guard = p => q \in Seq(GuardSteps)
    PROVE  GuardInv'
<1> DEFINE r == [proc[p] EXCEPT !.todo = q]
<1>1. Operation(proc[p])
  BY DEF GuardInv, ProcOK
<1>3. Operation(r) /\ r.todo = q
  BY <1>1 DEF Operation
<1> HIDE DEF r
<1> QED
  BY <1>3, BecomesOK DEF Proceed, r

(* What is left to do after a step, and that the guard's holder takes only  *)
(* steps of a start or a stop.                                              *)
LEMMA Rests ==
    ASSUME GuardInv, NEW p \in Procs, NEW step, At(p, step)
    PROVE  /\ Rest(p) \in Seq(Steps)
           /\ guard = p => step \in GuardSteps /\ Rest(p) \in Seq(GuardSteps)
           /\ Operation(proc[p])
<1> DEFINE q == proc[p].todo
<1>1. q \in Seq(Steps) /\ q # <<>> /\ Head(q) = step
  BY DEF GuardInv, ProcOK, Operation, At, Quiet
<1>2. p # Nobody
  BY DaemonAssumption DEF Procs
<1>3. guard = p => q \in Seq(GuardSteps)
  BY <1>2 DEF GuardInv, HolderOK
<1> HIDE DEF q
<1>4. Tail(q) \in Seq(Steps)
  BY <1>1
<1>5. guard = p => Head(q) \in GuardSteps /\ Tail(q) \in Seq(GuardSteps)
  BY <1>1, <1>3
<1> QED
  BY <1>1, <1>4, <1>5 DEF Rest, q, GuardInv, ProcOK

LEMMA NextOK ==
    ASSUME GuardInv, NEW p \in Procs, NEW step, At(p, step), Next1(p)
    PROVE  GuardInv'
  BY Rests, ProceedOK DEF Next1

LEMMA AbortOK ==
    ASSUME GuardInv, NEW p \in Procs, Abort(p)
    PROVE  GuardInv'
<1>1. <<>> \in Seq(Steps) /\ <<>> \in Seq(GuardSteps)
  BY EmptySeq
<1> QED
  BY <1>1, ProceedOK DEF Abort

(* The operation r is started as p, which does not hold the guard.          *)
LEMMA LaunchOK ==
    ASSUME GuardInv, NEW p \in Procs, NEW q \in Seq(Steps), NEW r,
           Operation(r), r.todo = q, proc' = Launch(p, r), guard # p,
           guard' = guard
    PROVE  GuardInv'
<1>1. /\ ProcOK' /\ \A x \in Procs : x # p => proc'[x] = proc[x]
  BY Launched DEF GuardInv
<1> QED
  BY <1>1 DEF GuardInv, HolderOK, Procs

(* The same for an operation that takes the guard.                          *)
LEMMA TakeOK ==
    ASSUME GuardInv, NEW p \in Sessions \cup {"panel"},
           NEW q \in {Starting, Stopping, Restarting},
           guard' = p, proc' = Launch(p, Op(q))
    PROVE  GuardInv'
<1>1. q \in Seq(GuardSteps) /\ q \in Seq(Steps) /\ q # <<>>
  BY Scripts
<1>2. Operation(Op(q)) /\ Op(q).todo = q
  BY <1>1, OpIsOperation
<1>3. p \in Procs
  BY DEF Procs
<1>4. ProcOK' /\ proc'[p] = Op(q)
  BY <1>1, <1>2, <1>3, Launched DEF GuardInv
<1> QED
  BY <1>1, <1>2, <1>4 DEF GuardInv, HolderOK

(* The steps of an effect of the session.                                   *)
LEMMA SessionStepOK ==
    ASSUME GuardInv, NEW p \in Sessions, SessionStep(p) \/ Mint(p)
    PROVE  GuardInv'
<1>1. p \in Procs
  BY DEF Procs
<1>8. CASE SyncRead(p)
  <2> DEFINE u == proc[p].who
             reuse == sidecar = u /\ cfg # NoUser
             t == IF reuse THEN Writing ELSE Rest(p)
             pt == IF reuse THEN cfg ELSE u
             y == sidecar \notin {NoUser, u}
             r == [proc[p] EXCEPT !.todo = t, !.pat = pt, !.yes = y]
  <2>1. At(p, "syncRead") /\ Becomes(p, r)
    BY <1>8 DEF SyncRead
  <2>2. Rest(p) \in Seq(Steps) /\ guard # p /\ Operation(proc[p])
    BY <2>1, <1>1, Rests DEF GuardSteps
  <2>3. t \in Seq(Steps)
    BY <2>2, Scripts
  <2> HIDE DEF t, pt, y
  <2>5. Operation(r) /\ r.todo = t
    BY <2>2, <2>3 DEF Operation
  <2> HIDE DEF r
  <2> QED
    BY <2>1, <2>2, <2>3, <2>5, <1>1, BecomesOK
<1>9. CASE Mint(p)
  BY <1>9, <1>1, NextOK, AbortOK DEF Mint
<1>10. CASE WriteConfig(p)
  BY <1>10, <1>1, NextOK DEF WriteConfig
<1>11. CASE WriteUser(p)
  BY <1>11, <1>1, NextOK DEF WriteUser
<1>12. CASE SyncHealth(p)
  <2> DEFINE o == Op(Restarting)
             r == Op(Rest(p))
  <2>1. At(p, "syncHealth")
    BY <1>12 DEF SyncHealth
  <2>2. Rest(p) \in Seq(Steps) /\ guard # p
    BY <2>1, <1>1, Rests DEF GuardSteps
  <2>3. Operation(r) /\ r.todo = Rest(p) /\ Operation(o)
    BY <2>2, OpIsOperation, Scripts
  <2> HIDE DEF o, r
  <2>4. CASE Becomes(p, r)
    BY <2>2, <2>3, <2>4, <1>1, BecomesOK
  <2>5. ASSUME NEW z \in Switches, guard' = guard,
               proc' = [proc EXCEPT ![p] = r, ![z] = o]
        PROVE  GuardInv'
    <3>1. z \in Procs /\ guard # z /\ z # p
      BY DaemonAssumption DEF Procs, GuardInv, HolderOK
    <3>2. proc = [x \in Procs |-> proc[x]]
      BY DEF GuardInv, ProcOK
    <3>3. /\ proc' = [x \in Procs |-> proc'[x]]
          /\ proc'[z] = o /\ proc'[p] = r
          /\ \A x \in Procs : x \notin {z, p} => proc'[x] = proc[x]
      BY <2>5, <3>1, <3>2, <1>1
    <3>4. ProcOK'
      BY <2>3, <3>3 DEF GuardInv, ProcOK
    <3>5. HolderOK'
      BY <2>2, <2>5, <3>1, <3>3 DEF GuardInv, HolderOK, Procs
    <3> QED
      BY <3>4, <3>5 DEF GuardInv
  <2> QED
    BY <1>12, <2>4, <2>5 DEF SyncHealth, o, r
<1>13. CASE AutoCli(p)
  BY <1>13, <1>1, NextOK, AbortOK DEF AutoCli
<1>14. CASE AutoHealth(p)
  <2>1. At(p, "autoHealth") /\ (Proceed(p, Checking) \/ Proceed(p, Starting))
    BY <1>14 DEF AutoHealth
  <2>2. guard # p
    BY <2>1, <1>1, Rests DEF GuardSteps
  <2>3. Checking \in Seq(Steps) /\ Starting \in Seq(Steps)
    BY Scripts
  <2> QED
    BY <2>1, <2>2, <2>3, <1>1, ProceedOK
<1>15. CASE ClearConfig(p)
  BY <1>15, <1>1, NextOK DEF ClearConfig
<1>16. CASE ClearUser(p)
  <2>1. At(p, "clearUser")
    BY <1>16 DEF ClearUser
  <2>2. CASE Abort(p)
    BY <2>2, <1>1, AbortOK
  <2>3. CASE guard = Nobody /\ guard' = p /\ proc' = Launch(p, Op(Stopping))
    BY <2>3, TakeOK
  <2> QED
    BY <1>16, <2>2, <2>3 DEF ClearUser
<1> QED
  BY <1>8, <1>9, <1>10, <1>11, <1>12, <1>13, <1>14, <1>15, <1>16
     DEF SessionStep

(* Every step of an operation.                                              *)
LEMMA StepOK ==
    ASSUME GuardInv, NEW p \in Procs, Step(p)
    PROVE  GuardInv'
<1>1. CASE StartCli(p)
  BY <1>1, NextOK, AbortOK DEF StartCli
<1>2. CASE StartHealth(p)
  BY <1>2, NextOK, AbortOK DEF StartHealth
<1>3. CASE StartExec(p)
  BY <1>3, NextOK, AbortOK DEF StartExec
<1>4. CASE StopCli(p)
  BY <1>4, NextOK, AbortOK DEF StopCli
<1>5. CASE StopExec(p)
  BY <1>5, NextOK, AbortOK DEF StopExec
<1>6. CASE CheckHealth(p)
  <2> DEFINE h == Health
             r == [proc[p] EXCEPT !.todo = Rest(p), !.seen = h]
  <2>1. At(p, "checkHealth") /\ Becomes(p, r)
    BY <1>6 DEF CheckHealth
  <2>2. Rest(p) \in Seq(Steps) /\ guard # p /\ Operation(proc[p])
    BY <2>1, Rests DEF GuardSteps
  <2> HIDE DEF h
  <2>4. Operation(r) /\ r.todo = Rest(p)
    BY <2>2 DEF Operation
  <2> HIDE DEF r
  <2> QED
    BY <2>1, <2>2, <2>4, BecomesOK
<1>7. CASE CheckCli(p)
  <2>1. PICK q \in {Restarting, Rest(p)} : Becomes(p, Op(q))
    BY <1>7 DEF CheckCli
  <2>2. At(p, "checkCli")
    BY <1>7 DEF CheckCli
  <2>3. guard # p /\ Rest(p) \in Seq(Steps)
    BY <2>2, Rests DEF GuardSteps
  <2>4. q \in Seq(Steps)
    BY <2>3, Scripts
  <2>5. Operation(Op(q))
    BY <2>4, OpIsOperation
  <2> QED
    BY <2>1, <2>3, <2>5, BecomesOK
<1> QED
  BY <1>1, <1>2, <1>3, <1>4, <1>5, <1>6, <1>7, SessionStepOK DEF Step
(* What the environment and the session start.                              *)
LEMMA NamesOfProcs ==
    /\ {"panel", "poll", "boot"} \cup Switches \cup Checks \subseteq Procs
    /\ \A p \in Procs : p # Nobody
    /\ Sessions \subseteq Procs
    /\ "poll" \notin Checks
    /\ GuardInv => guard \notin {"poll", "boot"} \cup Switches \cup Checks
  BY DaemonAssumption DEF Procs, GuardInv, HolderOK

LEMMA LogInOut ==
    ASSUME GuardInv, NEW p \in Sessions,
           Logout(p) \/ \E u \in Users : Login(p, u)
    PROVE  GuardInv'
<1>1. p \in Procs /\ p # Nobody /\ guard # p
  BY NamesOfProcs DEF Logout, Login, Quiet, GuardInv, HolderOK
<1>2. CASE Logout(p)
  <2>1. Clearing \in Seq(Steps) /\ proc' = Launch(p, Op(Clearing)) /\ guard' = guard
    BY <1>2, Scripts DEF Logout
  <2>2. Operation(Op(Clearing)) /\ Op(Clearing).todo = Clearing
    BY <2>1, OpIsOperation
  <2> HIDE DEF Clearing
  <2> QED
    BY <1>1, <2>1, <2>2, LaunchOK
<1>3. ASSUME NEW u \in Users, Login(p, u)
      PROVE  GuardInv'
  <2> DEFINE o == Op(LoggingIn)
             r == [o EXCEPT !.who = u]
  <2>1. LoggingIn \in Seq(Steps) /\ proc' = Launch(p, r) /\ guard' = guard
    BY <1>3, Scripts DEF Login
  <2>2. Operation(o) /\ o.todo = LoggingIn
    BY <2>1, OpIsOperation
  <2> HIDE DEF o
  <2>3. Operation(r) /\ r.todo = LoggingIn
    BY <2>2 DEF Operation
  <2> HIDE DEF r
  <2> QED
    BY <1>1, <2>1, <2>3, LaunchOK
<1> QED
  BY <1>2, <1>3

LEMMA PressOK ==
    ASSUME GuardInv, PanelStart \/ PanelStop \/ PanelRestart
    PROVE  GuardInv'
  BY TakeOK DEF PanelStart, PanelStop, PanelRestart, Press

LEMMA BootOK ==
    ASSUME GuardInv, RetryInstall \/ BootCli
    PROVE  GuardInv'
<1>1. CASE RetryInstall
  <2>1. <<"bootCli">> \in Seq(Steps)
    BY Scripts
  <2>2. Operation(Op(<<"bootCli">>)) /\ Op(<<"bootCli">>).todo = <<"bootCli">>
    BY <2>1, OpIsOperation
  <2> QED
    BY <1>1, <2>1, <2>2, NamesOfProcs, LaunchOK DEF RetryInstall
<1>2. CASE BootCli
  BY <1>2, NamesOfProcs, NextOK DEF BootCli
<1> QED
  BY <1>1, <1>2

LEMMA PollOK ==
    ASSUME GuardInv, Poll \/ PollSet
    PROVE  GuardInv'
<1>1. CASE Poll
  <2> DEFINE o == Op(<<"pollSet">>)
             y == Running(daemon)
             r == [o EXCEPT !.yes = y]
  <2>1. <<"pollSet">> \in Seq(Steps)
    BY Scripts
  <2>2. Operation(o) /\ o.todo = <<"pollSet">>
    BY <2>1, OpIsOperation
  <2>3. proc' = Launch("poll", r) /\ guard' = guard
    BY <1>1 DEF Poll
  <2> HIDE DEF o, y
  <2>4. Operation(r) /\ r.todo = <<"pollSet">>
    BY <2>2 DEF Operation
  <2> HIDE DEF r
  <2> QED
    BY <2>1, <2>3, <2>4, NamesOfProcs, LaunchOK
<1>2. CASE PollSet
  <2>1. Operation(Op(Checking)) /\ Operation(Idle)
    BY Scripts, OpIsOperation, IdleIsOperation
  <2>2. proc = [x \in Procs |-> proc[x]] /\ guard' = guard /\ guard # "poll"
    BY <1>2, NamesOfProcs DEF GuardInv, ProcOK, PollSet
  <2>3. PICK q \in Checks \cup {"poll"} :
           \A x \in Procs : proc'[x] = IF x = "poll" THEN Idle
                                      ELSE IF x = q THEN Op(Checking) ELSE proc[x]
    BY <1>2, <2>2, NamesOfProcs DEF PollSet, PollChecks, PollEnds, Launch
  <2>4. proc' = [x \in Procs |-> proc'[x]]
    BY <1>2, <2>2, NamesOfProcs DEF PollSet, PollChecks, PollEnds, Launch
  <2>5. ProcOK'
    BY <2>1, <2>3, <2>4 DEF GuardInv, ProcOK
  <2>6. HolderOK'
    BY <2>2, <2>3, NamesOfProcs DEF GuardInv, HolderOK, Procs
  <2> QED
    BY <2>5, <2>6 DEF GuardInv
<1> QED
  BY <1>1, <1>2

(* The application begins with bootstrapCli alone, and nobody's guard.      *)
LEMMA FreshOK ==
    ASSUME NEW f,
           f = [p \in Procs |-> IF p = "boot" THEN Op(<<"bootCli">>) ELSE Idle]
    PROVE  \A p \in Procs : Operation(f[p])
<1>1. <<"bootCli">> \in Seq(Steps)
  BY Scripts
<1>2. Operation(Op(<<"bootCli">>)) /\ Operation(Idle)
  BY <1>1, OpIsOperation, IdleIsOperation
<1> QED
  BY <1>2

LEMMA QuitOK ==
    ASSUME Quit
    PROVE  GuardInv'
  BY FreshOK DEF Quit, GuardInv, ProcOK, HolderOK

LEMMA GuardInvariant == Spec => []GuardInv
<1>1. Init => GuardInv
  BY FreshOK DEF Init, GuardInv, ProcOK, HolderOK
<1>2. ASSUME GuardInv, [Next]_vars
      PROVE  GuardInv'
  <2>1. CASE \E p \in Procs : Step(p)
    BY <1>2, <2>1, StepOK
  <2>2. CASE BootCli \/ RetryInstall
    BY <1>2, <2>2, BootOK
  <2>3. CASE Poll \/ PollSet
    BY <1>2, <2>3, PollOK
  <2>4. CASE \E p \in Sessions : Logout(p) \/ \E u \in Users : Login(p, u)
    BY <1>2, <2>4, LogInOut
  <2>5. CASE PanelStart \/ PanelStop \/ PanelRestart
    BY <1>2, <2>5, PressOK
  <2>6. CASE Quit
    BY <2>6, QuitOK
  <2>7. CASE \/ \E v \in Found \cup {NoCli} : ResolveCli(v)
             \/ DaemonUp \/ DaemonWork \/ DaemonLeaves \/ DaemonDies
             \/ UNCHANGED vars
    BY <1>2, <2>7 DEF ResolveCli, DaemonUp, DaemonWork, DaemonLeaves, DaemonDies,
                      vars, GuardInv, ProcOK, HolderOK
  <2>8. CASE \E p \in Sessions : Mint(p)
    BY <1>2, <2>8, SessionStepOK
  <2> QED
    BY <1>2, <2>1, <2>2, <2>3, <2>4, <2>5, <2>6, <2>7, <2>8 DEF Next, Environment
<1> QED
  BY <1>1, <1>2, PTL DEF Spec

(* operationInProgress never outlives the operation that set it, whatever   *)
(* overlaps, fails or is aborted (withGuard, daemon-manager.ts:623-633).    *)
THEOREM GuardNeverLeaks == Spec => []GuardHeld
<1>1. GuardInv => GuardHeld
  BY DEF GuardInv, HolderOK, GuardHeld, Quiet
<1> QED
  BY <1>1, GuardInvariant, PTL

-----------------------------------------------------------------------------
(* The types need more than themselves.  The version of a daemon is that of *)
(* the CLI which started it, so the CLI must be resolved whenever a start   *)
(* has passed its check, although "retry install" forgets the CLI: it is    *)
(* offered only when there is none, or while bootstrapCli looks for one.    *)

\* which step an operation takes before which
Follow(a, b) ==
    /\ b = "startHealth" => a = "startCli"
    /\ b = "startExec" => a = "startHealth"

Ordered(q) == \A i \in 1 .. Len(q) - 1 : Follow(q[i], q[i + 1])

Good(r) == r \in Process /\ Ordered(r.todo)

NeedsCli(r) == r.todo # <<>> /\ Head(r.todo) \in {"startHealth", "startExec"}

ProcsInv == \A p \in Procs : Good(proc[p])
CliInv == \A p \in Procs : NeedsCli(proc[p]) => bin \in Versions
BootInv ==
    /\ proc["boot"].todo \in {<<>>, <<"bootCli">>}
    /\ state = "cli_not_found" => bin = NoCli \/ At("boot", "bootCli")

RunInv == TypeOK /\ ProcsInv /\ CliInv /\ BootInv

\* a list in order: of one or two steps, of three, of two lists
LEMMA ShortOrdered ==
    /\ \A a : Ordered(<<a>>) /\ Head(<<a>>) = a /\ <<a>> # <<>>
    /\ \A a, b : Follow(a, b) =>
            /\ Ordered(<<a, b>>) /\ Head(<<a, b>>) = a
            /\ <<a, b>> # <<>> /\ <<a, b>>[Len(<<a, b>>)] = b
    /\ \A a, b, c : Follow(a, b) /\ Follow(b, c) =>
            /\ Ordered(<<a, b, c>>) /\ Head(<<a, b, c>>) = a
            /\ <<a, b, c>> # <<>> /\ <<a, b, c>>[Len(<<a, b, c>>)] = c
<1>1. ASSUME NEW a
      PROVE  Ordered(<<a>>) /\ Head(<<a>>) = a /\ <<a>> # <<>>
  BY <1>1 DEF Ordered
<1>2. ASSUME NEW a, NEW b, Follow(a, b)
      PROVE  /\ Ordered(<<a, b>>) /\ Head(<<a, b>>) = a
             /\ <<a, b>> # <<>> /\ <<a, b>>[Len(<<a, b>>)] = b
  <2>1. Len(<<a, b>>) = 2 /\ <<a, b>>[1] = a /\ <<a, b>>[2] = b
    OBVIOUS
  <2>2. \A i \in 1 .. 2 - 1 : i = 1
    OBVIOUS
  <2>3. Ordered(<<a, b>>)
    BY <1>2, <2>1, <2>2 DEF Ordered
  <2>4. Head(<<a, b>>) = a /\ <<a, b>> # <<>>
    OBVIOUS
  <2> QED BY <2>1, <2>3, <2>4
<1>3. ASSUME NEW a, NEW b, NEW c, Follow(a, b), Follow(b, c)
      PROVE  /\ Ordered(<<a, b, c>>) /\ Head(<<a, b, c>>) = a
             /\ <<a, b, c>> # <<>> /\ <<a, b, c>>[Len(<<a, b, c>>)] = c
  <2>1. /\ Len(<<a, b, c>>) = 3
        /\ <<a, b, c>>[1] = a /\ <<a, b, c>>[2] = b /\ <<a, b, c>>[3] = c
    OBVIOUS
  <2>2. \A i \in 1 .. 3 - 1 : i = 1 \/ i = 2
    OBVIOUS
  <2>3. Ordered(<<a, b, c>>)
    BY <1>3, <2>1, <2>2 DEF Ordered
  <2>4. Head(<<a, b, c>>) = a /\ <<a, b, c>> # <<>>
    OBVIOUS
  <2> QED BY <2>1, <2>3, <2>4
<1> QED
  BY <1>1, <1>2, <1>3

LEMMA ConcatOrdered ==
    ASSUME NEW q \in Seq(Steps), NEW r \in Seq(Steps), q # <<>>, r # <<>>,
           Ordered(q), Ordered(r), Follow(q[Len(q)], Head(r))
    PROVE  /\ Ordered(q \o r) /\ Head(q \o r) = Head(q) /\ q \o r # <<>>
           /\ (q \o r)[Len(q \o r)] = r[Len(r)]
<1> DEFINE s == q \o r
<1>1. /\ s \in Seq(Steps) /\ Len(s) = Len(q) + Len(r)
      /\ \A i \in 1 .. Len(q) + Len(r) :
            s[i] = IF i <= Len(q) THEN q[i] ELSE r[i - Len(q)]
  BY ConcatProperties
<1>2. Len(q) \in Nat \ {0} /\ Len(r) \in Nat \ {0} /\ Head(q) = q[1] /\ Head(r) = r[1]
  OBVIOUS
<1> HIDE DEF s
<1>3. ASSUME NEW i \in 1 .. Len(s) - 1 PROVE Follow(s[i], s[i + 1])
  <2>1. CASE i < Len(q)
    <3>1. s[i] = q[i] /\ s[i + 1] = q[i + 1] /\ i \in 1 .. Len(q) - 1
      BY <1>1, <1>2, <2>1
    <3> QED BY <3>1 DEF Ordered
  <2>2. CASE i = Len(q)
    <3>1. s[i] = q[Len(q)] /\ s[i + 1] = r[1]
      BY <1>1, <1>2, <2>2
    <3> QED BY <1>2, <3>1
  <2>3. CASE i > Len(q)
    <3> DEFINE j == i - Len(q)
    <3>1. j \in 1 .. Len(r) - 1 /\ s[i] = r[j] /\ s[i + 1] = r[j + 1]
      BY <1>1, <1>2, <2>3
    <3> HIDE DEF j
    <3> QED BY <3>1 DEF Ordered
  <2> QED BY <1>2, <2>1, <2>2, <2>3
<1>4. s # <<>> /\ Head(s) = s[1]
  BY <1>1, <1>2
<1>5. s[1] = q[1] /\ s[Len(s)] = r[Len(r)]
  BY <1>1, <1>2
<1> QED
  BY <1>2, <1>3, <1>4, <1>5 DEF s, Ordered

\* the lists of the operations, and what each begins with: none with a step
\* that needs the CLI
LEMMA ScriptsOrdered ==
    /\ Ordered(Starting) /\ Head(Starting) = "startCli"
    /\ Ordered(Stopping) /\ Head(Stopping) = "stopCli"
    /\ Ordered(Restarting) /\ Head(Restarting) = "stopCli"
    /\ Ordered(Checking) /\ Head(Checking) = "checkHealth"
    /\ Ordered(Writing) /\ Head(Writing) = "writeConfig"
    /\ Ordered(LoggingIn) /\ Head(LoggingIn) = "syncRead"
    /\ Ordered(Clearing) /\ Head(Clearing) = "clearConfig"
    /\ Ordered(<<"bootCli">>) /\ Head(<<"bootCli">>) = "bootCli"
    /\ Ordered(<<"pollSet">>) /\ Head(<<"pollSet">>) = "pollSet"
    /\ Ordered(<<>>)
<1>1. /\ Ordered(Starting) /\ Head(Starting) = "startCli" /\ Starting # <<>>
      /\ Starting \in Seq(Steps)
  <2>1. Follow("startCli", "startHealth") /\ Follow("startHealth", "startExec")
    BY DEF Follow
  <2>2. /\ Ordered(<<"startCli", "startHealth", "startExec">>)
        /\ Head(<<"startCli", "startHealth", "startExec">>) = "startCli"
        /\ <<"startCli", "startHealth", "startExec">> # <<>>
    BY <2>1, ShortOrdered
  <2> QED BY <2>2, Scripts DEF Starting
<1>2. /\ Ordered(Stopping) /\ Head(Stopping) = "stopCli" /\ Stopping # <<>>
      /\ Stopping \in Seq(Steps) /\ Stopping[Len(Stopping)] = "stopExec"
  BY ShortOrdered, Scripts DEF Stopping, Follow
<1>3. Ordered(Restarting) /\ Head(Restarting) = "stopCli"
  BY <1>1, <1>2, ConcatOrdered DEF Restarting, Follow
<1>4. Ordered(Checking) /\ Head(Checking) = "checkHealth"
  BY ShortOrdered DEF Checking, Follow
<1>5. Ordered(Clearing) /\ Head(Clearing) = "clearConfig"
  BY ShortOrdered DEF Clearing, Follow
<1> DEFINE w == <<"writeConfig", "writeUser", "syncHealth">>
           l == <<"syncRead", "mint">>
<1>6. /\ Ordered(AutoStarting) /\ Head(AutoStarting) = "autoCli"
      /\ AutoStarting # <<>>
  BY ShortOrdered DEF AutoStarting, Follow
<1>7. AutoStarting \in Seq(Steps) /\ w \in Seq(Steps) /\ l \in Seq(Steps)
  BY DEF AutoStarting, Steps
<1>8. /\ Ordered(w) /\ Head(w) = "writeConfig" /\ w # <<>> /\ w[Len(w)] = "syncHealth"
      /\ Ordered(l) /\ Head(l) = "syncRead" /\ l # <<>> /\ l[Len(l)] = "mint"
  BY ShortOrdered DEF Follow
<1> HIDE DEF w, l
<1>9. Ordered(w \o AutoStarting) /\ Head(w \o AutoStarting) = "writeConfig" /\ w \o AutoStarting # <<>>
  BY <1>6, <1>7, <1>8, ConcatOrdered DEF Follow
<1>10. Writing = w \o AutoStarting /\ LoggingIn = l \o Writing
  BY DEF Writing, LoggingIn, w, l
<1>11. Ordered(LoggingIn) /\ Head(LoggingIn) = "syncRead"
  BY <1>7, <1>8, <1>9, <1>10, Scripts, ConcatOrdered DEF Follow
<1>12. Ordered(<<>>)
  BY DEF Ordered
<1> QED
  BY <1>1, <1>2, <1>3, <1>4, <1>5, <1>9, <1>10, <1>11, <1>12, ShortOrdered

\* what is left of a list is in order, and goes on after its first step
LEMMA TailOrdered ==
    ASSUME NEW q \in Seq(Steps), q # <<>>, Ordered(q)
    PROVE  /\ Ordered(Tail(q))
           /\ Tail(q) # <<>> => Follow(Head(q), Head(Tail(q)))
<1>1. /\ Tail(q) \in Seq(Steps) /\ Len(q) \in Nat \ {0}
      /\ Len(Tail(q)) = Len(q) - 1 /\ Head(q) = q[1]
      /\ \A i \in 1 .. Len(q) - 1 : Tail(q)[i] = q[i + 1]
  OBVIOUS
<1>2. Ordered(Tail(q))
  BY <1>1 DEF Ordered
<1>3. ASSUME Tail(q) # <<>>
      PROVE  Follow(Head(q), Head(Tail(q)))
  <2>1. Len(q) - 1 > 0 /\ Head(Tail(q)) = Tail(q)[1]
    BY <1>1, <1>3
  <2> QED
    BY <1>1, <2>1 DEF Ordered
<1> QED
  BY <1>2, <1>3

-----------------------------------------------------------------------------
(* What one step does to the operations.                                    *)

\* every variable but proc has its type
VarsOK ==
    /\ state \in States /\ polling \in BOOLEAN /\ guard \in Procs \cup {Nobody}
    /\ bin \in Versions \cup {NoCli, Unresolved} /\ pending \in BOOLEAN
    /\ cfg \in Users \cup {NoUser} /\ sidecar \in Users \cup {NoUser}
    /\ daemon \in Daemon \cup {NoDaemon} /\ signed \in Users \cup {NoUser}

\* the operation p has taken the step, and goes on with what follows it
Moved(p, step) ==
    /\ Good(proc'[p])
    /\ \A x \in Procs \ {p} : proc'[x] = proc[x]
    /\ guard' \in {guard, Nobody}
    /\ proc'[p].todo # <<>> => Follow(step, Head(proc'[p].todo))

LEMMA TypeParts == TypeOK <=> VarsOK /\ \A p \in Procs : proc[p] \in Process
  BY DEF TypeOK, VarsOK

LEMMA TypePartsNext ==
    VarsOK' /\ (\A p \in Procs : proc'[p] \in Process) => TypeOK'
  BY DEF TypeOK, VarsOK

LEMMA FreshGood ==
    /\ Good(Idle) /\ Idle.todo = <<>>
    /\ \A q \in Seq(Steps) : Ordered(q) =>
          Good(Op(q)) /\ Op(q).todo = q
<1> HIDE DEF Steps
<1>1. <<>> \in Seq(Steps) /\ Ordered(<<>>)
  BY EmptySeq, ScriptsOrdered
<1>2. Good(Idle) /\ Idle.todo = <<>>
  BY <1>1 DEF Idle, Good, Process
<1>3. ASSUME NEW q \in Seq(Steps), Ordered(q)
      PROVE  Good(Op(q)) /\ Op(q).todo = q
  BY <1>3 DEF Idle, Op, Good, Process
<1> QED
  BY <1>2, <1>3

LEMMA EditGood ==
    ASSUME NEW r \in Process, NEW q \in Seq(Steps), Ordered(q)
    PROVE  LET e == [r EXCEPT !.todo = q]
           IN Good(e) /\ e.todo = q
  BY DEF Good, Process

LEMMA BecomesGood ==
    ASSUME GuardInv, NEW p \in Procs, NEW r, Good(r), Becomes(p, r)
    PROVE  /\ Good(proc'[p]) /\ proc'[p].todo = r.todo
           /\ r.todo # <<>> => proc'[p] = r
           /\ \A x \in Procs \ {p} : proc'[x] = proc[x]
           /\ guard' \in {guard, Nobody}
<1> DEFINE s == IF r.todo = <<>> THEN Idle ELSE r
<1>1. Good(s) /\ s.todo = r.todo /\ (r.todo # <<>> => s = r)
  BY FreshGood
<1>2. proc' = [proc EXCEPT ![p] = s] /\ proc = [x \in Procs |-> proc[x]]
  BY DEF Becomes, Launch, GuardInv, ProcOK
<1> HIDE DEF s
<1>3. proc'[p] = s /\ \A x \in Procs \ {p} : proc'[x] = proc[x]
  BY <1>2
<1> QED
  BY <1>1, <1>3 DEF Becomes

LEMMA ProceedMoves ==
    ASSUME GuardInv, ProcsInv, NEW p \in Procs, NEW step, NEW q \in Seq(Steps),
           Ordered(q), q # <<>> => Follow(step, Head(q)), Proceed(p, q)
    PROVE  Moved(p, step)
<1> DEFINE e == [proc[p] EXCEPT !.todo = q]
<1>1. Good(e) /\ e.todo = q
  BY EditGood DEF ProcsInv, Good
<1> HIDE DEF e
<1>2. Becomes(p, e)
  BY DEF Proceed, e
<1> QED
  BY <1>1, <1>2, BecomesGood DEF Moved

LEMMA NextMoves ==
    ASSUME GuardInv, ProcsInv, NEW p \in Procs, NEW step, At(p, step), Next1(p)
    PROVE  Moved(p, step)
<1> DEFINE q == proc[p].todo
<1>1. q \in Seq(Steps) /\ q # <<>> /\ Ordered(q) /\ Head(q) = step
  BY DEF ProcsInv, Good, Process, At, Quiet
<1>2. Tail(q) \in Seq(Steps)
  BY <1>1
<1>3. Ordered(Tail(q)) /\ (Tail(q) # <<>> => Follow(step, Head(Tail(q))))
  BY <1>1, TailOrdered
<1>4. Proceed(p, Tail(q))
  BY DEF Next1, Rest
<1> HIDE DEF q
<1> QED
  BY <1>2, <1>3, <1>4, ProceedMoves

LEMMA AbortMoves ==
    ASSUME GuardInv, ProcsInv, NEW p \in Procs, NEW step, Abort(p)
    PROVE  Moved(p, step)
<1>1. <<>> \in Seq(Steps) /\ Ordered(<<>>)
  BY EmptySeq, ScriptsOrdered
<1> QED
  BY <1>1, ProceedMoves DEF Abort

LEMMA ScriptMoves ==
    ASSUME GuardInv, ProcsInv, NEW p \in Procs, NEW step,
           NEW q \in {Starting, Restarting, Checking}, Proceed(p, q)
    PROVE  Moved(p, step)
<1>1. q \in Seq(Steps) /\ Ordered(q)
  BY Scripts, ScriptsOrdered
<1>2. Head(q) \in {"startCli", "stopCli", "checkHealth"}
  BY ScriptsOrdered
<1>3. Follow(step, Head(q))
  BY <1>2 DEF Follow
<1> QED
  BY <1>1, <1>3, ProceedMoves

\* the operation that takes a step has a list in order
LEMMA AtOrdered ==
    ASSUME ProcsInv, NEW p \in Procs, NEW step, At(p, step)
    PROVE  /\ proc[p] \in Process
           /\ Rest(p) \in Seq(Steps) /\ Ordered(Rest(p))
           /\ Rest(p) # <<>> => Follow(step, Head(Rest(p)))
<1>1. LET q == proc[p].todo
      IN q \in Seq(Steps) /\ q # <<>> /\ Ordered(q) /\ Head(q) = step
  BY DEF ProcsInv, Good, Process, At, Quiet
<1> QED
  BY <1>1, TailOrdered DEF Rest, ProcsInv, Good

LEMMA CheckHealthMoves ==
    ASSUME GuardInv, ProcsInv, VarsOK, NEW p \in Procs, CheckHealth(p)
    PROVE  Moved(p, "checkHealth") /\ At(p, "checkHealth")
<1> DEFINE h == Health
           r == [proc[p] EXCEPT !.todo = Rest(p), !.seen = h]
<1>1. At(p, "checkHealth") /\ Becomes(p, r)
  BY DEF CheckHealth
<1>2. h \in [ver : Versions, busy : BOOLEAN] \cup {NoDaemon}
  BY DEF Health, Running, VarsOK, Daemon
<1> HIDE DEF h
<1>3. Good(r) /\ r.todo = Rest(p)
  BY <1>1, <1>2, AtOrdered DEF Good, Process
<1> HIDE DEF r
<1> QED
  BY <1>1, <1>3, AtOrdered, BecomesGood DEF Moved

(* syncToken uses a cached token again, or has one minted.                  *)
LEMMA SyncReadMoves ==
    ASSUME GuardInv, ProcsInv, VarsOK, NEW p \in Procs, SyncRead(p)
    PROVE  At(p, "syncRead") /\ Moved(p, "syncRead")
<1> DEFINE u == proc[p].who
           reuse == sidecar = u /\ cfg # NoUser
           t == IF reuse THEN Writing ELSE Rest(p)
           pt == IF reuse THEN cfg ELSE u
           y == sidecar \notin {NoUser, u}
           r == [proc[p] EXCEPT !.todo = t, !.pat = pt, !.yes = y]
<1>1. At(p, "syncRead") /\ Becomes(p, r)
  BY DEF SyncRead
<1>2. Follow("syncRead", "writeConfig")
  BY DEF Follow
<1>3. /\ t \in Seq(Steps) /\ Ordered(t)
      /\ t # <<>> => Follow("syncRead", Head(t))
  BY <1>1, <1>2, AtOrdered, Scripts, ScriptsOrdered
<1>4. pt \in Users \cup {NoUser} /\ y \in BOOLEAN
  BY <1>1, AtOrdered DEF VarsOK, Process
<1> HIDE DEF t, pt, y
<1>5. Good(r) /\ r.todo = t
  BY <1>1, <1>3, <1>4, AtOrdered DEF Good, Process
<1> HIDE DEF r
<1> QED
  BY <1>1, <1>3, <1>5, BecomesGood DEF Moved

\* the lists that may be started
LEMMA OpGood ==
    \A q \in {Starting, Stopping, Restarting, Checking, LoggingIn, Clearing,
              <<"bootCli">>, <<"pollSet">>} :
        Good(Op(q)) /\ ~NeedsCli(Op(q)) /\ Op(q).todo = q
  BY FreshGood, Scripts, ScriptsOrdered DEF NeedsCli

(* The rest of a list, with the data of the operation dropped.              *)
LEMMA RestGood ==
    ASSUME ProcsInv, NEW p \in Procs, NEW step, At(p, step)
    PROVE  /\ Good(Op(Rest(p))) /\ Op(Rest(p)).todo = Rest(p)
           /\ Rest(p) # <<>> => Follow(step, Head(Rest(p)))
  BY AtOrdered, FreshGood

(* syncToken may start a restart, which is an operation beside its own.     *)
LEMMA SyncHealthMoves ==
    ASSUME GuardInv, ProcsInv, NEW p \in Sessions, SyncHealth(p)
    PROVE  /\ At(p, "syncHealth") /\ guard' \in {guard, Nobody}
           /\ proc'["boot"] = proc["boot"]
           /\ \A x \in Procs : Good(proc'[x])
           /\ \A x \in Procs : \/ proc'[x] = proc[x]
                               \/ ~NeedsCli(proc'[x])
<1>1. At(p, "syncHealth") /\ p \in Procs /\ p # "boot"
  BY DaemonAssumption DEF SyncHealth, Procs
<1> DEFINE r == Op(Rest(p))
<1>2. Good(r) /\ r.todo = Rest(p) /\ ~NeedsCli(r)
  BY <1>1, RestGood DEF NeedsCli, Follow
<1> HIDE DEF r
<1>3. CASE Becomes(p, r)
  <2>1. /\ Good(proc'[p]) /\ proc'[p].todo = r.todo
        /\ \A x \in Procs \ {p} : proc'[x] = proc[x]
        /\ guard' \in {guard, Nobody}
    BY <1>1, <1>2, <1>3, BecomesGood
  <2>2. ~NeedsCli(proc'[p])
    BY <1>2, <2>1 DEF NeedsCli
  <2> QED
    BY <1>1, <2>1, <2>2, NamesOfProcs DEF ProcsInv
<1>4. ASSUME NEW z \in Switches, guard' = guard,
             proc' = [proc EXCEPT ![p] = r, ![z] = Op(Restarting)]
      PROVE  /\ guard' \in {guard, Nobody}
             /\ proc'["boot"] = proc["boot"]
             /\ \A x \in Procs : Good(proc'[x])
             /\ \A x \in Procs : proc'[x] = proc[x] \/ ~NeedsCli(proc'[x])
  <2>1. Good(Op(Restarting)) /\ ~NeedsCli(Op(Restarting))
    BY OpGood
  <2>2. proc = [x \in Procs |-> proc[x]] /\ z \in Procs /\ z # "boot"
    BY NamesOfProcs, DaemonAssumption DEF GuardInv, ProcOK, Procs
  <2> DEFINE o == Op(Restarting)
  <2> HIDE DEF o
  <2>3. \A x \in Procs :
           proc'[x] = IF x = z THEN o ELSE IF x = p THEN r ELSE proc[x]
    BY <1>1, <1>4, <2>2 DEF o
  <2> QED
    BY <1>1, <1>2, <1>4, <2>1, <2>2, <2>3, NamesOfProcs DEF ProcsInv, o
<1> QED
  BY <1>1, <1>3, <1>4 DEF SyncHealth, r

-----------------------------------------------------------------------------
(* The steps of the operations keep the types.                              *)

\* a step that leaves the CLI and bootstrapCli alone
LEMMA RunKept ==
    ASSUME RunInv, VarsOK', bin' = bin, proc'["boot"] = proc["boot"],
           state' = state \/ state' # "cli_not_found",
           \A x \in Procs : Good(proc'[x]),
           \A x \in Procs : NeedsCli(proc'[x]) => bin \in Versions
    PROVE  RunInv'
<1>1. TypeOK'
  BY TypePartsNext DEF Good
<1>2. ProcsInv' /\ CliInv'
  BY DEF RunInv, ProcsInv, CliInv
<1>3. BootInv'
  BY DEF RunInv, BootInv, At, Quiet
<1> QED
  BY <1>1, <1>2, <1>3 DEF RunInv

\* a step of an operation that goes on with what follows
LEMMA MovedRun ==
    ASSUME RunInv, NEW p \in Procs, NEW step, At(p, step), Moved(p, step),
           step # "bootCli", step = "startCli" => bin \in Versions \/ Quiet(p)',
           guard' \in {guard, Nobody} => VarsOK',
           bin' = bin, state' = state \/ state' # "cli_not_found"
    PROVE  RunInv'
<1>1. p # "boot"
  BY DEF RunInv, BootInv, At, Quiet
<1>2. \A x \in Procs : Good(proc'[x])
  BY DEF Moved, RunInv, ProcsInv
<1>3. ASSUME NEW x \in Procs, NeedsCli(proc'[x])
      PROVE  bin \in Versions
  <2>1. CASE x # p
    BY <1>3, <2>1 DEF Moved, RunInv, CliInv
  <2>2. CASE x = p
    <3>1. proc'[p].todo # <<>> /\ Head(proc'[p].todo) \in {"startHealth", "startExec"}
      BY <1>3, <2>2 DEF NeedsCli
    <3>2. step = "startCli" \/ step = "startHealth"
      BY <3>1 DEF Moved, Follow
    <3>3. CASE step = "startCli"
      BY <3>1, <3>3 DEF Quiet
    <3>4. CASE step = "startHealth"
      BY <3>4 DEF RunInv, CliInv, NeedsCli, At, Quiet
    <3> QED
      BY <3>2, <3>3, <3>4
  <2> QED
    BY <2>1, <2>2
<1>4. proc'["boot"] = proc["boot"]
  BY <1>1, NamesOfProcs DEF Moved
<1>5. VarsOK'
  BY DEF Moved
<1> QED
  BY <1>2, <1>3, <1>4, <1>5, RunKept

LEMMA SessionStepRun ==
    ASSUME GuardInv, RunInv, NEW p \in Sessions, SessionStep(p) \/ Mint(p)
    PROVE  RunInv'
<1> USE DEF files
<1>1. p \in Procs /\ p # "boot"
  BY DaemonAssumption DEF Procs
<1>2. VarsOK /\ ProcsInv /\ proc[p] \in Process
  BY <1>1, TypeParts DEF RunInv
<1>3. CASE SyncRead(p)
  BY <1>1, <1>2, <1>3, SyncReadMoves, MovedRun DEF SyncRead, VarsOK
<1>4. CASE Mint(p)
  <2>1. Moved(p, "mint") /\ At(p, "mint")
    BY <1>1, <1>2, <1>4, NextMoves, AbortMoves DEF Mint
  <2> QED
    BY <1>1, <1>2, <1>4, <2>1, MovedRun DEF Mint, VarsOK
<1>5. CASE WriteConfig(p)
  <2>1. Moved(p, "writeConfig") /\ At(p, "writeConfig")
    BY <1>1, <1>2, <1>5, NextMoves DEF WriteConfig
  <2>2. proc[p].pat \in Users \cup {NoUser}
    BY <1>2 DEF Process
  <2> QED
    BY <1>1, <1>2, <1>5, <2>1, <2>2, MovedRun DEF WriteConfig, VarsOK
<1>6. CASE WriteUser(p)
  <2>1. Moved(p, "writeUser") /\ At(p, "writeUser")
    BY <1>1, <1>2, <1>6, NextMoves DEF WriteUser
  <2>2. proc[p].who \in Users \cup {NoUser}
    BY <1>2 DEF Process
  <2> QED
    BY <1>1, <1>2, <1>6, <2>1, <2>2, MovedRun DEF WriteUser, VarsOK
<1>7. CASE SyncHealth(p)
  <2>1. VarsOK'
    BY <1>2, <1>7, SyncHealthMoves DEF VarsOK, SyncHealth
  <2>2. \A x \in Procs : NeedsCli(proc'[x]) => bin \in Versions
    BY <1>2, <1>7, SyncHealthMoves DEF RunInv, CliInv
  <2> QED
    BY <1>2, <1>7, <2>1, <2>2, SyncHealthMoves, RunKept DEF SyncHealth
<1>8. CASE AutoCli(p)
  <2>1. Moved(p, "autoCli") /\ At(p, "autoCli")
    BY <1>1, <1>2, <1>8, NextMoves, AbortMoves DEF AutoCli
  <2> QED
    BY <1>1, <1>2, <1>8, <2>1, MovedRun DEF AutoCli, VarsOK
<1>9. CASE AutoHealth(p)
  <2>1. Moved(p, "autoHealth") /\ At(p, "autoHealth")
    BY <1>1, <1>2, <1>9, ScriptMoves DEF AutoHealth
  <2> QED
    BY <1>1, <1>2, <1>9, <2>1, MovedRun DEF AutoHealth, VarsOK
<1>10. CASE ClearConfig(p)
  <2>1. Moved(p, "clearConfig") /\ At(p, "clearConfig")
    BY <1>1, <1>2, <1>10, NextMoves DEF ClearConfig
  <2> QED
    BY <1>1, <1>2, <1>10, <2>1, MovedRun DEF ClearConfig, VarsOK
<1>11. CASE ClearUser(p)
  <2>1. CASE Abort(p)
    <3>1. Moved(p, "clearUser") /\ At(p, "clearUser")
      BY <1>1, <1>2, <1>11, <2>1, AbortMoves DEF ClearUser
    <3> QED
      BY <1>1, <1>2, <1>11, <3>1, MovedRun DEF ClearUser, VarsOK
  <2>2. CASE guard' = p /\ proc' = Launch(p, Op(Stopping))
    <3>1. Good(Op(Stopping)) /\ Op(Stopping).todo = Stopping /\ Head(Stopping) = "stopCli"
      BY FreshGood, Scripts, ScriptsOrdered
    <3>2. proc'[p] = Op(Stopping) /\ \A x \in Procs : x # p => proc'[x] = proc[x]
      BY <1>1, <2>2 DEF Launch, GuardInv, ProcOK
    <3>3. /\ \A x \in Procs : Good(proc'[x])
          /\ \A x \in Procs : NeedsCli(proc'[x]) => bin \in Versions
          /\ proc'["boot"] = proc["boot"]
      BY <1>1, <1>2, <3>1, <3>2, NamesOfProcs DEF ProcsInv, NeedsCli, RunInv, CliInv
    <3>4. VarsOK'
      BY <1>1, <1>2, <1>11, <2>2 DEF ClearUser, VarsOK
    <3> QED
      BY <1>11, <3>3, <3>4, RunKept DEF ClearUser
  <2> QED
    BY <1>11, <2>1, <2>2 DEF ClearUser
<1> QED
  BY <1>3, <1>4, <1>5, <1>6, <1>7, <1>8, <1>9, <1>10, <1>11 DEF SessionStep

LEMMA StepRun ==
    ASSUME GuardInv, RunInv, NEW p \in Procs, Step(p)
    PROVE  RunInv'
<1> USE DEF files
<1>1. VarsOK /\ ProcsInv
  BY TypeParts DEF RunInv
<1>2. CASE StartCli(p)
  <2>1. Moved(p, "startCli") /\ At(p, "startCli")
    BY <1>1, <1>2, NextMoves, AbortMoves DEF StartCli
  <2>2. bin \in Versions \/ Quiet(p)'
    <3>1. CASE Abort(p)
      <4>1. [proc[p] EXCEPT !.todo = <<>>].todo = <<>>
        BY <1>1 DEF ProcsInv, Good, Process
      <4>2. proc'[p] = Idle
        BY <3>1, <4>1 DEF Abort, Proceed, Becomes, Launch, GuardInv, ProcOK
      <4> QED
        BY <4>2, FreshGood DEF Quiet
    <3> QED
      BY <1>1, <1>2, <3>1 DEF StartCli, VarsOK
  <2> QED
    BY <1>1, <1>2, <2>1, <2>2, MovedRun DEF StartCli, VarsOK
<1>3. CASE StartHealth(p)
  <2>1. Moved(p, "startHealth") /\ At(p, "startHealth")
    BY <1>1, <1>3, NextMoves, AbortMoves DEF StartHealth
  <2> QED
    BY <1>1, <1>3, <2>1, MovedRun DEF StartHealth, VarsOK, States
<1>4. CASE StartExec(p)
  <2>1. Moved(p, "startExec") /\ At(p, "startExec")
    BY <1>1, <1>4, NextMoves, AbortMoves DEF StartExec
  <2>2. bin \in Versions
    BY <2>1 DEF At, Quiet, RunInv, CliInv, NeedsCli
  <2>3. daemon' \in Daemon \cup {NoDaemon}
    <3>1. daemon' \in {daemon, Spawned}
      BY <1>4 DEF StartExec
    <3>2. Spawned \in Daemon \cup {NoDaemon}
      BY <1>1, <2>2 DEF VarsOK, Daemon, Spawned
    <3> QED
      BY <1>1, <3>1, <3>2 DEF VarsOK
  <2> QED
    BY <1>1, <1>4, <2>1, <2>3, MovedRun DEF StartExec, VarsOK, States
<1>5. CASE StopCli(p)
  <2>1. Moved(p, "stopCli") /\ At(p, "stopCli")
    BY <1>1, <1>5, NextMoves, AbortMoves DEF StopCli
  <2> QED
    BY <1>1, <1>5, <2>1, MovedRun DEF StopCli, VarsOK, States
<1>6. CASE StopExec(p)
  <2>1. Moved(p, "stopExec") /\ At(p, "stopExec")
    BY <1>1, <1>6, NextMoves, AbortMoves DEF StopExec
  <2>2. daemon' \in Daemon \cup {NoDaemon}
    BY <1>1, <1>6 DEF StopExec, VarsOK, Daemon, Running
  <2> QED
    BY <1>1, <1>6, <2>1, <2>2, MovedRun DEF StopExec, VarsOK, States
<1>7. CASE CheckHealth(p)
  BY <1>1, <1>7, CheckHealthMoves, MovedRun DEF CheckHealth, VarsOK
<1>8. CASE CheckCli(p)
  <2>1. Moved(p, "checkCli") /\ At(p, "checkCli")
    <3>1. PICK q \in {Restarting, Rest(p)} : Becomes(p, Op(q))
      BY <1>8 DEF CheckCli
    <3>2. At(p, "checkCli")
      BY <1>8 DEF CheckCli
    <3>3. Good(Op(q)) /\ (Op(q).todo # <<>> => Follow("checkCli", Head(Op(q).todo)))
      <4>1. Follow("checkCli", "stopCli")
        BY DEF Follow
      <4> QED
        BY <1>1, <3>2, <4>1, RestGood, OpGood, ScriptsOrdered
    <3> QED
      BY <3>1, <3>2, <3>3, BecomesGood DEF Moved
  <2>2. pending' \in BOOLEAN
    BY <1>8 DEF CheckCli
  <2> QED
    BY <1>1, <1>8, <2>1, <2>2, MovedRun DEF CheckCli, VarsOK
<1> QED
  BY <1>2, <1>3, <1>4, <1>5, <1>6, <1>7, <1>8, SessionStepRun DEF Step

-----------------------------------------------------------------------------
(* What the environment starts keeps the types.                             *)

\* an operation other than bootstrapCli is started with a list of its own
LEMMA LaunchRun ==
    ASSUME GuardInv, RunInv, NEW p \in Procs \ {"boot"}, NEW r, Good(r), ~NeedsCli(r),
           proc' = Launch(p, r), VarsOK', bin' = bin, state' = state
    PROVE  RunInv'
<1>1. proc'[p] = r /\ \A x \in Procs : x # p => proc'[x] = proc[x]
  BY DEF Launch, GuardInv, ProcOK
<1>2. /\ \A x \in Procs : Good(proc'[x])
      /\ \A x \in Procs : NeedsCli(proc'[x]) => bin \in Versions
      /\ proc'["boot"] = proc["boot"]
  BY <1>1, NamesOfProcs DEF RunInv, ProcsInv, CliInv
<1> QED
  BY <1>2, RunKept

LEMMA SignRun ==
    ASSUME GuardInv, RunInv, NEW p \in Sessions,
           Logout(p) \/ \E u \in Users : Login(p, u)
    PROVE  RunInv'
<1> USE DEF files
<1>1. p \in Procs \ {"boot"}
  BY DaemonAssumption DEF Procs
<1>2. VarsOK
  BY TypeParts DEF RunInv
<1>3. CASE Logout(p)
  BY <1>1, <1>2, <1>3, OpGood, LaunchRun DEF Logout, VarsOK
<1>4. ASSUME NEW u \in Users, Login(p, u)
      PROVE  RunInv'
  <2> DEFINE o == Op(LoggingIn)
             r == [o EXCEPT !.who = u]
  <2>1. Good(o) /\ ~NeedsCli(o) /\ o.todo = LoggingIn
    BY OpGood
  <2>2. proc' = Launch(p, r)
    BY <1>4 DEF Login
  <2> HIDE DEF o
  <2>3. Good(r) /\ r.todo = o.todo
    BY <2>1 DEF Good, Process
  <2>4. ~NeedsCli(r)
    BY <2>1, <2>3 DEF NeedsCli
  <2> HIDE DEF r
  <2> QED
    BY <1>1, <1>2, <1>4, <2>2, <2>3, <2>4, LaunchRun DEF Login, VarsOK
<1> QED
  BY <1>3, <1>4

LEMMA PressRun ==
    ASSUME GuardInv, RunInv, PanelStart \/ PanelStop \/ PanelRestart
    PROVE  RunInv'
<1> USE DEF files
<1>1. PICK q \in {Starting, Stopping, Restarting}, shown \in {"stopped", "running"} :
         Press(shown, q)
  BY DEF PanelStart, PanelStop, PanelRestart
<1>2. VarsOK'
  BY <1>1, TypeParts, NamesOfProcs DEF Press, VarsOK, RunInv
<1> QED
  BY <1>1, <1>2, OpGood, LaunchRun, NamesOfProcs DEF Press

\* "retry install" finds no operation that has passed its check of the CLI
LEMMA BootRun ==
    ASSUME GuardInv, RunInv, RetryInstall \/ BootCli
    PROVE  RunInv'
<1> USE DEF files
<1>1. VarsOK /\ ProcsInv /\ "boot" \in Procs
  BY TypeParts, NamesOfProcs DEF RunInv
<1>2. CASE RetryInstall
  <2>1. bin = NoCli
    <3>1. ~At("boot", "bootCli")
      BY <1>1, <1>2 DEF RetryInstall, Waiting
    <3> QED
      BY <1>2, <3>1 DEF RetryInstall, RunInv, BootInv
  <2>2. \A x \in Procs : ~NeedsCli(proc[x])
    BY <2>1, DaemonAssumption DEF RunInv, CliInv
  <2>3. /\ proc'["boot"] = Op(<<"bootCli">>)
        /\ \A x \in Procs : x # "boot" => proc'[x] = proc[x]
    BY <1>1, <1>2 DEF RetryInstall, Launch, GuardInv, ProcOK
  <2>4. ProcsInv' /\ CliInv'
    BY <1>1, <2>2, <2>3, OpGood DEF ProcsInv, CliInv
  <2>5. BootInv'
    <3>1. proc'["boot"].todo = <<"bootCli">>
      BY <2>3, OpGood
    <3> QED
      BY <3>1 DEF BootInv, At, Quiet
  <2>6. TypeOK'
    BY <1>1, <1>2, <2>4, TypePartsNext DEF RetryInstall, VarsOK, ProcsInv, Good
  <2> QED
    BY <2>4, <2>5, <2>6 DEF RunInv
<1>3. CASE BootCli
  <2>1. Moved("boot", "bootCli") /\ At("boot", "bootCli")
    BY <1>1, <1>3, NextMoves DEF BootCli
  <2>2. proc["boot"].todo = <<"bootCli">> /\ proc["boot"] \in Process
    BY <1>1, <2>1 DEF RunInv, BootInv, At, Quiet, ProcsInv, Good
  <2>3. proc'["boot"].todo = <<>>
    <3>1. Tail(<<"bootCli">>) = <<>> /\ <<>> \in Seq(Steps)
      BY EmptySeq
    <3>2. [proc["boot"] EXCEPT !.todo = <<>>].todo = <<>>
      BY <2>2 DEF Process
    <3>3. Becomes("boot", [proc["boot"] EXCEPT !.todo = <<>>])
      BY <1>3, <2>2, <3>1 DEF BootCli, Next1, Proceed, Rest
    <3>4. proc'["boot"] = Idle
      BY <1>1, <3>2, <3>3 DEF Becomes, Launch, GuardInv, ProcOK
    <3> QED
      BY <3>4, FreshGood
  <2>4. ProcsInv' /\ CliInv'
    BY <1>1, <1>3, <2>1, <2>3 DEF BootCli, Moved, ProcsInv, CliInv, NeedsCli, RunInv
  <2>5. BootInv'
    BY <1>3, <2>3 DEF BootCli, BootInv
  <2>6. VarsOK'
    BY <1>1, <1>3, <2>1 DEF BootCli, VarsOK, States, Moved
  <2>7. TypeOK'
    BY <2>4, <2>6, TypePartsNext DEF ProcsInv, Good
  <2> QED
    BY <2>4, <2>5, <2>7 DEF RunInv
<1> QED
  BY <1>2, <1>3

LEMMA PollRun ==
    ASSUME GuardInv, RunInv, Poll \/ PollSet
    PROVE  RunInv'
<1> USE DEF files
<1>1. VarsOK
  BY TypeParts DEF RunInv
<1>2. CASE Poll
  <2> DEFINE o == Op(<<"pollSet">>)
             y == Running(daemon)
             r == [o EXCEPT !.yes = y]
  <2>1. Good(o) /\ ~NeedsCli(o) /\ o.todo = <<"pollSet">>
    BY OpGood
  <2>2. proc' = Launch("poll", r)
    BY <1>2 DEF Poll
  <2>3. y \in BOOLEAN
    BY <1>1 DEF Running, VarsOK, Daemon
  <2> HIDE DEF o, y
  <2>4. Good(r) /\ r.todo = o.todo
    BY <2>1, <2>3 DEF Good, Process
  <2>5. ~NeedsCli(r)
    BY <2>1, <2>4 DEF NeedsCli
  <2> HIDE DEF r
  <2> QED
    BY <1>1, <1>2, <2>2, <2>4, <2>5, NamesOfProcs, LaunchRun DEF Poll, VarsOK
<1>3. CASE PollSet
  <2>1. Good(Op(Checking)) /\ ~NeedsCli(Op(Checking)) /\ Good(Idle) /\ ~NeedsCli(Idle)
    BY OpGood, FreshGood DEF NeedsCli
  <2>2. proc = [x \in Procs |-> proc[x]] /\ "boot" \notin Checks
    BY DaemonAssumption DEF GuardInv, ProcOK
  <2>3. PICK q \in Checks \cup {"poll"} :
           \A x \in Procs : proc'[x] = IF x = "poll" THEN Idle
                                      ELSE IF x = q THEN Op(Checking) ELSE proc[x]
    BY <1>3, <2>2, NamesOfProcs DEF PollSet, PollChecks, PollEnds, Launch
  <2>4. /\ \A x \in Procs : Good(proc'[x])
        /\ \A x \in Procs : NeedsCli(proc'[x]) => bin \in Versions
        /\ proc'["boot"] = proc["boot"]
    BY <2>1, <2>2, <2>3, NamesOfProcs DEF RunInv, ProcsInv, CliInv
  <2>5. VarsOK' /\ state' # "cli_not_found"
    BY <1>1, <1>3 DEF PollSet, VarsOK, States
  <2> QED
    BY <1>3, <2>4, <2>5, RunKept DEF PollSet
<1> QED
  BY <1>2, <1>3

\* the application begins, first or again
LEMMA FreshRun ==
    ASSUME proc = [p \in Procs |-> IF p = "boot" THEN Op(<<"bootCli">>) ELSE Idle],
           state = "installing_cli", VarsOK
    PROVE  RunInv
<1>1. Good(Op(<<"bootCli">>)) /\ ~NeedsCli(Op(<<"bootCli">>)) /\ Good(Idle) /\ ~NeedsCli(Idle)
  BY OpGood, FreshGood DEF NeedsCli
<1>2. ProcsInv /\ CliInv
  BY <1>1 DEF ProcsInv, CliInv
<1>3. BootInv
  BY OpGood, NamesOfProcs DEF BootInv
<1> QED
  BY <1>2, <1>3, TypeParts DEF RunInv, ProcsInv, Good

LEMMA QuitRun ==
    ASSUME RunInv, Quit
    PROVE  RunInv'
<1> USE DEF files
<1>1. VarsOK'
  BY TypeParts DEF RunInv, VarsOK, Quit, States
<1>2. Good(Op(<<"bootCli">>)) /\ ~NeedsCli(Op(<<"bootCli">>)) /\ Good(Idle) /\ ~NeedsCli(Idle)
  BY OpGood, FreshGood DEF NeedsCli
<1>3. ProcsInv' /\ CliInv'
  BY <1>2 DEF ProcsInv, CliInv, Quit
<1>4. BootInv'
  BY OpGood, NamesOfProcs DEF BootInv, Quit
<1>5. TypeOK'
  BY <1>1, <1>3, TypePartsNext DEF ProcsInv, Good
<1> QED
  BY <1>3, <1>4, <1>5 DEF RunInv

LEMMA EnvironmentRun ==
    ASSUME GuardInv, RunInv,
           \/ \E v \in Found \cup {NoCli} : ResolveCli(v)
           \/ DaemonUp \/ DaemonWork \/ DaemonLeaves \/ DaemonDies
           \/ UNCHANGED vars
    PROVE  RunInv'
<1> USE DEF files
<1>1. VarsOK
  BY TypeParts DEF RunInv
<1>2. ASSUME NEW v \in Found \cup {NoCli}, ResolveCli(v)
      PROVE  RunInv'
  <2>1. \A x \in Procs : ~NeedsCli(proc[x])
    BY <1>2, DaemonAssumption DEF ResolveCli, RunInv, CliInv
  <2>2. VarsOK'
    BY <1>1, <1>2, DaemonAssumption DEF ResolveCli, VarsOK
  <2>3. ProcsInv' /\ CliInv'
    BY <1>2, <2>1 DEF ResolveCli, RunInv, ProcsInv, CliInv
  <2>4. BootInv'
    BY <1>2, DaemonAssumption DEF ResolveCli, RunInv, BootInv, At, Quiet
  <2>5. TypeOK'
    BY <2>2, <2>3, TypePartsNext DEF ProcsInv, Good
  <2> QED
    BY <2>3, <2>4, <2>5 DEF RunInv
<1>3. CASE DaemonUp \/ DaemonWork \/ DaemonLeaves \/ DaemonDies
  <2>1. daemon' \in Daemon \cup {NoDaemon}
    BY <1>1, <1>3 DEF DaemonUp, DaemonWork, DaemonLeaves, DaemonDies, VarsOK,
                      Daemon, Running
  <2> QED
    BY <1>1, <1>3, <2>1, RunKept
       DEF DaemonUp, DaemonWork, DaemonLeaves, DaemonDies, VarsOK, RunInv,
           ProcsInv, CliInv
<1>4. CASE UNCHANGED vars
  BY <1>1, <1>4, RunKept DEF vars, VarsOK, RunInv, ProcsInv, CliInv
<1> QED
  BY <1>2, <1>3, <1>4

LEMMA RunInvariant == Spec => []RunInv
<1>1. Init => RunInv
  <2> SUFFICES ASSUME Init PROVE RunInv
    OBVIOUS
  <2>1. daemon \in Daemon \cup {NoDaemon}
    <3>1. CASE daemon = NoDaemon
      BY <3>1
    <3>2. ASSUME NEW v \in Versions, NEW b \in BOOLEAN, cfg # NoUser,
                 daemon = [user |-> cfg, ver |-> v, up |-> TRUE, busy |-> b,
                           leaving |-> FALSE, kept |-> FALSE]
          PROVE  daemon \in Daemon
      <4>1. cfg \in Users
        BY <3>2 DEF Init
      <4> QED
        BY <3>2, <4>1 DEF Daemon
    <3> QED
      BY <3>1, <3>2 DEF Init
  <2>2. VarsOK
    BY <2>1 DEF Init, VarsOK, States
  <2> QED
    BY <2>2, FreshRun DEF Init
<1>2. ASSUME GuardInv, RunInv, [Next]_vars
      PROVE  RunInv'
  <2>1. CASE \E p \in Procs : Step(p)
    BY <1>2, <2>1, StepRun
  <2>2. CASE BootCli \/ RetryInstall
    BY <1>2, <2>2, BootRun
  <2>3. CASE Poll \/ PollSet
    BY <1>2, <2>3, PollRun
  <2>4. CASE \E p \in Sessions : Logout(p) \/ \E u \in Users : Login(p, u)
    BY <1>2, <2>4, SignRun
  <2>5. CASE PanelStart \/ PanelStop \/ PanelRestart
    BY <1>2, <2>5, PressRun
  <2>6. CASE Quit
    BY <1>2, <2>6, QuitRun
  <2>7. CASE \/ \E v \in Found \cup {NoCli} : ResolveCli(v)
             \/ DaemonUp \/ DaemonWork \/ DaemonLeaves \/ DaemonDies
             \/ UNCHANGED vars
    BY <1>2, <2>7, EnvironmentRun
  <2>8. CASE \E p \in Sessions : Mint(p)
    BY <1>2, <2>8, SessionStepRun
  <2> QED
    BY <1>2, <2>1, <2>2, <2>3, <2>4, <2>5, <2>6, <2>7, <2>8 DEF Next, Environment
<1> QED
  BY <1>1, <1>2, GuardInvariant, PTL DEF Spec

(* Every variable has its type; in particular a daemon is never started     *)
(* with a CLI that is missing or was forgotten after the start had checked  *)
(* it (resolveCliBinary, retryInstall, startDaemon).                        *)
THEOREM DaemonTypes == Spec => []TypeOK
<1>1. RunInv => TypeOK
  BY DEF RunInv
<1> QED
  BY <1>1, RunInvariant, PTL

=============================================================================
