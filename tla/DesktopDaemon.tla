--------------------------- MODULE DesktopDaemon ---------------------------
(***************************************************************************)
(* The desktop application's manager of the local agent daemon             *)
(* (src/apps/desktop/src/main/daemon-manager.ts) with what drives it: the  *)
(* login and logout effects of the renderer, the buttons of the daemon     *)
(* card, the poll of the daemon's health and the resolution of the CLI.    *)
(*                                                                         *)
(* The main process runs one callback at a time, so a step of this model   *)
(* is the code between two awaits.  An operation in flight is a process    *)
(* with the list of the steps it has yet to take; what it read before an   *)
(* await is in the process: the user and the token of syncToken, whether   *)
(* the user has changed or the poll was answered ("yes"), the health that  *)
(* was seen.  A token is the user it was minted for.  The daemon is the     *)
(* process that holds the health port: one that was asked to stop closes    *)
(* the port before it ends, and is not followed from there.                *)
(***************************************************************************)
EXTENDS Naturals, Sequences, FiniteSets

CONSTANTS
    Users,
    Versions,   \* versions of the CLI, which the daemon takes when it starts
    Found,      \* the versions the search for a CLI may find
    Sessions,   \* bound: effects of logins and logouts that may run at once
    Switches,   \* bound: restarts after a change of user that may run at once
    Checks,     \* bound: version checks of polls that may run at once
    MaxOps,     \* bound: the user starts nothing while this much runs
    Faults,     \* of "mint", "start", "stop", "die", "quit": what may go wrong
    NoUser,     \* no user, no token, no sidecar
    NoCli,      \* "null": there is no usable CLI
    Unresolved, \* "undefined": it has not been looked for
    NoDaemon,
    Nobody      \* no holder of operationInProgress

ASSUME DaemonAssumption ==
    /\ NoUser \notin Users
    /\ Versions \cap {NoCli, Unresolved} = {}
    /\ NoCli # Unresolved
    /\ Found \subseteq Versions
    /\ (Sessions \cup Switches \cup Checks)
          \cap {Nobody, "panel", "poll", "boot"} = {}
    /\ Sessions \cap Switches = {}
    /\ Sessions \cap Checks = {}
    /\ Nobody \notin {"panel", "poll", "boot"}
    /\ MaxOps \in Nat

VARIABLES
    state,      \* currentState
    polling,    \* statusPollTimer is set
    guard,      \* who holds operationInProgress
    bin,        \* cachedCliBinary, as its version
    pending,    \* pendingVersionRestart
    cfg,        \* the token of the profile's config.json
    sidecar,    \* .desktop-user-id: the user the token was minted for
    daemon,     \* [user, ver, up, busy, leaving (asked to stop)], and whether
                \* a stop of it has failed ("kept", which no code reads)
    signed,     \* the user signed in
    proc        \* the operations in flight

files == <<cfg, sidecar>>
vars == <<state, polling, guard, bin, pending, files, daemon, signed, proc>>

States == {"installing_cli", "cli_not_found", "stopped", "starting",
           "running", "stopping"}

\* besides: a button of the daemon card, a poll, bootstrapCli
Procs == Sessions \cup Switches \cup Checks \cup {"panel", "poll", "boot"}

Starting == <<"startCli", "startHealth", "startExec">>
Stopping == <<"stopCli", "stopExec">>
Restarting == Stopping \o Starting
Checking == <<"checkHealth", "checkCli">>
AutoStarting == <<"autoCli", "autoHealth">>
Writing == <<"writeConfig", "writeUser", "syncHealth">> \o AutoStarting
LoggingIn == <<"syncRead", "mint">> \o Writing
Clearing == <<"clearConfig", "clearUser">>

Idle == [todo |-> <<>>, who |-> NoUser, pat |-> NoUser, yes |-> FALSE,
         seen |-> NoDaemon]
Quiet(p) == proc[p].todo = <<>>
At(p, step) == ~Quiet(p) /\ Head(proc[p].todo) = step
Rest(p) == Tail(proc[p].todo)

Spare == Cardinality({p \in Procs \ {"poll", "boot"} : ~Quiet(p)}) < MaxOps

Running(d) == d # NoDaemon /\ d.up
\* Variant: the whole answer, of a daemon up or not.
HealthRaw == daemon

Health == IF Running(daemon) THEN [ver |-> daemon.ver, busy |-> daemon.busy]
                             ELSE NoDaemon

Launch(p, r) == [proc EXCEPT ![p] = r]
Op(todo) == [Idle EXCEPT !.todo = todo]

\* the process p has taken a step and becomes r; withGuard lets go at the end
Becomes(p, r) ==
    /\ proc' = Launch(p, IF r.todo = <<>> THEN Idle ELSE r)
    /\ guard' = IF guard = p /\ r.todo = <<>> THEN Nobody ELSE guard

Proceed(p, todo) == Becomes(p, [proc[p] EXCEPT !.todo = todo])
Next1(p) == Proceed(p, Rest(p))
\* Variant: an early return outside of try and finally.
AbortHolding(p) == proc' = Launch(p, Idle) /\ UNCHANGED guard

Abort(p) == Proceed(p, <<>>)

-----------------------------------------------------------------------------
(* startDaemon, stopDaemon, restartDaemon *)

\* resolveCliBinary: the operations wait for one resolution
Waiting == \E p \in Procs : \E s \in {"startCli", "stopCli", "checkCli",
                                      "autoCli", "bootCli"} : At(p, s)

ResolveCli(v) ==
    /\ bin = Unresolved
    /\ Waiting
    /\ bin' = v
    /\ UNCHANGED <<state, polling, guard, pending, files, daemon, signed, proc>>

StartCli(p) ==
    /\ At(p, "startCli")
    /\ bin # Unresolved
    /\ IF bin = NoCli THEN Abort(p) ELSE Next1(p)
    /\ UNCHANGED <<state, polling, bin, pending, files, daemon, signed>>

\* a daemon that is up is left alone
StartHealth(p) ==
    /\ At(p, "startHealth")
    /\ IF Running(daemon)
         THEN /\ Abort(p)
              /\ UNCHANGED state
         ELSE /\ Next1(p)
              /\ state' = "starting"
    /\ UNCHANGED <<polling, bin, pending, files, daemon, signed>>

\* the child of the CLI ends when the port is held or there is no token
Spawned == IF daemon # NoDaemon \/ cfg = NoUser THEN daemon
           ELSE [user |-> cfg, ver |-> bin, up |-> FALSE, busy |-> FALSE,
                 leaving |-> FALSE, kept |-> FALSE]

\* The CLI refuses when a daemon is up.  Otherwise it spawns one, waits some
\* time for it, and reports no error when it has not come up: the state stays
\* "starting".  The CLI may also fail, or be killed after it has spawned.
StartExec(p) ==
    /\ At(p, "startExec")
    /\ \/ /\ ~Running(daemon)
          /\ daemon' = Spawned
          /\ Next1(p)
          /\ UNCHANGED state
       \/ /\ \/ Running(daemon) /\ UNCHANGED daemon
             \/ "start" \in Faults /\ daemon' \in {daemon, Spawned}
          /\ state' = "stopped"
          /\ Abort(p)
    /\ UNCHANGED <<polling, bin, pending, files, signed>>

StopCli(p) ==
    /\ At(p, "stopCli")
    /\ bin # Unresolved
    /\ IF bin = NoCli
         THEN Abort(p) /\ UNCHANGED state
         ELSE Next1(p) /\ state' = "stopping"
    /\ UNCHANGED <<polling, bin, pending, files, daemon, signed>>

\* the state is "stopped" whatever the CLI says; a failure ends a restart.
\* The CLI does not see a daemon that is booting, and asks one that is up to
\* shut down; it reports success even if that is "still stopping".
StopExec(p) ==
    /\ At(p, "stopExec")
    /\ state' = "stopped"
    /\ \/ /\ IF Running(daemon)
               THEN daemon' \in {NoDaemon, [daemon EXCEPT !.leaving = TRUE]}
               ELSE UNCHANGED daemon
          /\ Next1(p)
       \/ /\ "stop" \in Faults
          /\ Running(daemon)
          /\ daemon' = [daemon EXCEPT !.kept = TRUE]
          /\ Abort(p)
    /\ UNCHANGED <<polling, bin, pending, files, signed>>

-----------------------------------------------------------------------------
(* ensureRunningDaemonVersionMatches *)

CheckHealth(p) ==
    /\ At(p, "checkHealth")
    /\ Becomes(p, [proc[p] EXCEPT !.todo = Rest(p), !.seen = Health])
    /\ UNCHANGED <<state, polling, bin, pending, files, daemon, signed>>

\* decideVersionAction, of the health read before
CheckCli(p) ==
    LET seen == proc[p].seen
        mismatch == seen # NoDaemon /\ bin # NoCli /\ seen.ver # bin
    IN /\ At(p, "checkCli")
       /\ bin # Unresolved
       /\ pending' = (mismatch /\ seen.busy)
       /\ Becomes(p, Op(IF mismatch /\ ~seen.busy THEN Restarting
                           ELSE Rest(p)))
       /\ UNCHANGED <<state, polling, bin, files, daemon, signed>>

-----------------------------------------------------------------------------
(* syncToken, clearToken and the effects of the session *)

\* both files are read before anything is written
SyncRead(p) ==
    LET u == proc[p].who
        reuse == sidecar = u /\ cfg # NoUser
    IN /\ At(p, "syncRead")
       /\ Becomes(p, [proc[p] EXCEPT
             !.todo = IF reuse THEN Writing ELSE Rest(p),
             !.pat = IF reuse THEN cfg ELSE u,
             !.yes = sidecar \notin {NoUser, u}])
       /\ UNCHANGED <<state, polling, bin, pending, files, daemon, signed>>

\* a token that cannot be minted ends the effect: the daemon is not started
Mint(p) ==
    /\ At(p, "mint")
    /\ Next1(p) \/ ("mint" \in Faults /\ Abort(p))
    /\ UNCHANGED <<state, polling, bin, pending, files, daemon, signed>>

WriteConfig(p) ==
    /\ At(p, "writeConfig")
    /\ cfg' = proc[p].pat
    /\ Next1(p)
    /\ UNCHANGED <<state, polling, bin, pending, sidecar, daemon, signed>>

WriteUser(p) ==
    /\ At(p, "writeUser")
    /\ sidecar' = proc[p].who
    /\ Next1(p)
    /\ UNCHANGED <<state, polling, bin, pending, cfg, daemon, signed>>

\* Variant: the daemon that runs is left to the version check.
SyncNoRestart(p) ==
    /\ At(p, "syncHealth")
    /\ Next1(p)
    /\ UNCHANGED <<state, polling, bin, pending, files, daemon, signed>>

\* "void restartDaemon()" runs beside the rest of the effect, and beside
\* another such restart
SyncHealth(p) ==
    /\ At(p, "syncHealth")
    /\ IF proc[p].yes /\ Running(daemon)
         THEN /\ \E q \in Switches :
                    /\ Quiet(q)
                    /\ proc' = [proc EXCEPT ![p] = Op(Rest(p)),
                                            ![q] = Op(Restarting)]
              /\ UNCHANGED guard
         ELSE Becomes(p, Op(Rest(p)))
    /\ UNCHANGED <<state, polling, bin, pending, files, daemon, signed>>

AutoCli(p) ==
    /\ At(p, "autoCli")
    /\ bin # Unresolved
    /\ IF bin = NoCli THEN Abort(p) ELSE Next1(p)
    /\ UNCHANGED <<state, polling, bin, pending, files, daemon, signed>>

\* fetchHealth probes nothing while the CLI is installed or missing
AutoHealth(p) ==
    /\ At(p, "autoHealth")
    /\ IF Running(daemon) /\ state \notin {"installing_cli", "cli_not_found"}
         THEN Proceed(p, Checking)
         ELSE Proceed(p, Starting)
    /\ UNCHANGED <<state, polling, bin, pending, files, daemon, signed>>

ClearConfig(p) ==
    /\ At(p, "clearConfig")
    /\ cfg' = NoUser
    /\ Next1(p)
    /\ UNCHANGED <<state, polling, bin, pending, sidecar, daemon, signed>>

\* then the renderer asks for a stop, which another operation refuses
ClearUser(p) ==
    /\ At(p, "clearUser")
    /\ sidecar' = NoUser
    /\ IF guard = Nobody
         THEN /\ guard' = p
              /\ proc' = Launch(p, Op(Stopping))
         ELSE Abort(p)
    /\ UNCHANGED <<state, polling, bin, pending, cfg, daemon, signed>>

Login(p, u) ==
    /\ Quiet(p) /\ Spare
    /\ signed # u
    /\ signed' = u
    /\ proc' = Launch(p, [Op(LoggingIn) EXCEPT !.who = u])
    /\ UNCHANGED <<state, polling, guard, bin, pending, files, daemon>>

Logout(p) ==
    /\ Quiet(p) /\ Spare
    /\ signed # NoUser
    /\ signed' = NoUser
    /\ proc' = Launch(p, Op(Clearing))
    /\ UNCHANGED <<state, polling, guard, bin, pending, files, daemon>>

-----------------------------------------------------------------------------
(* The daemon card, the poll, the installation *)

Press(shown, todo) ==
    /\ signed # NoUser /\ Spare
    /\ state = shown
    /\ guard = Nobody
    /\ guard' = "panel"
    /\ proc' = Launch("panel", Op(todo))
    /\ UNCHANGED <<state, polling, bin, pending, files, daemon, signed>>

PanelStart == Press("stopped", Starting)
PanelStop == Press("running", Stopping)
PanelRestart == Press("running", Restarting)

\* a click comes after the microtasks of the operations that waited
RetryInstall ==
    /\ signed # NoUser
    /\ state = "cli_not_found"
    /\ ~Waiting
    /\ bin' = Unresolved
    /\ proc' = Launch("boot", Op(<<"bootCli">>))
    /\ UNCHANGED <<state, polling, guard, pending, files, daemon, signed>>

BootCli ==
    /\ At("boot", "bootCli")
    /\ bin # Unresolved
    /\ IF bin = NoCli
         THEN state' = "cli_not_found" /\ UNCHANGED polling
         ELSE state' = "stopped" /\ polling' = TRUE
    /\ Next1("boot")
    /\ UNCHANGED <<bin, pending, files, daemon, signed>>

Poll ==
    /\ polling
    /\ Quiet("poll")
    /\ state \notin {"installing_cli", "cli_not_found"}
    /\ proc' = Launch("poll", [Op(<<"pollSet">>) EXCEPT !.yes = Running(daemon)])
    /\ UNCHANGED <<state, polling, guard, bin, pending, files, daemon, signed>>

PollEnds == proc' = Launch("poll", Idle)

\* "void ensureRunningDaemonVersionMatches()", beside those of earlier polls;
\* bound: none is started beyond Checks
PollChecks ==
    \/ \E q \in Checks :
          /\ Quiet(q)
          /\ proc' = [proc EXCEPT !["poll"] = Idle, ![q] = Op(Checking)]
    \/ /\ \A q \in Checks : ~Quiet(q)
       /\ PollEnds

\* Variant: a deferred check is forgotten.
PollSetForgets ==
    LET up == proc["poll"].yes
    IN /\ At("poll", "pollSet")
       /\ state' = IF up THEN "running"
                   ELSE IF state = "starting" THEN "starting" ELSE "stopped"
       /\ PollEnds
       /\ UNCHANGED <<polling, guard, bin, pending, files, daemon, signed>>

\* Variant: what was stopped is shown stopped until it is started here.
PollSetStopped ==
    LET up == proc["poll"].yes
    IN /\ At("poll", "pollSet")
       /\ state' = IF state \in {"starting", "stopped"} THEN state
                   ELSE IF up THEN "running" ELSE "stopped"
       /\ IF pending /\ up THEN PollChecks ELSE PollEnds
       /\ UNCHANGED <<polling, guard, bin, pending, files, daemon, signed>>

\* what the daemon answered, with the state as it is by now
PollSet ==
    LET up == proc["poll"].yes
    IN /\ At("poll", "pollSet")
       /\ state' = IF up THEN "running"
                   ELSE IF state = "starting" THEN "starting" ELSE "stopped"
       /\ IF pending /\ up THEN PollChecks ELSE PollEnds
       /\ UNCHANGED <<polling, guard, bin, pending, files, daemon, signed>>

-----------------------------------------------------------------------------
(* The daemon and the end of the application *)

DaemonUp ==
    /\ daemon # NoDaemon /\ ~daemon.up
    /\ daemon' = [daemon EXCEPT !.up = TRUE]
    /\ UNCHANGED <<state, polling, guard, bin, pending, files, signed, proc>>

\* a daemon that is up claims a task, unless it is leaving, or ends its last
DaemonWork ==
    /\ Running(daemon)
    /\ daemon.busy \/ ~daemon.leaving
    /\ daemon' = [daemon EXCEPT !.busy = ~@]
    /\ UNCHANGED <<state, polling, guard, bin, pending, files, signed, proc>>

\* the context is cancelled: the health listener is closed
DaemonLeaves ==
    /\ daemon # NoDaemon /\ daemon.leaving
    /\ daemon' = NoDaemon
    /\ UNCHANGED <<state, polling, guard, bin, pending, files, signed, proc>>

\* a crash, or an error before the daemon is up: a token the server refuses
DaemonDies ==
    /\ "die" \in Faults
    /\ daemon # NoDaemon
    /\ daemon' = NoDaemon
    /\ UNCHANGED <<state, polling, guard, bin, pending, files, signed, proc>>

\* The application ends at any point and is started again, perhaps as a newer
\* version; the daemon stays, or is stopped by before-quit.  The restored
\* session logs in.
Quit ==
    /\ "quit" \in Faults
    /\ state' = "installing_cli"
    /\ polling' = FALSE
    /\ guard' = Nobody
    /\ bin' = Unresolved
    /\ pending' = FALSE
    /\ daemon' \in {daemon, NoDaemon}
    /\ signed' = NoUser
    /\ proc' = [p \in Procs |-> IF p = "boot" THEN Op(<<"bootCli">>) ELSE Idle]
    /\ UNCHANGED files

-----------------------------------------------------------------------------
\* a first start, or a start that finds the daemon of an older version
Init ==
    /\ state = "installing_cli"
    /\ polling = FALSE
    /\ guard = Nobody
    /\ bin = Unresolved
    /\ pending = FALSE
    /\ cfg \in Users \cup {NoUser}
    /\ sidecar = cfg
    /\ \/ daemon = NoDaemon
       \/ /\ cfg # NoUser
          /\ \E v \in Versions, b \in BOOLEAN :
                daemon = [user |-> cfg, ver |-> v, up |-> TRUE, busy |-> b,
                          leaving |-> FALSE, kept |-> FALSE]
    /\ signed = NoUser
    /\ proc = [p \in Procs |-> IF p = "boot" THEN Op(<<"bootCli">>) ELSE Idle]

SessionStep(p) ==
    \/ SyncRead(p) \/ WriteConfig(p) \/ WriteUser(p) \/ SyncHealth(p)
    \/ AutoCli(p) \/ AutoHealth(p)
    \/ ClearConfig(p) \/ ClearUser(p)

Step(p) ==
    \/ StartCli(p) \/ StartHealth(p) \/ StartExec(p)
    \/ StopCli(p) \/ StopExec(p)
    \/ CheckHealth(p) \/ CheckCli(p)
    \/ p \in Sessions /\ SessionStep(p)

Environment ==
    \/ \E v \in Found \cup {NoCli} : ResolveCli(v)
    \/ \E p \in Sessions : Mint(p) \/ Logout(p) \/ \E u \in Users : Login(p, u)
    \/ PanelStart \/ PanelStop \/ PanelRestart \/ RetryInstall
    \/ DaemonUp \/ DaemonWork \/ DaemonLeaves \/ DaemonDies \/ Quit

Next == (\E p \in Procs : Step(p)) \/ BootCli \/ Poll \/ PollSet \/ Environment

Spec == Init /\ [][Next]_vars

\* Every await ends but those of the two downloads without a timeout, the CLI
\* and the token; the timer fires, a daemon that was spawned comes up or dies,
\* and one that was asked to stop leaves.
FairSpec ==
    /\ Spec
    /\ \A p \in Procs \ {"poll", "boot"} : WF_vars(Step(p))
    /\ WF_vars(BootCli) /\ WF_vars(Poll \/ PollSet)
    /\ WF_vars(DaemonUp \/ DaemonLeaves)

-----------------------------------------------------------------------------
(* Properties *)

Daemon == [user : Users, ver : Versions, up : BOOLEAN, busy : BOOLEAN,
           leaving : BOOLEAN, kept : BOOLEAN]

Steps == {"startCli", "startHealth", "startExec", "stopCli", "stopExec",
          "checkHealth", "checkCli", "syncRead", "mint", "writeConfig",
          "writeUser", "syncHealth", "autoCli", "autoHealth", "clearConfig",
          "clearUser", "bootCli", "pollSet"}

Process == [todo : Seq(Steps), who : Users \cup {NoUser},
            pat : Users \cup {NoUser}, yes : BOOLEAN,
            seen : [ver : Versions, busy : BOOLEAN] \cup {NoDaemon}]

\* Every variable has its type.
TypeOK ==
    /\ state \in States
    /\ polling \in BOOLEAN
    /\ guard \in Procs \cup {Nobody}
    /\ bin \in Versions \cup {NoCli, Unresolved}
    /\ pending \in BOOLEAN
    /\ cfg \in Users \cup {NoUser}
    /\ sidecar \in Users \cup {NoUser}
    /\ daemon \in Daemon \cup {NoDaemon}
    /\ signed \in Users \cup {NoUser}
    /\ \A p \in Procs : proc[p] \in Process

\* operationInProgress is held by an operation that still has steps to take,
\* so that no path of an operation leaves the manager refusing every other
\* one (daemon-manager.ts:623-633), and it is let go of in the end, as long as
\* each search for a CLI ends: the download has no timeout
\* (cli-bootstrap.ts:34-43).
GuardHeld == guard # Nobody => ~Quiet(guard)
GuardFreed ==
    []<>(bin # Unresolved) => (guard # Nobody ~> guard = Nobody)

\* A daemon found running for another user than the one who logs in over a
\* session does not stay: it is gone or is that user's, unless a stop of it
\* fails (daemon-manager.ts:578-592).
SwitchRestarts ==
    (/\ bin \in Versions /\ Running(daemon)
     /\ \E p \in Sessions : /\ At(p, "syncHealth") /\ proc[p].yes
                            /\ daemon.user # proc[p].who)
    ~> (daemon = NoDaemon \/ daemon.user = signed \/ daemon.kept
          \/ signed = NoUser)

\* A check deferred because the daemon was busy is not pending for ever once
\* the daemon is idle for good: a later poll makes it again
\* (daemon-manager.ts:458-460, 719-722).
DeferredRestart ==
    <>[](daemon # NoDaemon => ~daemon.busy) =>
        [](pending => <>(~pending \/ daemon = NoDaemon))

\* When the operations and the daemon have come to rest, the polls bring the
\* state shown to what the daemon is: an answer read before a stop or a start
\* and set after it is corrected.  But without a daemon a state "starting"
\* stays (daemon-manager.ts:253, 676-680).
AtRest == /\ \A p \in Procs \ {"poll"} : Quiet(p)
          /\ bin # NoCli
          /\ daemon # NoDaemon => daemon.up
StatusSettles ==
    /\ <>[](AtRest /\ Running(daemon)) => <>[](state = "running")
    /\ <>[](AtRest /\ daemon = NoDaemon) =>
           <>[](state = "stopped") \/ <>[](state = "starting")

\* Implied at daemon-manager.ts:253 and 676-678, where "starting" waits for a
\* health that a daemon which has failed never gives.
StartingEnds ==
    <>[](AtRest /\ daemon = NoDaemon) => <>[](state = "stopped")

\* Said at daemon-manager.ts:79-82: the sidecar names the user of the cached
\* token, so that a session of another user mints a token of its own.
SidecarNames ==
    (\A p \in Sessions : Quiet(p)) =>
        sidecar = NoUser \/ cfg = NoUser \/ sidecar = cfg

\* Said at daemon-manager.ts:539-540: when a token is minted and a daemon is
\* already running, it is restarted so that the new credentials take effect.
MintRestarts ==
    \A u \in Users :
        (/\ \E p \in Sessions : At(p, "syncHealth") /\ proc[p].who = u
         /\ bin \in Versions /\ Running(daemon) /\ daemon.user # u)
        ~> (daemon = NoDaemon \/ daemon.user = u \/ signed # u)
=============================================================================
