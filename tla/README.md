# Verification of Multica: the task queue and the clients

TLA+ models, TLC runs and TLAPS proofs about the server, the daemon and the
clients of this repository. Two halves have a concurrency of their own. On the
server it is how a row of `agent_task_queue` gets from a trigger to an agent
and to its end while claim requests, daemons, sweepers, users and the server
itself interleave and fail. In the clients it is what the callbacks of one
event loop do to state that outlives them: tabs, the session and the stores it
persists, the local daemon the desktop application manages, and the cache of a
board that several writers change before the server has answered.

## 1. The system

The Go server (`src/server`) keeps all state in PostgreSQL and a few caches in
Redis. Daemons on the users' machines register *runtimes*, poll the server for
tasks of the agents assigned to those runtimes, run a command-line agent for
each and report back. No transaction spans a whole operation of the queue: a
handler is a sequence of SQL statements, and everything else may run between
two of them.

The clients are written in TypeScript: a web application and a desktop
application that share `src/packages`. Each is one event loop, so code between
two `await`s is atomic and everything else interleaves: answers come in any
order, React runs effects after what it has rendered, timers and WebSocket
events come in between, and a reload keeps only what is in the local storage.
The desktop application's main process is a second event loop, which starts,
stops and watches a local daemon.

| component | state | operations | talks to |
|---|---|---|---|
| **Agent task queue** (`internal/service/task.go`, `pkg/db/queries/agent.sql`) | rows of `agent_task_queue`: status, agent, issue / chat / run link, runtime, attempt, failure reason, parent | enqueue (issue, mention, chat, quick-create, autopilot run), claim, start, complete, fail, retry, revive, five cancellations | called by every handler; calls the gate, notifies daemons |
| **Claim gate** (`empty_claim_cache.go`, `startup_breaker.go`) | Redis: a version and a verdict per runtime; the breaker has none, it reads the runtime's final rows | `IsEmpty`, `CurrentVersion`, `MarkEmpty`, `Bump`; `StartupFailureBreakerOpen` | read by claims, bumped by enqueues |
| **Runtime sweeper, orphan recovery** (`cmd/server/runtime_sweeper.go`, `handler/task_lifecycle.go`) | `agent_runtime.status`, `last_seen_at` | mark runtimes offline, fail their tasks, fail stale tasks, recover orphans, delete old runtimes | fails rows, triggers retries |
| **Daemon task execution** (`internal/daemon/daemon.go`) | in-memory: one poller per runtime, one goroutine per task, a semaphore of slots | register, recover, poll, `handleTask`, watch for cancellation, shut down, unwatch | HTTP calls that may be lost either way |
| **Chat session deletion** (`handler/chat.go`) | `chat_session` | create, send, delete | cancels and unlinks rows |
| **Agent lifecycle** (`handler/agent.go`) | `agent.runtime_id`, `archived_at`, `status` | update, archive, restore, cancel all | read by enqueues; cancels rows |
| **Desktop tabs and navigation** (`tab-store.ts`, `navigation.tsx`, `App.tsx`, `use-tab-router-sync.ts`, `workspace-route-layout.tsx`) | groups of tabs per workspace, the active workspace, a router per tab, an overlay | open, close, move, activate, switch workspace, navigate, validate against the workspace list, reload | the workspace list; persisted by `zustand` |
| **Client session and persisted stores** (`auth/store.ts`, `auth-initializer.tsx`, `api/client.ts`, `workspace-storage.ts`, `storage-cleanup.ts`, `chat/store.ts`) | token in the storage and in the client, user, current workspace, stores under a key per workspace | start, sign in by code or deep link, switch identity, refresh, log out, enter and leave a workspace, type | the API; 401s come back as callbacks |
| **Desktop daemon manager** (`daemon-manager.ts`, `version-decision.ts`, `cli-bootstrap.ts`, `daemon-runtime-card.tsx`) | status shown, guard, resolved CLI, token and user files, deferred restart | start, stop, restart, check the version, sync and clear the token, auto-start, poll, install | the CLI as a child process, the daemon's health endpoint |
| **Issue cache and realtime sync** (`issues/queries.ts`, `mutations.ts`, `ws-updaters.ts`, `cache-helpers.ts`, `use-realtime-sync.ts`, `ws-client.ts`) | one query with a bucket per status, mutations in flight, a socket | fetch, create, update, delete (and batches), roll back, refetch, apply events, reconnect | the API and the WebSocket hub |
| Runtime liveness (`handler/daemon.go`, `runtime_liveness_store.go`) | Redis liveness keys beside `last_seen_at` | heartbeat, with or without a database write | read by the sweeper |
| Autopilot (`service/autopilot.go`, scheduler) | `autopilot_run.status` | dispatch, schedule, listen to task and issue events | enqueues rows, is told of their end |
| Routine task queue (`handler/routine_task.go`) | rows with leases and attempts | create, claim, heartbeat, close, fail, reclaim, dead-letter | polled by external workers |
| Runtime request stores (`handler/runtime_update.go`, `runtime_models.go`, `runtime_local_skills.go`) | requests per runtime, in memory or in Redis | create, pop on a heartbeat, report, time out on access | daemons and web clients |
| Correlated runs (`task.go`) | `effect_id` on rows | enqueue, rerun, look up | - |
| Server side of realtime events, CRUD handlers, execution environments, agent backends, pages | - | - | notifications, plain request-response, presentation |

### What is hard here

* **Interleaving.** Claims of one agent come from the pollers of several
  runtimes (an agent may be moved while its rows stay behind) and from requests
  whose daemon has gone away. `ClaimAgentTask` decides on a snapshot and re-reads
  only the row it locks.
* **Check, then act.** The pending check before an insert, the running count
  before a dispatch, `archived_at` before an enqueue, the breaker before a claim,
  the empty list before a cached verdict.
* **Lost calls and crashes.** Every daemon call may be lost before or after it
  took effect; the daemon or the server may die between two steps.
* **Two opinions on one task.** The sweeper gives up on a task whose daemon goes on
  with it; the daemon's late report meets a row that is final, retried or
  unlinked.
* **Bounds.** `max_concurrent_tasks`, `max_attempts`, one pending row per issue and
  agent, two TTLs, a cooldown.
* **Effects after the fact.** A client's effect runs for a state that has moved on:
  a push after an `await` by a hidden tab, a validation against a list that is
  only the default of an unanswered query, a poll that sets the status an
  operation has changed meanwhile, an old 401 that meets a new token, a chat
  session that is created in one workspace and stored in the next.
* **Two copies.** The token in the storage and in the client, a tab's path in the
  store and in its router, the token and its owner in two files, the board on the
  server and in the cache with optimistic changes on top.
* **Liveness.** Nothing is retried by hand: rows must end because the sweeper ticks
  and must be served because the pollers poll.

`PROJECT.json` lists the hazards, each at its line with the properties that
cover it, and those still open.

### What makes each component correct

* *Task queue*: an agent works on an issue one task at a time; a task is handed
  out once; a final row stays final, except for the one documented revive; retries
  form chains within the budget; the concurrency limit is overshot by a bounded
  amount; every active row ends and every queued one is served.
* *Claim gate*: a trusted verdict hides no row whose enqueue has invalidated it, as
  long as no renewal of its key fails; a closed breaker stops dispatches up to the
  requests already past it and those that cannot read the history; neither holds a
  row back for good.
* *Chat deletion*: nothing of a deleted session is left to run.
* *Tabs*: a tab belongs to one group, the active workspace has one, the path kept
  for a tab is that of its own router, nothing is lost by a reload or by a list that
  has not been fetched, and a user always lands somewhere.
* *Session*: both copies of the token agree; a signed-out client has no workspace;
  what was typed into the chat of one workspace is not seen in another (the session
  a late answer brings may be); a logout is final until somebody signs in; the
  splash ends.
* *Daemon manager*: an operation lets go of the guard; a daemon of the previous user
  is gone or replaced, unless its stop fails; a deferred check is made again; the
  status shown becomes the daemon's.
* *Issue cache*: an older answer never undoes a newer change; once users rest and
  fetches are answered, the board ends as the server has it after a reconnection
  and after a mutation, failed or not, unless the server still carries out what the
  client has given up.
* *Runtime liveness* (planned): a runtime whose heartbeats arrive is not swept for
  good.
* *Autopilot* (planned): a run's final status is the one its task ended with.
* *Routine queue* (planned): a worker whose lease was reclaimed cannot close the
  task of its successor.
* *Agent status* (planned): "working" if and only if rows are active, once quiet.
* *Correlated runs* (planned): one row per effect and attempt.
* *Runtime request stores* (planned): one update of a runtime at a time; a final
  request stays final.

## 2. Modules

| module | what it is |
|---|---|
| `TaskQueue` | the queue with its claims, executions, sweeps, retries and cancellations |
| `CoalescingQueue` | abstract: what the queue promises for issue work, one pending slot and one working place per (agent, issue) |
| `MCTaskQueue` | instances, and next-state relations restricted to an environment |
| `TaskQueue_proofs` | theorems about `TaskQueue`: types, one active task per pair |
| `TaskQueueRows_proofs` | the kinds of steps a row can see; final rows, retries, deleted chats, the refinement of `CoalescingQueue` |
| `TaskQueueClaims_proofs` | the claims: a task is handed out once, the capacity bound |
| `ClaimGate` | the empty-claim cache and the startup breaker of one runtime |
| `MCClaimGate` | an instance; liveness of one row |
| `ClaimGate_proofs` | theorems about `ClaimGate` |
| `TabStore` | the desktop's tabs, routers, overlay and the effects on the workspace list |
| `ClientSession` | token, user, current workspace and the persisted stores |
| `DesktopDaemon` | the operations of the daemon manager, the two files and the daemon |
| `IssueCache` | the board's query, mutations, events and the socket |
| `MCTabStore`, `MCClientSession`, `MCDesktopDaemon`, `MCIssueCache` | instances of the four |
| `TabStore_proofs`, `ClientSession_proofs`, `DesktopDaemon_proofs`, `IssueCache_proofs` | theorems about the four |

An operator whose comment begins with "Variant:" is a deliberately wrong form of
the definition after it. No specification uses it; it records which mistake each
property would catch (`mutants` in `PROJECT.json`).

### TaskQueue and the code

One action is one SQL statement, one transaction, or one step of a daemon.

| state | code |
|---|---|
| `tq` | the rows, their ids in `created_at` order; `subj` folds the nullable issue, chat and autopilot links into one value; `Orphan` is what a chat row becomes when `ON DELETE SET NULL` unlinks it |
| `enqueues` | an enqueue request between its read of the agent and its `INSERT` |
| `claims` | a claim request: `cand` is the list of candidates not yet tried, `snap` the rows the snapshot of `ClaimAgentTask` found, `got` the row to be returned, `conn` whether the daemon still waits |
| `retries` | failed rows whose retry `MaybeRetryFailedTask` has decided but not yet inserted |
| `online`, `sweep` | `agent_runtime.status`; whether the sweeper is between its two statements |
| `daemon`, `exec` | the process of a runtime's daemon; what it does with each task |
| `agentRt`, `archived`, `chats` | `agent.runtime_id`, `archived_at`, the sessions that exist |

A claim is `ClaimList` (candidates), then for one agent after the other
`ClaimCount` (the count), `ClaimSelect` (the snapshot with its `NOT EXISTS`) and
`ClaimDispatch` or `ClaimLostRace` (the row lock), then `ClaimReply`, or
`ClaimForeign` when the workspace check cancels the row. `ClaimDisconnect` and
`ClaimAbort` are the client and the server letting go at any point. A list
without candidates changes nothing and is no step here; `ClaimGate` has what
follows from it.

A row's time is not modelled: any active row may be overdue, since a daemon may be
cut off for longer than either timeout (300 s dispatched, 9000 s running). In the
same way a runtime that is alive may be swept, since its heartbeats may be lost.

Failing a row and inserting its retry are two steps (`FailRows`,
`CreateRetryTask`), as they are two statements; `ServerRestart` between them loses
the retry.

### ClaimGate and the code

`Insert` commits the row and leaves a `Bump` due; `Bump`, `BumpHalf` (the pipeline is
no transaction: only the INCR was executed) or `BumpLost` follows at any time. A
claim goes through `CacheMiss` (or `CacheUnreachable`), `PassGate` (or `Parked`, or
`PassUnread`: the history cannot be read and the breaker fails open),
`SampleVersion`, which is the GET of `CurrentVersion` (or `SampleLost`, which reads
as version 0), `Renew`, which is its EXPIRE (or `RenewLost`, whose error is
ignored), `ListNone` or `ListSome`, and `MarkEmpty`, `Take` or `TakeNone`; `Abort` is
an error at any step. Redis expiry is `ExpireVerdict` (3 minutes), and `Cool` with
`ExpireVersion` (24 hours after the last renewal). Time is in `held` and `vheld`: the
requests, and the verdict, that were in progress when the key was last renewed. `Cool`
waits until these are over, since none lasts 24 hours, and for nothing else: the
key may expire under a request that has not renewed it. `lapsed` and `vlapsed` say
whose key has missed a renewal, `blind` who has passed the breaker unread; these are
history, on which no step of the code depends. `streak` is the number of newest final rows that are startup
failures, which `startupBreakerVerdict` reads from the table, `fresh` whether the
newest is within the cooldown. Which row a claim takes is left open: `TaskQueue`
decides that.

### TabStore and the code

| state | code |
|---|---|
| `active`, `groups` | `activeWorkspaceSlug`, `byWorkspace` of `tab-store.ts` |
| `path`, `loc` | the path the store keeps for a tab; the location of the tab's router |
| `synced` | the tab whose router `useTabRouterSync` is subscribed to |
| `overlay` | whether `window-overlay-store` shows one |
| `user`, `list`, `fetched` | the user; the cached workspace list and its `isFetched` |
| `unchecked`, `due` | the list has changed and the layout effect, the overlay effect of `App.tsx` has yet to run |

A path is a workspace and a page; a router is its current location, since back
and forward only change it to another path of the tab. The store's functions
are operators (`SwitchTo`, `OpenOrActivate`, `Validated`, `Merged`, ...), its
callers are the actions: the tab bar, the adapters of `navigation.tsx` (which may
be called by a page whose tab is hidden), the OS notification, the effects, and
`Reload`, which is `partialize` followed by `merge`. `Commit` is React moving the
subscription to the visible tab. Which slugs `AutoHeal` has resolved before is
left open, so the action may be taken or not. `OverlayEffect` has the lookup of
pending invitations folded into one step.

### ClientSession and the code

| state | code |
|---|---|
| `stored`, `token` | `multica_token` of the storage; `ApiClient.token`. A token is the user it belongs to |
| `user`, `loading` | `useAuthStore` |
| `calls`, `accepted` | requests in flight, with the token they were sent with; whose token the server accepts |
| `cur`, `list` | `_currentSlug`; the cached workspace list |
| `mem`, `disk` | the live stores; what is stored under each key. A content is the set of the workspaces it was typed in, and `Late` for what an answer brought to another workspace |
| `sends` | requests that a store's code awaits before it writes: the creation of a chat session (`chat-window.tsx:203-209`), a form whose draft is cleared afterwards (`create-issue.tsx:213-214`) |

`Plain` are stores of `zustand`'s `persist`, `Chat` those that read their keys
themselves: session, agent, drafts. (`isExpanded` is read at creation only and left
out, `chat/store.ts:144` against 218-237.) `Rehydrated` is the difference: `persist`
merges what it finds, and an absent key has nothing to merge. `SendForm` sends a
form or the first message of a chat; `Sent` is what the code does after the `await`,
under whichever workspace is current then, or none; `SendFails` is any error. An answer is `Answered`: a success, a 401
(`Unauthorized`, which forgets the token there is *now*) or another error.
`Boot` is a page load with whatever token the storage has; `SwitchIdentity` is
one with another token, and a lost workspace ends in one.

### DesktopDaemon and the code

| state | code |
|---|---|
| `state`, `polling`, `guard`, `bin`, `pending` | `currentState`, `statusPollTimer`, `operationInProgress` with its holder, `cachedCliBinary`, `pendingVersionRestart` |
| `cfg`, `sidecar` | the token of `config.json`; `.desktop-user-id` |
| `daemon` | the process that holds the health port: for whom, which version, up, busy, asked to stop (`leaving`); `kept`, which no code reads, says that a stop of it has failed |
| `signed` | the user of the renderer |
| `proc` | the operations in flight, each with the steps it has yet to take and what it read before an `await` |

A step is the code between two `await`s, and an operation is a list of steps
(`Starting`, `Stopping`, `Checking`, `Writing`, ...): a step may go on, end the
operation (`Abort`) or put another list in its place, as `CheckCli` does. The
guard is taken by `Press` and by the stop at the end of a logout, as `withGuard`
is; the login's auto-start, the version check and the restart after a change of
user run outside of it, as in the code: `Switches` and `Checks` are as many such
restarts and checks as may run at once. `StartExec` and `StopExec` are the CLI
(`cmd_daemon.go`): a start without a token, or whose daemon never comes up, is no
error and leaves "starting"; a start that is killed may have spawned one; a stop may
report success with the daemon still there (`leaving`). A daemon that has been
spawned is not up until `DaemonUp`, and the CLI does not see it before; one that was
asked to stop is gone with `DaemonLeaves`, when it closes its port. `Quit` is the
end of the application at any point, between the writes of the two files too, and
its next start, which finds the daemon or not.

### IssueCache and the code

| state | code |
|---|---|
| `srv` | the server's issues: a status, not yet created, or deleted |
| `unsent`, `changes` | events that handlers have yet to publish; how many changes there were, for the bound |
| `events`, `conn`, `met` | events under way; the socket; `hasConnectedBefore` |
| `here` | the workspace is open, so the query is observed |
| `cache`, `invalid`, `fetch` | data, `isInvalidated` and the fetch of `issueKeys.list`: one request per status, which read the server at different moments |
| `muts` | mutations in flight with the snapshot for their rollback; requests that the client has given up (`lost`) and the server may still carry out |
| `over` | from here on users rest, the connection holds and fetches are answered: the premise of the recoveries |

A bucket is a bag, for the duplicates that matter. A batch's loop over its issues
is written issue by issue (`EachOf`): what the helpers do for one issue looks at
no other, so the order does not matter. `Holds` to `PatchIssue` are
`cache-helpers.ts`, `Handled` is `ws-updaters.ts`. TanStack Query is modelled by
what the code relies on: `cancelQueries` drops a fetch, `invalidateQueries` starts
one for an observed query in place of the one in flight (unless that is the
first), `setQueryData` marks the data valid, an unobserved query is collected
after `gcTime`, a fetch rejects when one of its pages fails and is tried twice
(`FetchFails`), after which the data stays as it was. A change on the server is two
steps as in `handler/issue.go`: `Commit` is the statement, `Publish` the event, some
queries later; handlers of several requests publish in any order. `Serve` is this for
the requests of this client, a batch issue by issue, skipping what is gone or fails;
the answer comes at any time after. `Fail` may come before or after: a refusal, or a
request the client gives up, which stays in `muts` as `lost` until it has been
carried out or never will be (`Forgotten`). The `cancelQueries` that deletes and
batches `await` takes microtasks only, so it is one step with what follows it.

## 3. Runs

Each run asks one question on the smallest instance where it is interesting.

| run | instance | shows |
|---|---|---|
| `TQ_issue` | 1 agent with room for 2 tasks, 1 runtime, 1 issue, 2 rows, 2 claims; everything may happen | `TypeOK`, `OneActivePerIssueAgent` with the inductive `IssueInv`, `HandedOutOnce`, `FinalStays` |
| `TQ_retry` | the same with 3 rows, 1 claim; faults but no users | `RetryChain`; `Coalesces`: the queue implements `CoalescingQueue` |
| `TQ_chat` | 1 chat session, 2 rows; everything | `DeletedChatIdle` |
| `TQ_moves` | 1 agent with room for 1 task moved between 2 runtimes, 3 autopilot rows, 2 claims; no faults but lost claim connections | `ActiveBounded` |
| `TQ_live` | 2 agents sharing a runtime and an issue, 2 rows; faults, fairness | `NoStuckTask`, `QueuedServed` |
| `CG_gate` | 2 rows, 2 claims, threshold 1; everything, fairness | `TypeOK`, `VerdictSound` with the inductive `CacheInv`, `BurnInv`, `Served` |
| `TB_tabs` | 2 workspaces, 2 pages, 2 tabs | `TypeOK`, `TabInv`, `GroupsKept`, `PathsFollow`, `ReloadRestores`, `Lands` |
| `CS_session` | 2 users, 2 workspaces, the chat store, 2 requests in flight | `TypeOK`, `TokensAgree`, `NoContextSignedOut`, `ChatScoped`, `StaysForgotten`, `LoadingEnds` |
| `DM_daemon` | 2 users, 2 versions, 1 effect of the session, 1 restart of a switch and 1 check of a poll at a time, all faults | `TypeOK`, `GuardHeld` and `GuardFreed`, `SwitchRestarts`, `DeferredRestart`, `StatusSettles` |
| `IC_board` | 1 issue, 2 shown statuses, 1 mutation in flight, 2 changes on the server in all; fetches, requests and the connection fail | `TypeOK`, `OptimisticHolds`, `ReconnectRecovers`, `SettleRecovers` |
| `TQ_overclaim` | 1 agent with room for 1 task moved between 2 runtimes; no fault | **violated**: `MaxConcurrentRespected` |
| `CS_drafts` | as `CS_session` with a draft store | **violated**: `StoresScoped` |

### Bounds

* *Rows* (`MaxRow`, `Row`). Rows are never removed, so a behaviour inserts
  at most this many. It does not stop there: a daemon can always start or end, or
  time pass, so every run also checks for deadlock. Two rows are enough for every race between two rows of a
  pair; a retry needs its parent and, to compete with it, a new trigger, which is
  why `TQ_retry` has three, as has `TQ_moves`, where three rows are what it takes
  to exceed the bound of two. In `CG_gate` one row closes the breaker while a request
  is on its way past it with the other; the same instance with three rows, where two
  are, takes too long for a run with liveness, and TLC finds no violation of its
  invariants in 2.2 million states (with symmetry).
* *Claims.* Two requests are the least that race; one is enough where the claim's
  own race is not the question (`TQ_retry`, `TQ_chat`, `TQ_live`).
* *MaxAttempts* is the code's default of 2. *Concurrency* is 2 where the limit
  must not hide a race and 1 where it is the question.
* *Threshold* is 1, not the code's 3: the number of failures it takes to close the
  breaker matters to no property, and the theorems hold for every threshold.
* *Symmetry* over claim requests is used in `TQ_issue` and `TQ_moves` only, which
  check no liveness.
* *Tabs*: two tabs are one per workspace or two in one, which is what closing,
  moving, activating and leaking between groups need; an action that needs a new
  tab is disabled when none is free, `SetActiveTab` and the effects are not. A
  third tab is beyond a run's time; the theorems, which state all of the run's
  safety properties, hold for any number.
* *Session*: two requests in flight are the least that can be answered out of
  order; two users and two workspaces the least that can be confused. One chat
  store stands for all, since no action relates two stores; `CS_drafts` has a
  store of either kind.
* *Daemon*: `MaxOps` = 1 means the user starts nothing while an operation, other
  than a poll or a boot, is under way; the operations the code itself runs beside
  it (the restart after a switch, the check a poll repeats, the poll) are not
  bounded by it, but one restart and one check run at a time: a second restart waits
  for the first, a second check is not started. The run's safety properties hold with
  two checks (3.2 million states) and with two restarts and `MaxOps` = 2 (2.9
  million, where only the stop fails) as well; the theorems have any number. `Found` =
  {v2} is an application that brings the newer version, with v1 the one a daemon may
  still run.
* *Issue cache*: one issue suffices, since buckets are per issue and the helpers
  treat each alone; two changes on the server are the least that can be published out
  of order. One mutation at a time: two multiply the states beyond a run's time, so
  that a rollback over another mutation of the same client is not covered by
  `SettleRecovers`. `OptimisticStands` is proved for any number. A hidden status
  (`Hidden`) is left out of the run for its time; with one, TLC finds no violation in
  1.9 million states.
* *States*: `CG_gate` 680 thousand, `TB_tabs` 150, `CS_session` 740, `DM_daemon` 265,
  `IC_board` 920 thousand distinct states.

`TQ_issue`, `TQ_chat`, `CG_gate` and the runs of the clients have the full next-state
relation. The other `TQ` runs restrict the environment, each for a question the restriction does not answer by itself:
what is left out (users, faults) is in a sibling run, and the operators
(`Unattended`, `Moving`, `Patient`, `Outage`) say so at their definition.

### Fairness

`Fairness` in `TaskQueue` is weak and per item:

* for each row, a stale sweep that includes it: `runRuntimeSweeper` is a ticker
  that calls `sweepStaleTasks` on every tick, and that statement takes every
  overdue row. A row that stays active for ever is overdue at last;
* for each row, the daemon's next step with it: `handleTask` is a goroutine whose
  calls have timeouts and whose agent has one too. A daemon that dies is
  `DaemonStop`, which disables the step;
* for each runtime, a claim while its daemon is up: `runRuntimePoller` loops;
* for each claim, the steps of a server goroutine.

No user, no fault, no heartbeat, no start of a daemon is fair. `QueuedServed`
therefore has a premise, `Undisturbed`: from some time on the daemon stays up
and claim requests reach their reply. With claims cut off for ever no row can
be served. `NoStuckTask` has no premise.

In `ClaimGate` each claim's steps are fair, and so are the two expiries: Redis
drops the verdict after its TTL, and `startupBreakerVerdict` compares with the
clock. `Bump` is not fair, it may always be lost; so `Served` is the statement that
the TTL makes up for it. Its premise is that requests do not die for ever.

In the clients fairness is that of an event loop. `TabStore`: React runs the
effects of what it has rendered (`Commit`, the layout effect, the overlay effect).
`ClientSession`: every request is answered, be it by an error of the network;
`LoadingEnds` has the premise that the user stops reloading, since each reload
starts over. `DesktopDaemon`: the `await`s of an operation end, as the calls to the
CLI, to the daemon and to files have timeouts or end by themselves, the poll timer
fires, a spawned daemon comes up or dies, one that was asked to stop leaves. Not
fair are `Mint`, a request to the server, and `ResolveCli`, which may download the CLI
without a timeout (`cli-bootstrap.ts:34-43`): `GuardFreed` has the premise that each
search ends, the others speak of states where it has. `IssueCache`: one weak fairness
over all that is under way (`Progress`): requests are answered or fail, handlers
publish, events arrive while the socket is open, it is opened again after three
seconds, and the user comes back to the workspace. One condition suffices because
once users rest only finitely much is under way, so that all of it is done. That
fetches fail no more is the premise `over` of the recoveries, not fairness: a fetch
that fails twice leaves the stale board. No user, no other client, no fault is fair. `IC_board` does not
check for deadlock: after `Rest` the world only finishes what is under way, and
may then stop.

Premises of liveness properties are states the runs reach, and each property
fails for a mutated definition of the code (`mutants`), so none holds emptily.

### Where the code and its comments differ

* `TQ_overclaim`: "respecting max_concurrent_tasks" (`task.go:521-522`). The count and
  the dispatch are separate statements, so two runtimes' pollers both pass.
  `ActiveBounded` is what is true: at most one further task per further claim in
  flight.
* `CS_drafts`: "Persisted with the workspace-aware StateStorage so switching
  workspaces shows the right default automatically"
  (`quick-create-store.ts:10-11`). `setCurrentWorkspace` calls `persist.rehydrate`,
  and from an absent key nothing is merged: in a workspace entered for the first
  time the store shows the agent and the prompt of the one left before, and saves
  them under the new key at the next change. What is true is `ChatScoped`, of the
  chat store, which reads its keys itself.

These further properties state what a comment says or the code plainly intends, and
are false as well. No run has them; put in place of the properties of the named configuration, TLC shows
why.

| property | says | why it fails | to see it |
|---|---|---|---|
| `TaskQueue!ChatSerialized` | "Chat tasks ... use chat_session_id for serialization instead" (`agent.sql:208`) | no unique index as for issues, and the row lock does not cover the `NOT EXISTS`: two claims dispatch two messages of one session | `TQ_overclaim` with `Chat = {k1}`, `Work = {k1}`, `Concurrency = 2` |
| `TaskQueue!NoDuplicateRuns` | "preventing a single agent from running duplicate tasks" (`agent.sql:206-207`) | true of the rows (`OneActivePerIssueAgent`), not of the processes: a daemon stops an agent only for a cancelled or missing task (`daemon.go:1364`), so an execution failed as `runtime_offline` goes on beside its retry | `TQ_retry` with `SPECIFICATION Outage` |
| `ClaimGate!VerdictAlwaysSound` | "Sliding TTL is renewed on every Bump and every Get", so that the counter does not "reset to 0 between an enqueue's Bump and the next claim's MarkEmpty" (`empty_claim_cache.go:47-51`, 102-104) | the EXPIRE is a call of its own whose error is ignored (116), and a Bump's pipeline may be half executed (194): the key expires, the version starts again, and an old verdict becomes current. `VerdictSound` is what is true | `CG_gate` |
| `ClientSession!ChatShowsOwn` | the chat's session is kept per workspace and re-read on a switch (`chat/store.ts:123-126`, 218-234) | the chat window awaits the new session and stores it under the workspace there is by then (`chat-window.tsx:203-209`). `ChatScoped` is what is true | `CS_session` |
| `ClientSession!LeavesOn401` | "On 401, the auth flow navigates to /login" (`api/client.ts:223-227`) | only the token is cleared; `user` stays, and nothing navigates while it does | `CS_session` |
| `DesktopDaemon!MintRestarts` | "When we mint fresh and a daemon is already running, restart it" (`daemon-manager.ts:539-540`) | the restart depends on a *change* of the sidecar's user (580); after a logout there is no sidecar, and a daemon whose stop was refused or failed keeps the old token | `DM_daemon` |
| `DesktopDaemon!SidecarNames` | the sidecar "records which Multica user the cached PAT in config.json was minted for" (`daemon-manager.ts:79-82`) | the two files are written one after the other (575-576, 616-620): a crash in between, or the effects of a logout and a login that overlap, leave one user's token under another's name, which that user's next login reuses | `DM_daemon` |
| `DesktopDaemon!StartingEnds` | "Stay in "starting" until pollOnce confirms /health" (`daemon-manager.ts:676-678`) | the CLI reports success for a daemon that never comes up, and without one nothing changes "starting". `StatusSettles` is what is true | `DM_daemon` |
| `IssueCache!MissedRecovered` | "Reconnect -> refetch all data to recover missed events" (`use-realtime-sync.ts:710`) | leaving a workspace resets `hasConnectedBefore` (`ws-client.ts:132`): on the way back the connection counts as the first, and the cached board is still fresh (`staleTime: Infinity`) | `IC_board` |
| `IssueCache!NoDoubles` | "no-op if already present" (`cache-helpers.ts:39`), "dedup checks to be idempotent" (`use-realtime-sync.ts:232-234`) | the check looks into the bucket of the new status only: a `created` event after the issue has been moved adds it again | `IC_board` |
| `TabStore!NoLeak` | tabs never leak into another workspace (`tab-store.ts:45-47`) | the click on an OS notification of another workspace calls `openTab`, which takes the active group whatever the path (`desktop-layout.tsx:93`) | `TB_tabs` |

## 4. Proofs

TLC finds these properties true of small instances; the theorems say they hold
for all values of the constants: any sets of rows, agents, runtimes, issues and
requests, of users, workspaces, tabs, stores and mutations.

* `TaskQueue_proofs!TypeCorrect`: `Spec => []TypeOK`.
* `TaskQueue_proofs!IssueInvariant` and `OneActive`:
  `Spec => []OneActivePerIssueAgent`. The property is not inductive: a claim
  dispatches a row it found claimable in an older snapshot. `IssueInv` adds the
  two facts that make this safe. *PendingUnique*, from the unique index: a waiting
  or dispatched row is the only one of its pair. *SnapshotHolds*: a row of a
  snapshot that is still queued has no active sibling, because a sibling can
  become active only by being dispatched, hence by having been pending beside it.
  The proof has a lemma for the steps that only end rows (`RetiresKeeps`), one for
  the inserts (`InsertKeeps`), one for starts (`StartKeeps`) and one for the
  dispatch (`DispatchIssueInv`); every action is one of the four.
* `TaskQueueRows_proofs` sorts the steps of `Next` once and for all
  (`NextKinds`): an insert by an enqueue or by a retry, a dispatch, a start, or a
  step that does no more than end rows and unlink a chat's (`EndStep`). What
  follows is proved by kinds:
  * `FinalRowsStay`: `Spec => FinalStays`, an action property;
  * `RetriesAreChains`: `Spec => []RetryChain`. Not inductive: an insert
    needs to know of the failure it is for. `RetryInv` adds that a failure in
    `retries` is final, has an attempt left and no retry yet, and that an absent
    row has no parent. The first is why two reports of one failure cannot
    both be retried;
  * `DeletedChatsIdle`: `Spec => []DeletedChatIdle`. `ChatInv` adds that no
    enqueue under way is about an unlinked row; that the one row of a deleted
    session that can still be dispatched, a late retry, is not started is
    the workspace check in `StartStep`;
  * `QueueCoalesces`: `Spec => Coalesces`, the refinement of `CoalescingQueue`.
    Step by step: an insert is `Submit` of its key or a stutter (chat and autopilot
    rows have no key), a dispatch `Offer`, a start `Begin`, everything else
    `Release` of the keys whose rows have ended. `IssueInv` is what makes it
    one row per slot: without it the end of one row would leave the slot taken
    by another.
* `TaskQueueClaims_proofs!HandedOut`: `Spec => []HandedOutOnce`. `HandoutInv` adds that
  what a daemon or a reply holds has left the queue, and that no row returns to
  it (`NextRowsKept`): so a dispatch, which takes a queued row, cannot take
  one that somebody holds.
* `TaskQueueClaims_proofs!ActiveIsBounded`: `Spec => []ActiveBounded`. The count of active
  rows alone says nothing of the claims that are past their check.
  `CapacityInv` counts them in: active rows and requests admitted (`Admitted(a)`:
  counted, not dispatched yet) are together less than the limit plus the
  number of requests, and what an admitted request may dispatch is a row of
  the agent it has counted for. `ClaimCount` admits one request while the count is
  below the limit and at most all the others are admitted (`CountCapacity`); a
  dispatch turns an admitted request into a row (`DispatchCapacity`); all else
  lessens one or the other (`CalmCapacity`). The table being finite at any time
  (`FiniteTable`) is part of the induction: `MaxRow` is not assumed, ids
  are naturals.
* `ClaimGate_proofs!TypeCorrect`, `CacheInvariant`, `VerdictSoundness`:
  `Spec => []VerdictSound`, for requests and verdicts whose key has missed no renewal.
  `CacheInv` has three parts. *KeyOutlives*: the key outlives what was in progress
  when it was last renewed. *SamplesKept*: a request that has read a version above 0
  and renewed it is among those, so its number is not given to the key anew, and one
  whose sample equals the version, or who remembers 0 while the key is missing, has
  missed no bumped row. *VerdictKept* says the same of the verdict, which takes over
  the history of its request.
* `ClaimGate_proofs!BurnInvariant`, `BurnBound`: `Spec => []BurnBounded`. `BurnInv`
  counts: while the breaker is closed, the rows dispatched since and the requests
  already past it are together no more than the requests, those left out that could
  not read the history and passed it unread.
* `TabStore_proofs!TabsWellFormed` and `TabTypes`: `Spec => [](TypeOK /\ TabInv)`. The inductive
  form is `TabsOK`, which says the same of a value of `groups` (`GroupsOK(G)`: every
  group has its active tab among its tabs, these are distinct, and no two groups
  share one), so that lemmas about the sequence operators speak of one group:
  appending (`OneMore`), removing (`OneLess`), moving (`Moved`), filtering
  (`Filtered`), and of the whole: patching a group (`PatchGroup`) and dropping some
  (`DropGroups`). A new tab is in no group because it is in none that is open.
* `TabStore_proofs!GroupsAreKept`: by cases over Next, every step patches at most one
  group, drops groups by a list, clears them, or reloads (`StepKinds`).
* `TabStore_proofs!StoredPathsFollow`: `PathsOK`, a part of `TabsOK`, says that the path
  of the tab the subscription follows is its router's location; and no step sets a
  stored path to anything but the location of its own router (`PathsAreOwn`),
  whichever page pushes and whichever tab is shown.
* `TabStore_proofs!ReloadIsSafe`: the filtered group has only tabs of its workspace
  (`ReloadScopes`), and a filter that keeps all is the identity (`FilterAll`), for
  which the indices kept must be counted (`Ranks`).
* `ClientSession_proofs!SessionTypes`, `TokensAgreeAlways`, `SignedOutHasNoWorkspace`,
  `ChatStaysScoped`, `LogoutForgets`. `TokensAgree` and `NoContextSignedOut` are inductive together:
  every action writes both copies, and every action that leaves the user empty
  leaves the workspace. `ChatScoped` is inductive because what is live is of the
  current workspace and what is stored under a key of that key's, which
  `SetCurrent` exchanges for one another; `Sent` adds no more than `Late` to either
  when its workspace has been left. `LogoutForgets` holds of a late answer because
  nobody signed out has a workspace (`NoContextSignedOut`): it is written under no
  workspace's key.
* `DesktopDaemon_proofs!GuardNeverLeaks`: the inductive invariant `GuardInv` says
  that the holder is an effect of the session or the card, has steps left, and
  that all of them are steps of a start or a stop; only those end or
  go on by `Becomes`, which lets go of the guard with the last. It holds for any
  number of overlapping effects and operations.
* `DesktopDaemon_proofs!DaemonTypes`: `Spec => []TypeOK`, and not by its shape:
  `state` is written by many, `cfg` and the daemon's version are copied from
  what an operation has read steps before. `RunInv` says which step may follow
  which in a list (`Follow`), that an operation between its lookup of the CLI and its
  use of it finds one (`CliInv`), and that only a boot may have a CLI while the
  state is "cli_not_found" (`BootInv`).
* `IssueCache_proofs!CacheTypes`: `Spec => []TypeOK`: no helper takes an issue from a
  bucket that does not hold it, so the counts stay natural, and `LocationOf` is only
  asked for issues that are there. A snapshot is the cache of its time.
* `IssueCache_proofs!OptimisticStands`: the invariant `CacheInv` (types and `FetchOK`)
  says that a fetch in flight was started under every optimistic mutation in flight:
  a mutation cancels the fetch it finds, a new fetch records the mutations of its
  time, and a second try takes the place of the first.

Every strengthening was checked by TLC as an invariant before it was proved: those of
`TaskQueue` on the instances of `TQ_issue`, `TQ_retry`, `TQ_chat` and `TQ_moves`,
`RunInv` on that of `DM_daemon`.

Assumptions, all named in the modules and evaluated by TLC on every run:
row ids are naturals (`TaskAssumption`), the kinds of subject are distinct
(`SubjectAssumption`), `None` is no id (`NoneAssumption`), the configuration is
well typed (`ConfigAssumption`), and `Claim` is finite (`ClaimAssumption`: a server has
finitely many requests in flight, and without it there is no bound to state). For
`ClaimGate`, rows and claims are finite sets and the threshold is positive. For the
clients: bounds are naturals, the distinguished values are none of the set they
extend (`TabAssumption`,
`SessionAssumption`, `DaemonAssumption`, `IssueAssumption`), the entry page is a page,
the two kinds of store are disjoint and the chat stores' keys are among the cleaned
ones, the processes have distinct names; a workspace has finitely many issues, and the
board is a list of at least one shown status, each once, none of them hidden.

Only model-checked, and why:

* the liveness properties (`NoStuckTask`, `QueuedServed`, `Served`, `Lands`,
  `LoadingEnds`, `GuardFreed`, `SwitchRestarts`, `DeferredRestart`, `StatusSettles`,
  `ReconnectRecovers`, `SettleRecovers`): the prover has no rules for fairness or
  `ENABLED`.

Every invariant and every action property of the passing runs is a theorem.

## 5. What is not modelled

* In the queue: rows deleted with their issue, agent or runtime; the merge of
  legacy runtimes at registration, which also moves queued rows; the agent's
  status column and the reset of an issue to "todo" after a failure;
  correlated runs, which are never retried; the link of a finished quick-create
  row to the issue it made; failing SQL statements, except where their effect is
  that of a lost call or a restart.
* In the daemon: the semaphore of slots, the wakeup channels, the set of watched
  runtimes, everything done to files and repositories.
* Redis eviction before a TTL, and a Redis that loses its data.
* The order in which rows ended (`ORDER BY completed_at`) is taken to be the order
  of the statements that ended them.
* In the tabs: titles, icons, the positions in a router's history, the migration of
  the first storage format, which overlay is open and for what.
* In the session: cookie mode, the authorisation of the CLI on the login page,
  several windows of one browser (which share the storage), and a store's
  content beyond where it came from.
* In the daemon manager: the log tail, the preferences, a change of the API URL
  and with it of the profile, the restart when the runtime list is empty
  (`App.tsx:202-216`); a daemon that has closed its port and has not ended
  (`health.go:182-191`): it is gone for the CLI and the application, and the model
  does not follow it. The run has one effect of the session at a time (the theorems
  have any number), and `MaxOps` 1 keeps the user from pressing a button beside
  another operation.
* In the issue cache: pages beyond the first (`useLoadMoreByStatus`), the caches of
  details, children, my issues, labels and the inbox, fields other than the
  status, and a server that dies between a commit and its event, which is then
  never published.
* The pages, editors, translations and presentational components of the clients,
  which are most of the TypeScript by lines; the generated query code; CRUD
  handlers, the server's WebSocket hubs and the agent backends. They keep no
  state machine of their own: what they hold between two events is in the
  modelled stores and caches, or in the form fields of one component.

Seen while modelling and not stated as a property: an agent archived between an
enqueue's read and its insert keeps a queued row that will be dispatched; a claim
that gets another runtime's row drops it until the dispatch timeout; a revived task
leaves its retry queued; a retry of a deleted chat becomes a row that is dispatched
once and cancelled; the failure of `SweepTasks`' statement is made up for only
by the long timeouts; a failed orphan recovery is not repeated; the cancellation of
a queued row ends a streak of startup failures, since it sets `completed_at`. In
the clients: the answers of a deep link and of the restored session in the wrong
order leave a user shown beside another's token, and an answer of `refreshMe` after
a logout brings the user back without a token; `AuthInitializer` drops the token
on any error, where the store's `initialize` keeps it on all but a 401; a form's
draft is cleared after an `await` under the workspace there is by then
(`create-issue.tsx:213-214`); an issue that comes back from a hidden status is dropped
by the update; a refetch that fails twice leaves the stale board, and an event
published after a refetch that is newer sets it back; the reconnect's refetch names no chat, pin, label or
timeline query (`use-realtime-sync.ts:719-731`), and the handler of `inbox:new` reads
the current workspace after an `await` (303).

## 6. Plan

Done: the modules, runs and theorems above.

Next, most important first:

1. *Agent status and issue reset*: extend `TaskQueue`'s failures and ends with
   `ReconcileAgentStatus` as a module of its own over the number of active rows;
   property: once quiet, the status tells whether rows are active.
2. *RoutineQueue*: compare-and-swap claims, leases, reclaim, dead letters, late
   closes; abstract specification: a task has one owner per lease.
3. *Autopilot*: the three writers of a run's status; property: a final status is
   not overwritten by "running".
4. *RuntimeLiveness*: heartbeat with skipped writes against the sweeper's
   thresholds; refines the free choice of `SweepRuntimes`.
5. *RuntimeRequests*: the in-memory and the Redis store as implementations of one
   abstract specification, with the handlers' checks before them.
6. *CorrelatedRuns*: lookup, insert and rerun per effect.
7. *Daemon pollers*: slots, capacity-one wakeups, drain.
8. *Issue cache*: further pages and the detail query, whose mutations share one
   snapshot.
9. *Session*: two windows over one storage; cookie mode.

Proofs to add: the recovery of `IssueCache` up to its fairness, as an invariant of the
fetches in flight and the events still to be published; for each module above its
invariants as it comes.
