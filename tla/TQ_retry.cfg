\* One agent with room for two tasks, one issue, three rows and so two retries;
\* daemons, runtimes and the server fail, users stay away.
SPECIFICATION Unattended
CONSTANTS
  r1 = r1
  None = None
  QuickCreate = QuickCreate
  Orphan = Orphan
  AutopilotRun = AutopilotRun
  MaxRow = 3
  Concurrency = 2
  MaxAttempts = 2
  Task <- MCTask
  Agent = {a1}
  Runtime = {r1}
  Issue = {i1}
  Chat = {}
  Work = {i1}
  Request = {q1}
  Claim = {c1}
  Priority <- MCPriority
  MaxConcurrent <- MCMaxConcurrent
  HomeRuntime <- MCHomeRuntime
INVARIANTS RetryChain
PROPERTIES Coalesces
