\* One agent with room for one task that moves between two runtimes, and no
\* fault: each runtime has its poller.
SPECIFICATION Patient
CONSTANTS
  r1 = r1
  None = None
  QuickCreate = QuickCreate
  Orphan = Orphan
  AutopilotRun = AutopilotRun
  MaxRow = 2
  Concurrency = 1
  MaxAttempts = 2
  Task <- MCTask
  Agent = {a1}
  Runtime = {r1, r2}
  Issue = {}
  Chat = {}
  Work = {AutopilotRun}
  Request = {q1}
  Claim = {c1, c2}
  Priority <- MCPriority
  MaxConcurrent <- MCMaxConcurrent
  HomeRuntime <- MCHomeRuntime
INVARIANTS MaxConcurrentRespected
