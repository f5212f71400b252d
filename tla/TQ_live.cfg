\* Two agents that share a runtime and an issue, one claim request; everything
\* but users, with fairness.
SPECIFICATION UnattendedFair
CONSTANTS
  r1 = r1
  None = None
  QuickCreate = QuickCreate
  Orphan = Orphan
  AutopilotRun = AutopilotRun
  MaxRow = 2
  Concurrency = 1
  MaxAttempts = 2
  Task <- MCTask
  Agent = {a1, a2}
  Runtime = {r1}
  Issue = {i1}
  Chat = {}
  Work = {i1}
  Request = {q1}
  Claim = {c1}
  Priority <- MCPriority
  MaxConcurrent <- MCMaxConcurrent
  HomeRuntime <- MCHomeRuntime
PROPERTIES NoStuckTask QueuedServed
