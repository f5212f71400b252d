\* One agent that moves between two runtimes, two claim requests in flight,
\* three rows of autopilot runs, which nothing serializes; no faults.
SPECIFICATION Moving
CONSTANTS
  r1 = r1
  None = None
  QuickCreate = QuickCreate
  Orphan = Orphan
  AutopilotRun = AutopilotRun
  MaxRow = 3
  Concurrency = 1
  MaxAttempts = 2
  Task <- MCTask
  Agent = {a1}
  Runtime = {r1, r2}
  Issue = {}
  Chat = {}
  Work = {AutopilotRun}
  Request = {q1}
  Claim = {c1, c2}
  Priority <- MCPriority
  MaxConcurrent <- MCMaxConcurrent
  HomeRuntime <- MCHomeRuntime
INVARIANTS ActiveBounded
SYMMETRY ClaimSymmetry
