\* One agent, one chat session that may be deleted at any moment, two rows.
SPECIFICATION Spec
CONSTANTS
  r1 = r1
  None = None
  QuickCreate = QuickCreate
  Orphan = Orphan
  AutopilotRun = AutopilotRun
  MaxRow = 2
  Concurrency = 1
  MaxAttempts = 2
  Task <- MCTask
  Agent = {a1}
  Runtime = {r1}
  Issue = {}
  Chat = {k1}
  Work = {k1}
  Request = {q1}
  Claim = {c1}
  Priority <- MCPriority
  MaxConcurrent <- MCMaxConcurrent
  HomeRuntime <- MCHomeRuntime
INVARIANTS DeletedChatIdle
