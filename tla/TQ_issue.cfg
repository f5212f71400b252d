\* One agent on one runtime, one issue, two claim requests in flight, two rows;
\* everything may happen.
SPECIFICATION Spec
CONSTANTS
  r1 = r1
  None = None
  QuickCreate = QuickCreate
  Orphan = Orphan
  AutopilotRun = AutopilotRun
  MaxRow = 2
  Concurrency = 2
  MaxAttempts = 2
  Task <- MCTask
  Agent = {a1}
  Runtime = {r1}
  Issue = {i1}
  Chat = {}
  Work = {i1}
  Request = {q1}
  Claim = {c1, c2}
  Priority <- MCPriority
  MaxConcurrent <- MCMaxConcurrent
  HomeRuntime <- MCHomeRuntime
SYMMETRY ClaimSymmetry
INVARIANTS TypeOK OneActivePerIssueAgent IssueInv HandedOutOnce
PROPERTIES FinalStays
