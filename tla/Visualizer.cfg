SPECIFICATION DemoSpec
CONSTANTS
  N = 3
  Jobs <- MCJobs
  Policies <- MCPolicies
  Quantum = 2
  CsCost = 0
  MaxTicks = 40
  Segments <- MCSegments
  Frames = 4
  TlbSize = 3
INVARIANTS MappingsAgree PageFollows
PROPERTIES PagingSpec
