SPECIFICATION DemoSpec
CONSTANTS
  N = 3
  Jobs <- MCJobs
  Policies <- MCPolicies
  Quantum = 2
  CsCost = 0
  MaxTicks = 40
  Total = 6
INVARIANTS MemoryMatchesState PageFollows NullOnlyWhenNoRun
PROPERTIES HeapSpec EveryoneAdmitted
