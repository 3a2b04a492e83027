SPECIFICATION FairSpec
CONSTANTS
  N = 3
  Jobs <- MCJobs
  Policies <- MCPolicies
  Quantum = 2
  CsCost = 0
  MaxTicks = 40
INVARIANTS WorkConserved RunsShortest
PROPERTIES EveryoneFinishes
