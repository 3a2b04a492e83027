SPECIFICATION FairSpec
CONSTANTS
  N = 2
  Jobs <- MCJobsLate
  Policies <- MCPolicies
  Quantum = 2
  CsCost = 1
  MaxTicks = 40

PROPERTIES EveryoneFinishes
