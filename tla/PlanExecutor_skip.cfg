SPECIFICATION Spec
CONSTANTS
  Nodes <- SmallNodes
  Gates <- MCGates
  Plans <- SmallPlans
  MaxParallel = 1
INVARIANT PlanRunsEveryNode
