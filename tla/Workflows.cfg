SPECIFICATION WorkflowsSpec
CONSTANTS
  Nodes <- MCNodes
  Gates <- MCGates
  Plans <- MCPlans
  MaxParallel = 1
  Requests <- MCRequests
  Operators <- MCOperators
INVARIANTS InputsComplete WakeupComing SendNeverBlocks JournalClosed OneDecider AuditedBeforeReturn
PROPERTIES Terminates GatesNotStarved DecisionArrives
