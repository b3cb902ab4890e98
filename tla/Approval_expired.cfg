SPECIFICATION ApprovalSpec
CONSTANTS
  Requests <- MCRequests
  Operators <- MCOperators
INVARIANT NilMeansDecided
