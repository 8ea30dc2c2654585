SPECIFICATION Spec
CONSTANTS
  Threads <- MCThreads
  Requests <- MCApproval
  ThreadOf <- MCOfApproval
  Approvals <- MCApproval
  Swept <- MCThreads
  MaxIntents = 2
  MaxRestarts = 0
INVARIANTS
  PendingIsKnown
