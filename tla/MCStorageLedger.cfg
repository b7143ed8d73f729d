CONSTANTS
  Procs = {p1, p2}
  Allocation = 12
  Slack = 1
  Amounts = {1, 4, 9}
  Debt = 9
SPECIFICATION LedgerSpec
INVARIANTS BoundedUntilOverlap ExactUntilOverlap
