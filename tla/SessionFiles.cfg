CONSTANTS
  Tasks = {"t1", "t2"}
  Files = {"f", "g"}
  Plans <- SomePlans
  Scope <- TaskScope
  None = None
  MaxIssue = 1
SPECIFICATION Spec
INVARIANTS TypeOK WritesAreVouchedFor SessionInv
