CONSTANTS
  p1 = p1  p2 = p2  planA = planA  planB = planB
  Publishers = {p1, p2}
  Plans = {planA, planB}
  None = None
  MaxCommit = 3
SPECIFICATION Spec
CHECK_DEADLOCK FALSE
INVARIANTS TypeOK
PROPERTY OpenPrKeepsHead
