SPECIFICATION Spec
CONSTANTS
  Failures <- MCFailures
  MaxLog = 5
INVARIANTS TypeOK RepairsAreBounded
