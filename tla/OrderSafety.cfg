CONSTANTS
  c1 = c1  c2 = c2  c3 = c3  i1 = i1  i2 = i2  k1 = k1  bad = bad  b1 = b1  b2 = b2
  Calls <- ThreeCalls
  Instances <- OneInstance
  Headers <- OneKey
  Keys <- OneKey
  NoKey = NoKey
  Bodies <- TwoInputs
  Inputs <- TwoInputs
  None = None
  PoolMax = 2
  Retention = 1
  MaxTime = 1
SPECIFICATION Spec
SYMMETRY CallSymmetry
CHECK_DEADLOCK FALSE
INVARIANTS TypeOK OneOrderPerWindow OrdersAreBound AnswersAreTrue CheckStaysGood PoolAccounted NoCircularWait IInv
