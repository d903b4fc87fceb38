CONSTANTS
  Tasks = {"t1", "t2"}
  Files = {"f"}
  Plans <- OnePlanEach
  Scope <- TaskScope
  None = None
  MaxIssue = 0
SPECIFICATION TasksSpec
INVARIANT EarlierSessionDoesNotGovern
