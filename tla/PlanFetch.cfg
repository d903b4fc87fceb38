CONSTANTS
  author = author  alice = alice  bot = bot
  Users = {author, alice, bot}
  Humans = {author, alice}
  Author = author
  Plans <- PlanPerContract
  None = None
  Commits = {1, 2}
  First = 1
  CodeCommits = {2}
  PageSize = 2
  MaxReviews = 2
  MaxRecords = 1
  MaxBase = 1
  MaxIssue = 1
SPECIFICATION Spec
CHECK_DEADLOCK FALSE
INVARIANTS TypeOK FetchIsAtomic StandingApprovalIsFound ApprovalInv
PROPERTIES LapsedApprovalsStayLapsed
