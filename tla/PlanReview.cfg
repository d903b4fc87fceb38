CONSTANTS
  author = author  alice = alice
  Users = {author, alice}
  Humans = {author, alice}
  Author = author
  Plans <- TwoPlans
  None = None
  Commits = {1}
  First = 1
  CodeCommits = {}
  PageSize = 2
  MaxReviews = 1
  MaxRecords = 1
  MaxBase = 0
  MaxIssue = 0
SPECIFICATION SeenSpec
CHECK_DEADLOCK FALSE
INVARIANT RecordsBindReviewedPlan
