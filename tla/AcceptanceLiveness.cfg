SPECIFICATION Spec
CHECK_DEADLOCK FALSE
CONSTANTS
  c1 = c1
  c2 = c2
  low = low
  high = high
  v1 = v1
  v2 = v2
  owner = owner
  None = None
  Commits = {c1, c2}
  Plans = {low, high}
  Contracts = {v1, v2}
  Reviewers = {owner}
  CodeOwners = {owner}
  PlanOf <- MCPlanOf
  Green = {c1, c2}
  Within <- MCWithin
  Authority = {c2}
  Suite = {"quality"}
  Openings <- MCOpenings
  MaxPolls = 2
  MaxEvents = 2
PROPERTIES GoodHeadIsAccepted WithdrawnReviewFalls
