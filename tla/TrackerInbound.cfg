SPECIFICATION FairInboundSpec
CONSTANTS
  Issues = {i1}
  Findings = {1, 2}
  NoIssue = NoIssue
  CreatedOrder <- Order
  CveOf <- Cves
  IssueCve <- Titles
  Names <- AnyId
  NoId = "none"
  Verdicts = {"FalsePositive", "RiskAccepted"}
  CommentTexts <- OneAnswer
  DescTexts <- Rewrites
  FirstLinks <- NoneOrFirst
  LongBody = FALSE
  PostCanonical = FALSE
  MaxComments = 2
  MaxEdits = 2
  MaxFaults = 1
INVARIANT ClaimsSound
PROPERTIES LostCommentApplied ClosedIssueReopened
CHECK_DEADLOCK FALSE
