SPECIFICATION FairSpec
CONSTANTS
  Findings = {f1, f2, low}
  Below = {low}
  CreatedAt <- LowFirst
  KeysOf <- OneGroupKey
  Sourced = {f1}
  Workers = {w1}
  Admins = {a1}
  NoSession = NoSession
  PushModes = {"groups", "instances"}
  UnlinkScanRuns = TRUE
  MaxAttempts = 2
  BatchSize = 1
  BackfillLimit = 2
  MaxEdits = 1
  MaxIssues = 6
  MaxFailed = 1
  MaxFaults = 1
INVARIANTS QueueSound IssuePerCreate
 
