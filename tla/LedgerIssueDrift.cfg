SPECIFICATION FairSpec
CONSTANTS
  Findings = {f1, f2, f3}
  Assets = {a1}
  NoAsset = NoAsset
  Vulns = {v1, v2}
  Issues = {i1}
  NoIssue = NoIssue
  NoKey = NoKey
  VulnOf <- LonerAsTwin
  IssueOf <- LonerNoIssue
  HumanStatuses = {"Open", "FalsePositive"}
  Rationales = {FALSE}
  ScannerStatuses = {}
  PageLimit = 2
  MaxVersion = 2
  MaxDay = 0
PROPERTIES DecisionFollowsIssue DriftRepaired
