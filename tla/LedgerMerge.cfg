SPECIFICATION MergeSpec
SYMMETRY Symmetry
CONSTANTS
  Findings = {f1}
  Assets = {a1, a2}
  NoAsset = NoAsset
  MaxDepth = 2
  Vulns = {v1}
  Issues = {}
  NoIssue = NoIssue
  NoKey = NoKey
  VulnOf <- OneVuln
  IssueOf <- NoIssues
  GroupKeyOf <- OneGroup
  HumanStatuses = {"RiskAccepted", "Approved"}
  Rationales = {TRUE}
  ScannerStatuses = {"Resolved"}
  PageLimit = 1
  MaxVersion = 3
  MaxDay = 0
INVARIANTS TypeOK LedgerHistory LinksSound DecisionFollowsMerge
PROPERTIES ImplementsRegister AppliedVersionMonotone JudgementsNotProjected DecisionSurvivesReimport
