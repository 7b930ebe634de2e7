SPECIFICATION Spec
CONSTANTS
  Findings = {f1, f2}
  Assets = {a1}
  NoAsset = NoAsset
  Vulns = {v1}
  Issues = {}
  NoIssue = NoIssue
  NoKey = NoKey
  VulnOf <- OneVuln
  IssueOf <- NoIssues
  HumanStatuses = {"RiskAccepted"}
  Rationales = {FALSE}
  ScannerStatuses = {}
  PageLimit = 1
  MaxVersion = 2
  MaxDay = 1
INVARIANT LinksSound
PROPERTIES ImplementsRegister
