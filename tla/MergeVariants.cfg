SPECIFICATION Spec
CONSTANTS
  Assets = {1, 2}
  NoAsset = 0
  MaxDepth = 2
  Findings = {f1, f2}
  NoFinding = nofinding
  GroupKeyOf <- OneGroup
  CorrelationKeyOf <- OneCluster
  NoCorrelation = "none"
  DigestOf <- OneDigest
  NoDigest = "nodigest"
  Observed = {2}
  Kinds = {"container", "package"}
  KindOf <- Containers
  NoKind = "norow"
  TagVariants <- TagVariant
  Explicit = {TRUE, FALSE}
  Reassign = {TRUE, FALSE}
  MaxEvents = 4
SYMMETRY FindingSymmetry
INVARIANT TypeOK
PROPERTIES FormerStatusKept UnmergeUndoesMerge
