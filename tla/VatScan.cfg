SPECIFICATION Spec
CONSTANTS
  Asked = {"trivy", "collect", "images", "openscap", "cyclonedx", "grype"}
  Images = {i1, i2}
  MaxPaths = 2
  Keyless = {"cyclonedx"}
  Batch = 2
  ScanFaults = 3
  i1 = i1
  i2 = i2
  Items <- MCItems
  Place <- MCPlace
  Versions = {v1, v2}
  NoVersion = NoVersion
  FirstVersion = v1
  MaxChanges = 2
  LaneFaults = 2
INVARIANTS OneShotSound LaneSound
PROPERTIES FullRescanComplete EveryItemScanned
CHECK_DEADLOCK FALSE
