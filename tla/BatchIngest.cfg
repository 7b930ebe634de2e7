SPECIFICATION Spec
CONSTANTS
  s1 = s1
  s2 = s2
  s3 = s3
  s4 = s4
  s5 = s5
  f1 = f1
  f2 = f2
  f3 = f3
  f4 = f4
  Senders = {s1, s2, s3, s4, s5}
  Groups <- MCGroups
  Findings = {f1, f2, f3, f4}
  Report <- MCReport
  Poison = {f4}
  Unmapped = {f3}
  Unparsable = {s5}
  Attached = {s2, s3}
  BadAttached = {s3}
  ForcesTag = {s2}
  Attempts = 4
  MaxFaults = 1
INVARIANTS OkMeansStored IngestSound
PROPERTY CleanReportIngested
