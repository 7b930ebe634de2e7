SPECIFICATION FairSyncSpec
CONSTANTS
  Issues = {1, 2}
  Export <- Order
  Listed = {1}
  Runs = {r1, r2}
  NoFinding = NoFinding
  FirstStates <- ClosedAndIgnored
  Changing = {"open", "closed"}
  CommitEvery = 2
  MaxPosts = 2
  MaxIssueChanges = 1
  MaxFaults = 1
INVARIANT SyncSound
PROPERTIES StatusSettles
CHECK_DEADLOCK FALSE
