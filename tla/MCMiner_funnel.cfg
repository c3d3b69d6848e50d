\* The funnel identity the comments state, at exit.
SPECIFICATION Spec
CONSTANTS
  Workers = {w1, w2}
  Jobs = {j1, j2}
  ZeroDiffJobs = {}
  NoJob = NoJob
  Net = Net
  NoOne = NoOne
  QueueMax = 2
  MaxEpoch = 1
  MaxFound = 2
INVARIANT FunnelIdentity
