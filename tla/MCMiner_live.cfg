\* Two workers, two jobs, one change of job and one find, under fairness.
SPECIFICATION FairSpec
CONSTANTS
  Workers = {w1, w2}
  Jobs = {j1, j2}
  ZeroDiffJobs = {}
  NoJob = NoJob
  Net = Net
  NoOne = NoOne
  QueueMax = 1
  MaxEpoch = 2
  MaxFound = 1
PROPERTIES QuitEndsAll QueuedShareLeaves ReplacedWorkAbandoned
