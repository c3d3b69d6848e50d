\* Two workers, a queue of two, two job changes, three finds.
SPECIFICATION Spec
CONSTANTS
  Workers = {w1, w2}
  Jobs = {j1, j2}
  ZeroDiffJobs = {j2}
  NoJob = NoJob
  Net = Net
  NoOne = NoOne
  QueueMax = 2
  MaxEpoch = 2
  MaxFound = 3
SYMMETRY WorkerSymmetry
INVARIANTS TypeOK FunnelAccounting DeliveryOrder EpochNamesJob
PROPERTIES ImplementsDelivery SentOnItsSession
