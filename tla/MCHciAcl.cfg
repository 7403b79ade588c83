SPECIFICATION FairSpec
CONSTANTS
  Handles = {1, 2}
  NumBufs = 2
  BufSize = 2
  QueueHi = 3
  QueueLo = 1
  Lens = {2, 5}
  MaxQueued = 2
  MaxEvents = 2
INVARIANTS CreditsConserved QueuedCounted OneCutAtATime NobodyHeldUp
PROPERTIES ImplementsStream FlowResumes
