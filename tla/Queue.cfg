\* Three concurrent gets, so that a woken one can find the queue emptied by another.
SPECIFICATION FairSpec
CONSTANTS
  Getters = {g1, g2, g3}
  max_queue_size = 2
  MaxPuts = 4
  None = None
  NoAnswer = NoAnswer
INVARIANTS NoLostWakeup CountersAddUp
PROPERTIES IsSampleQueue ShutdownReleases
CHECK_DEADLOCK FALSE
