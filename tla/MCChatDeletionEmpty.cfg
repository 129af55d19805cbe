\* The handler throws on a chat without messages, each time it is retried.
SPECIFICATION LiveSpec
CONSTANTS
  m1 = m1
  m2 = m2
  m3 = m3
  Messages <- ThreeMessages
  MaxDeletions = 1
  MaxHttpDeletes = 0
  MaxFaults = 0
  MaxCrashes = 0
PROPERTY ChatIsDeleted
CHECK_DEADLOCK FALSE
