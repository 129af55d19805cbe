\* The process restarts after the drop of the collection, before the chat is deleted.
SPECIFICATION LiveSpec
CONSTANTS
  m1 = m1
  m2 = m2
  m3 = m3
  Messages <- ThreeMessages
  MaxDeletions = 1
  MaxHttpDeletes = 0
  MaxFaults = 0
  MaxCrashes = 1
PROPERTY RestartedDeletionEnds
CHECK_DEADLOCK FALSE
