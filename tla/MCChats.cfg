\* Three messages, two deletions and two creations of the chat, a restart.
SPECIFICATION ChatsLiveSpec
CONSTANTS
  m1 = m1
  m2 = m2
  m3 = m3
  h1 = h1
  Messages <- ThreeMessages
  HttpCalls <- OneHttpCall
  Consumer = Consumer
  MaxDeletions = 2
  MaxHttpDeletes = 1
  MaxFaults = 1
  MaxCrashes = 1
  MaxRequests = 2
INVARIANTS
  ChatsTypeOK
  LeaksHaveCauses
  PurgesArePending
  OrphansCameLate
  TwinsNeedOverlap
PROPERTY ChatWithMessagesIsDeleted
CHECK_DEADLOCK FALSE
