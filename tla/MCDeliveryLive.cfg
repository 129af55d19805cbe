\* One chatter, who connects once; a failure of any kind, and what must happen in the end.
SPECIFICATION DeliveryLiveSpec
CONSTANTS
  alice = alice
  bob = bob
  s1 = s1
  s2 = s2
  chat = chat
  user = user
  m1 = m1
  m2 = m2
  m3 = m3
  Users <- Bob
  Chatters <- Bob
  Sockets <- OneSocket
  Gateways <- ChatOnly
  ChatGateway = chat
  NoSocket = NoSocket
  NoUser = NoUser
  Messages <- TwoMessages
  NoMessage = NoMessage
  NoTask = NoTask
  NotRead = NotRead
  MaxRequests = 1
  Spare = 1
  MaxJobs = 3
  MaxCrashes = 0
  MaxFailures = 1
INVARIANTS
  Truthful
  CopiesNeedRedelivery
PROPERTIES
  KeepsPromises
  PendingReachesQueue
  RequestsAreAnswered
CHECK_DEADLOCK FALSE
