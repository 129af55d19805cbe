\* Two users of whom one is the chatter, two connections, a request, a restart.
SPECIFICATION DeliverySpec
CONSTANTS
  alice = alice
  bob = bob
  s1 = s1
  s2 = s2
  chat = chat
  user = user
  m1 = m1
  m2 = m2
  m3 = m3
  Users <- AliceAndBob
  Chatters <- Bob
  Sockets <- TwoSockets
  Gateways <- ChatOnly
  ChatGateway = chat
  NoSocket = NoSocket
  NoUser = NoUser
  Messages <- TwoMessages
  NoMessage = NoMessage
  NoTask = NoTask
  NotRead = NotRead
  MaxRequests = 1
  Spare = 2
  MaxJobs = 2
  MaxCrashes = 1
  MaxFailures = 0
SYMMETRY SocketAndMessageSymmetry
VIEW WithoutHistory
INVARIANTS
  DeliveryTypeOK
  Addressed
  ReplayComplete
  NothingVanishes
PROPERTIES
  JobsAreReplayed
  KeepsPromises
CHECK_DEADLOCK FALSE
