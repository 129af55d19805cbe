\* A closed connection that is still registered swallows the notification.
SPECIFICATION DeliverySpec
CONSTANTS
  alice = alice
  bob = bob
  s1 = s1
  s2 = s2
  chat = chat
  user = user
  m1 = m1
  m2 = m2
  m3 = m3
  Users <- Bob
  Chatters <- Bob
  Sockets <- TwoSockets
  Gateways <- ChatOnly
  ChatGateway = chat
  NoSocket = NoSocket
  NoUser = NoUser
  Messages <- TwoMessages
  NoMessage = NoMessage
  NoTask = NoTask
  NotRead = NotRead
  MaxRequests = 1
  Spare = 1
  MaxJobs = 2
  MaxCrashes = 0
  MaxFailures = 0
PROPERTY OfflineIsQueued
CHECK_DEADLOCK FALSE
