\* Two gateways and one connection are enough to leave a closed socket online.
SPECIFICATION Spec
CONSTANTS
  alice = alice
  bob = bob
  s1 = s1
  s2 = s2
  s3 = s3
  chat = chat
  user = user
  upload = upload
  Users <- Alice
  Sockets <- TwoSockets
  Gateways <- AllGateways
  ChatGateway = chat
  NoSocket = NoSocket
  NoUser = NoUser
INVARIANT OnlineMeansConnected
