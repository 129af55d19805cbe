\* Two users with two connections of all three gateways, under the fairness.
SPECIFICATION LiveSpec
CONSTANTS
  alice = alice
  bob = bob
  s1 = s1
  s2 = s2
  s3 = s3
  chat = chat
  user = user
  upload = upload
  Users <- AliceAndBob
  Sockets <- TwoSockets
  Gateways <- AllGateways
  ChatGateway = chat
  NoSocket = NoSocket
  NoUser = NoUser
INVARIANTS
  TypeOK
  RegistryConsistent
  AdmittedIsRegistered
  ToldAccurate
  GhostOnlyFromHandshakeRace
PROPERTIES
  EntryOutlivesOpenSocket
  GhostStays
  AdmittedOrClosed
