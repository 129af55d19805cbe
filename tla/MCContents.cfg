\* Two messages, two files, two calls at a time; a failure or a restart.
SPECIFICATION ContentsSpec
CONSTANTS
  f1 = f1
  f2 = f2
  h1 = h1
  h2 = h2
  m1 = m1
  m2 = m2
  Files <- TwoFiles
  HttpCalls <- TwoHttpCalls
  Messages <- TwoMessages
  Consumer = Consumer
  NoFile = NoFile
  NoTask = NoTask
  Users = {}
  NoUser = NoUser
  NoMessage = NoMessage
  TextOnly = TextOnly
  MaxImages = 1
  MaxBegun = 3
  MaxRequests = 2
  MaxFaults = 1
  MaxCrashes = 1
SYMMETRY ContentsSymmetry

VIEW WithoutHistory
INVARIANTS
  ContentsTypeOK
  KeptFilesStay
  UnusedFilesGo
  LastIsNewest
CHECK_DEADLOCK FALSE
