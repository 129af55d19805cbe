SPECIFICATION LiveSpec
CONSTANTS
  f1 = f1
  f2 = f2
  h1 = h1
  alice = alice
  Files <- TwoFiles
  HttpCalls <- OneHttpCall
  Consumer = Consumer
  NoFile = NoFile
  NoTask = NoTask
  Users <- OneUser
  NoUser = NoUser
  MaxRequests = 1
  MaxFaults = 1
  MaxCrashes = 1
INVARIANTS
  TypeOK
  DocHasObject
  OrphansAreCut
  PurgedAreGone
  BareBucketIsCut
  CopiesNeedRedelivery
PROPERTIES
  RequestsAreAnswered
  KeepsFileLife
