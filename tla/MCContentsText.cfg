\* An update that changes the text of a message with an image.
SPECIFICATION ContentsSpec
CONSTANTS
  f1 = f1
  f2 = f2
  h1 = h1
  h2 = h2
  m1 = m1
  m2 = m2
  Files <- OneFile
  HttpCalls <- OneHttpCall
  Messages <- OneMessage
  Consumer = Consumer
  NoFile = NoFile
  NoTask = NoTask
  Users = {}
  NoUser = NoUser
  NoMessage = NoMessage
  TextOnly = TextOnly
  MaxImages = 1
  MaxBegun = 3
  MaxRequests = 2
  MaxFaults = 0
  MaxCrashes = 0
PROPERTY TextPurgesNothing
CHECK_DEADLOCK FALSE
