SPECIFICATION FairSpec
CONSTANTS
  w1 = w1
  w2 = w2
  c1 = c1
  Messages <- OneMessage
  Convs = {c1}
  ConvOf <- OneConv
  Workers = {w1, w2}
  NoMessage = NoMessage
  NoWorker = NoWorker
  Orphan = Orphan
  Attempts = 3
  MaxStalls = 1
  Faults <- AllFaults
INVARIANTS TypeOK DuplicatesAreStrays OneSenderPerConversation
PROPERTIES SettledStays JobsEnd
CHECK_DEADLOCK FALSE
