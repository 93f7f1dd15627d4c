SPECIFICATION Spec
CONSTANTS
  e1 = e1
  e2 = e2
  m1 = m1
  m2 = m2
  m3 = m3
  w1 = w1
  w2 = w2
  a1 = a1
  Events <- TwoEvents
  Messages = {m1, m2, m3}
  MessagesOf <- Batch
  Workers = {w1, w2}
  Agents = {a1}
  Convs <- ThreeConvs
  Attempts = 2
  MaxStalls = 1
  MaxDeliveries = 2
  MaxActs = 1
  MaxMishaps = 2
  Faults <- AllFaults
SYMMETRY WorkerSymmetry
INVARIANTS TypeOK NothingIsLost StoredOnce ResolvedIsRead OneContact
CHECK_DEADLOCK FALSE
