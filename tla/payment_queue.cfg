SPECIFICATION FairSpec
CONSTANTS
  t1 = t1
  t2 = t2
  o1 = o1
  o2 = o2
  w1 = w1
  w2 = w2
  c1 = c1
  NoOrder = NoOrder
  Nobody = Nobody
  Transfers <- TwoTransfers
  Orders = {o1, o2}
  OrderOf <- Memos
  Amount <- Amounts
  Workers = {w1, w2}
  Clerks = {c1}
  Attempts = 2
  MaxStalls = 1
  MaxDeliveries = 2
  MaxMishaps = 2
  Faults <- AllFaults
INVARIANTS TypeOK NothingVanishes
PROPERTIES KeepsTheBook Settles
CHECK_DEADLOCK FALSE
