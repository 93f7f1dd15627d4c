SPECIFICATION OrderSpec
CONSTANTS
  NoTx = NoTx
  t1 = t1
  t2 = t2
  t3 = t3
  o1 = o1
  o2 = o2
  Variants <- MCVariants
  Supply <- MCSupply
  Calls <- MCCalls
  Txs <- TwoTxs
  Orders <- TwoOrders
  CodOrders <- TwoOrders
  InitShops <- AllShops
  InitLevels <- AllLevels
  Requests <- MCAllRequests
  LockMayExpire = FALSE
  Alone <- UnlockedKinds
  MatcherReads = TRUE
SYMMETRY Sym2
CHECK_DEADLOCK FALSE
INVARIANTS StockConserved PaidMatchesPayments NoWaitCycle
