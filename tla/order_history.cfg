SPECIFICATION OrderSpec
CONSTANTS
  NoTx = NoTx
  t1 = t1
  t2 = t2
  t3 = t3
  o1 = o1
  o2 = o2
  Variants <- MCVariants
  Supply <- MCSupply
  Calls <- MCCalls
  Txs <- ThreeTxs
  Orders <- OneOrder
  CodOrders <- OneOrder
  InitShops <- AllShops
  InitLevels <- AllLevels
  Requests <- MCAllRequests
  LockMayExpire = FALSE
  Alone <- Kinds
  MatcherReads = TRUE
SYMMETRY Sym3
CHECK_DEADLOCK FALSE
INVARIANTS ReservedMatchesOrders PaidCoversTotal
PROPERTIES TerminalStays
