SPECIFICATION OrderSpec
CONSTANTS
  NoTx = NoTx
  t1 = t1
  t2 = t2
  t3 = t3
  o1 = o1
  o2 = o2
  Variants <- MCVariants
  Supply <- MCSupply
  Calls <- MCCalls
  Txs <- TwoTxs
  Orders <- OneOrder
  CodOrders <- OneOrder
  InitShops <- AnyShops
  InitLevels <- AnyLevels
  Requests <- PayCancel
  LockMayExpire = FALSE
  Alone = {}
  MatcherReads = TRUE
SYMMETRY Sym2
CHECK_DEADLOCK FALSE
INVARIANTS StockConserved
