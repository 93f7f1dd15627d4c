SPECIFICATION FairSpec
CONSTANTS
  t1 = t1
  t2 = t2
  t3 = t3
  NoTx = NoTx
  Variants <- MCVariants
  Txs <- MCTxs
  Calls <- MCCalls
  InitLevels <- MCInitLevels
INVARIANTS TypeOK NoOversell WaitsAscend LedgerReplays
PROPERTIES EveryCallEnds
CHECK_DEADLOCK FALSE
