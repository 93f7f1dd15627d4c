SPECIFICATION FairSpec
CONSTANTS
  Entries = {1, 2, 3, 4}
  Tries = {1, 2}
  MaxBackoff = 2
  MaxActs = 2
  MaxMishaps = 2
INVARIANTS TypeOK Supervised OffStaysOff
PROPERTIES SettlesAlone
CHECK_DEADLOCK FALSE
