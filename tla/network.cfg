SPECIFICATION FairSpec
CONSTANTS
  Addr = {a1}
  LeaseSecs = 240
  T1Secs = 120
  T2Secs = 180
  MaxReplies = 2
  MaxFaults = 1
  MaxQueries = 1
  SpareTimeouts = 4
INVARIANTS
  AddressHasLease
  SntpChain
PROPERTIES
  AddressComesBack
