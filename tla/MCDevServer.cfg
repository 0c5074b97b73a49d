SPECIFICATION FairSpec
CONSTANTS
  b1 = b1
  Browser <- MCBrowser
  MaxSaves = 3
PROPERTIES
  NoRollback
  RefreshNotStale
  LatestServed
