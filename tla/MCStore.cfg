CONSTANTS
  Readers = {r1, r2}
  Writers = {w1}
  Settings <- MCSettings
  MaxChange = 2
  MaxInode = 6
  MaxHandle = 4
  MaxFaults = 2
SPECIFICATION FairSpec
INVARIANTS AckedDurable CachesSound
PROPERTIES RefinesSnapshotStore StoreHeals
