SPECIFICATION FairSpec
CONSTANTS
  Change = {c1, c2}
  Booking = {b1, b2}
  FirstFiles <- AnyFile
  NewAccounts <- TwoAccounts
  NoFile = NoFile
  Corrupt = Corrupt
INVARIANTS
  PromisesKept
  NothingSilentlyUnsaved
  NothingToNormalize
PROPERTIES
  SettingsOutliveRestarts
  ImplementsDurableStore
  BookingsAreSaved
