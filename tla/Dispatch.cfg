SPECIFICATION Spec
CONSTANTS
  t1 = t1
  t2 = t2
  Threads = {t1, t2}
  Describers = {t1}
  CallsOf <- MCCallsOf
  Entries <- MCEntries
  CutlassEntries <- MCCutlassEntries
  Changes = 3
INVARIANTS
  LaunchSupported
  LibraryStays
  ExplicitHonoured
  DescriptionHolds
