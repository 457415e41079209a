SPECIFICATION FairSpec
CONSTANTS
  Threads = {t1, t2}
  Slots = {s1}
  Catalogs = {default_catalog, hive}
  Default = default_catalog
  Broken = Broken
  None = None
  MayFail = TRUE
INVARIANTS TypeOK SlotsAccounted GrantsLandInTarget LogTruthful
PROPERTIES RequestsEnd KeepsToOutcome
