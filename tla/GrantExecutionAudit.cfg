SPECIFICATION Spec
CONSTANTS
  Threads = {t1}
  Slots = {s1}
  Catalogs = {default_catalog, hive}
  Default = default_catalog
  Broken = Broken
  None = None
  MayFail = FALSE
INVARIANTS EveryAttemptAudited
