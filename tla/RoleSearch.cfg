SPECIFICATION FairSpec
CONSTANTS
  Roles = {public, analyst, auditor}
  Public = public
  None = None
  Limit = 3
  MaxChanges = 1
  MayFail = TRUE
INVARIANTS TypeOK OriginTruthful DirectIsItsOwnOrigin ChainComplete
PROPERTIES SearchEnds
