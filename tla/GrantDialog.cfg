SPECIFICATION FairSpec
CONSTANTS
  u = u
  r1 = r1
  r2 = r2
  p = p
  select = select
  usage = usage
  Users = {u}
  Roles = {r1, r2}
  Places = {p}
  Privileges = {select, usage}
  Fits <- MCFits
  Presets <- MCPresets
  StartHeld <- MCHeld
  StartParents <- MCParents
  Blank = Blank
  None = None
  MaxActs = 3
INVARIANTS TypeOK RequestsAcceptable QuietPreviewIsOfForm  OneRunPerBody
PROPERTIES ExecutionEnds
CHECK_DEADLOCK FALSE
