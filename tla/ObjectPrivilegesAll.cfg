SPECIFICATION Spec
CONSTANTS
  Roles = {analyst, auditor, guest}
  Users = {kim}
  Privileges = {select, insert}
  Direct = Direct
  None = None
INVARIANTS AllHeldIsShown
SYMMETRY Interchangeable
CHECK_DEADLOCK FALSE
