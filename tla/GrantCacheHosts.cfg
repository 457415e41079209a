SPECIFICATION Spec
CONSTANTS
  None = None
  Home = h1
  Away = h2
  Readers = {r1, r2}
  Writers = {w1}
  Hosts = {h1, h2}
  Keys = {admin, other}
  AdminKeys = {admin, other}
  OtherHostKeys = {other}
  HostOf <- KeyHosts
  MaxVersion = 1
  MayFail = FALSE
INVARIANTS OwnHostOnly
