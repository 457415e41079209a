SPECIFICATION Spec
CONSTANTS
  None = None
  Home = h1
  Away = h2
  Readers = {r1, r2}
  Writers = {w1}
  Hosts = {h1}
  Keys = {admin}
  AdminKeys = {admin}
  OtherHostKeys = {}
  HostOf <- KeyHosts
  MaxVersion = 1
  MayFail = FALSE
INVARIANTS ReflectedImmediately
