SPECIFICATION Spec
CONSTANTS
  Refresh = Refresh
  Host = {h1}
  Op = {o1, o2, o3, o4}
  MaxReloads = 2
INVARIANT OneRefreshLoop
