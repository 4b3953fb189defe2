SPECIFICATION CalmSpec
CONSTANTS
  Refresh = Refresh
  Host = {h1}
  Op = {o1, o2, o3}
  MaxReloads = 2
  Name = {h1}
  NameOf <- OwnNames
  Slave = {}
  Pid = {pid1}
  LagPid = LagPid
  FailPid = FailPid
  DeadPid = DeadPid
  Entry = {e1}
  Reserve = 0
PROPERTIES
  InactiveFiltered
