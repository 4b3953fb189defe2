SPECIFICATION FairSpec
CONSTANTS
  Refresh = Refresh
  Host = {h1}
  Op = {o1, o2, o3}
  MaxReloads = 1
  Name = {h1}
  NameOf <- OwnNames
  Slave = {}
  Pid = {pid1}
  LagPid = LagPid
  FailPid = FailPid
  DeadPid = DeadPid
  Entry = {e1, e2, e3, e4}
  Reserve = 3
INVARIANTS
  FirstReportsStay
PROPERTIES
  ImplementsLog
  ProblemsShown
  DeadLeaves
  QuietHostEmpties
