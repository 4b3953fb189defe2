SPECIFICATION Spec
CONSTANTS
  Host = {h1}
  Name = {h1}
  NameOf <- OwnNames
  Slave = {}
  Pid = {pid1}
  LagPid = LagPid
  FailPid = FailPid
  DeadPid = DeadPid
  Entry = {e1, e2, e3}
  Reserve = 2
  Poller = {p1}
  LatePolls = FALSE
  Overlap = FALSE
  Editable = FALSE
PROPERTIES
  DeadProcessIsDead
