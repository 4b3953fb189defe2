SPECIFICATION Spec
CONSTANTS
  Entry = {e1, e2}
  Nil = Nil
  Pid = {pid1, pid2}
  LagPid = LagPid
  FailPid = FailPid
  DeadPid = DeadPid
  Reported = {pid1, pid2}
  MaxPosted = 1
INVARIANTS
  AlertNamesVictim
