SPECIFICATION FairSpec
CONSTANTS
  Entry = {e1, e2}
  Nil = Nil
  Pid = {pid1}
  LagPid = LagPid
  FailPid = FailPid
  DeadPid = DeadPid
  Reported = {pid1, LagPid}
  MaxPosted = 1
INVARIANTS
  TypeOK
PROPERTIES
  OnlyUserChooses
  RefreshSelectsChoice
  PaneCatchesUp
