SPECIFICATION Spec
CONSTANTS
  Host = {h1}
  Name = {h1}
  NameOf <- OwnNames
  Slave = {h1}
  Pid = {pid1}
  LagPid = LagPid
  FailPid = FailPid
  DeadPid = DeadPid
  Entry = {e1, e2}
  Reserve = 1
  Poller = {p1}
  LatePolls = TRUE
  Overlap = TRUE
  Editable = TRUE
INVARIANTS
  TypeOK
  OneEntryPerProcess
PROPERTIES
  DeadIsFinal
  TrackedStays
  ImplementsEntries
