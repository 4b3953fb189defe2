SPECIFICATION FairSpec
CONSTANTS
  Host = {h1}
  Name = {h1}
  NameOf <- OwnNames
  Text = {h1}
  TextOf <- OwnNames
  SomeText = h1
  Slave = {h1}
  Nobody = Nobody
  Width = 4
  MaxMoment = 2
  MaxReloads = 2
INVARIANTS
  TypeOK
PROPERTIES
  StatusSettles
