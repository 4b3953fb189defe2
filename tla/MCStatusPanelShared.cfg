SPECIFICATION Spec
CONSTANTS
  Host = {h1, h2}
  Name = {h1, h2}
  NameOf <- OwnNames
  Text = {h1, h2}
  TextOf <- SameTexts
  SomeText = h1
  Slave = {h1}
  Nobody = Nobody
  Width = 4
  MaxMoment = 1
  MaxReloads = 1
INVARIANTS
  OwnNumbers
