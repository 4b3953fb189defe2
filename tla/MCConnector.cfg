\* CHECK_DEADLOCK FALSE: a crash ends the program.
CONSTANTS
  Host = {h1, h2}
  Slave = {h1}
  Hung = {h2}
  Main = main
  Session = {s1, s2, s3, s4}
  NoSession = NoSession
  MaxLeft = 1
SPECIFICATION FairSpec
CHECK_DEADLOCK FALSE
INVARIANTS TypeOK SessionsAccounted
PROPERTIES PollsRepeat
