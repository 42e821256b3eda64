SPECIFICATION HFairSpec
CONSTANTS
  a = a  b = b  c = c  shell = shell
  NoPid = NoPid  NoFile = NoFile  Empty = Empty
  Pids <- Two
  Others = {shell}
  Parent <- ShellOfTwo
  Garbage <- Anything
  MaxDeaths = 1
INVARIANTS
  TypeOK
  OneUserUntilRobbed
  OneUserUntilStale
  HeldMeansFile
  OpenMeansLocked
PROPERTIES
  StaleIsRemoved
