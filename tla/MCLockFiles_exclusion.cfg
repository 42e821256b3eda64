SPECIFICATION HSpec
CONSTANTS
  a = a  b = b  c = c  shell = shell
  NoPid = NoPid  NoFile = NoFile  Empty = Empty
  Pids <- Three
  Others = {shell}
  Parent <- ShellOfThree
  Garbage = {shell}
  MaxDeaths = 1
INVARIANT OneUser
