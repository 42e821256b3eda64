SPECIFICATION FairSpec
CONSTANTS
  t1 = t1  t2 = t2
  i1 = i1  i2 = i2  i3 = i3
  p1 = p1  p2 = p2  p3 = p3  p4 = p4  p5 = p5  p6 = p6
  None = None
  Threads <- Two
  Ids = {i1, i2, i3}
  Ports = {p1, p2, p3, p4, p5, p6}
INVARIANTS
  TypeOK
  OneOwner
  OpenPortIsLocked
  ListedIsOwned
PROPERTIES
  WaitEnds
  CallsReturn
