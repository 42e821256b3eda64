SPECIFICATION DSpec
CONSTANTS
  cam1 = cam1  cam2 = cam2  dev1 = dev1  dev2 = dev2  url = url
  Blank = Blank  None = None
  Names = {cam1, cam2}
  Locations = {dev1, dev2}
  Outputs <- Lists
  Controls <- Lines
  PipeLines = 2
  Arguments = {url, None}
  MaxSelections = 3
  MaxStarts = 2
CHECK_DEADLOCK FALSE
INVARIANTS
  DTypeOK
  ListedAsPrinted
PROPERTIES
  SelectionEnds
