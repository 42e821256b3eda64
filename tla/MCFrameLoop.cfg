SPECIFICATION HFairSpec
CONSTANTS
  Width = 6
  Height = 4
  Scenes <- Pictures
  BandPositions = {25, 50, 100}
  BandHeights = {50}
  Sensitivities = {2, 3}
  Restored = {0, 2}
  Variances = {50, 120}
  MaxSensitivity = 100
INVARIANTS
  HTypeOK
  MotionIsReal
  AimsInsideMotion
  MotionIsSeen
PROPERTY FrameEnds
