SPECIFICATION Spec
CONSTANTS
  Tracks = {mic, sys}
  Chunk = 2
  FrameSizes = {1, 3}
  MaxSamples = 4
  Names = {first, second}
  mic = mic
  sys = sys
  first = first
  second = second
PROPERTIES KeptPartialsSurvive
CHECK_DEADLOCK FALSE
