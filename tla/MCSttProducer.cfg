SPECIFICATION Spec
CONSTANTS
  Second = 3500
  InputHz = 3000
  StreamFormats <- MCStreamFormats
  Taps = 5
  FrameSamples = {2, 4, 13}
  Skips = {0, 5}
  MaxCalls = 4
INVARIANTS StreamIsTheReference FlagsMarkResets TimestampsCountTheAudio
CHECK_DEADLOCK FALSE
