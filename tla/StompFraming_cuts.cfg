SPECIFICATION FramingSpec
CONSTANTS
  Messages <- MCMessages
  MAX_FRAME_BUFFER_CHARS = 11
  MaxMessages = 3
  MaxBeats = 1
INVARIANTS
  FramesArrive
