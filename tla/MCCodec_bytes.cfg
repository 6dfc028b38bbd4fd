SPECIFICATION CodecSpec
CONSTANTS
  Bytes = {37, 46, 57, 61, 95, 251}
  MaxLen = 5
  Distances = {1, 2, 3, 4, 5}
  Invalid = invalid
INVARIANTS
  EncodeIsBits
  DecodeIsBits
  NameComesBack
  PathComesBack
CHECK_DEADLOCK FALSE
