SPECIFICATION Spec
CONSTANTS
  P = 2
  S = 5
  MaxSpan = 3
  Entries <- SmallEntries
  Strings <- SmallStrings
  Values <- LongValues
  DataSlots <- LongData
  NoValue = NoValue
  Garbled = Garbled
  Blank = Blank
  MaxSeq = 3
CHECK_DEADLOCK FALSE
PROPERTIES
  SetReadsBack
