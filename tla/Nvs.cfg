SPECIFICATION Spec
CONSTANTS
  P = 2
  S = 5
  MaxSpan = 3
  Entries <- SmallEntries
  Strings <- SmallStrings
  Values <- ShortValues
  DataSlots <- ShortData
  NoValue = NoValue
  Garbled = Garbled
  Blank = Blank
  MaxSeq = 3
CHECK_DEADLOCK FALSE
INVARIANTS
  TypeOK
  BitmapAgrees
PROPERTIES
  ImplementsMap
  OldStaysGone
  SetReadsBack
