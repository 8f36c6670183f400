SPECIFICATION Spec
CONSTANTS
  Leds = 2
  Cpr = 8
  Tol = 0
  Hi = 5
  FrameMs = 40
  Names <- SomeNames
  CharLen = 5
  VerLen = 2
  NoTail = NoTail
  NoIndex = NoIndex
  Sources <- SomeSources
  Encodings <- SomeEncodings
  Packs <- SomePacks
  AsNames <- SomeAs
  NoFile = NoFile
  Torn = Torn
  MaxUser = 3
  MaxStops = 1
CHECK_DEADLOCK FALSE
INVARIANTS
  TypeOK
  ServedAsPacked
  LoopsWithoutSnap
  DecodesBack
PROPERTIES
  StartRecovers
