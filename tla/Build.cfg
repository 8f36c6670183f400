SPECIFICATION Spec
CONSTANTS
  Names <- Sound
  Clips <- SomeClips
  ClipSize <- Sizes
  OggClips <- Oggs
  Keys <- SomeKeys
  NvsValues <- SomeValues
  NoValue = NoValue
  AudioLists <- SomeAudio
  EditLists <- SomeEdits
  StockImages <- SomeImages
  StockMaps <- SomeMaps
  Invocations <- SomeRuns
  NoFile = NoFile
  Torn = Torn
  MaxRuns = 2
CHECK_DEADLOCK FALSE
INVARIANTS
  TypeOK
  FlashIsAsAsked
  ImagesStayValid
  PreflightOnlyForOverride
PROPERTIES
  DumpsSurvive
