SPECIFICATION FairSpec
CONSTANTS
  MaxStreams = 2
  MaxData = 2
  MaxWire = 3
  MaxConnects = 1
  Reply = FALSE
  VadOn = TRUE
  AssetZip = FALSE
  PlaceholderOpus = TRUE
  WindowFills = TRUE
  AnimsFit = TRUE
  DropsFrames = TRUE
  DeviceId = DeviceId
  ConfiguredId = ConfiguredId
  NoId = NoId
  KindsWithId <- SpeechOnly
  DeviceKinds <- AllKinds
  ResetKinds <- VoiceKinds
  Files <- None
INVARIANTS
  UploadBanked
PROPERTIES
  TurnCompletes
