SPECIFICATION Spec
CONSTANTS
  MaxStreams = 3
  MaxData = 2
  MaxWire = 2
  MaxConnects = 1
  Reply = TRUE
  VadOn = TRUE
  AssetZip = FALSE
  PlaceholderOpus = TRUE
  WindowFills = FALSE
  AnimsFit = TRUE
  DropsFrames = TRUE
  DeviceId = DeviceId
  ConfiguredId = ConfiguredId
  NoId = NoId
  KindsWithId <- SpeechOnly
  DeviceKinds <- VoiceKinds
  ResetKinds <- SpeechOnly
  Files <- None
INVARIANTS
  FinishFirst
