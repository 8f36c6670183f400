SPECIFICATION FairSpec
CONSTANTS
  MaxStreams = 2
  MaxData = 2
  MaxWire = 3
  MaxConnects = 2
  Reply = TRUE
  VadOn = TRUE
  AssetZip = TRUE
  PlaceholderOpus = TRUE
  WindowFills = FALSE
  AnimsFit = TRUE
  DropsFrames = TRUE
  DeviceId = DeviceId
  ConfiguredId = DeviceId
  NoId = NoId
  KindsWithId <- Uploads
  DeviceKinds <- AssetVoiceKinds
  ResetKinds <- VoiceKinds
  Files <- OneFile
INVARIANTS
  OneReplyPerTurn
PROPERTIES
  TurnCompletes
  ReplyReachesDevice
  PushesStop
  AssetsDelivered
