SPECIFICATION Spec
CONSTANTS
  MaxStreams = 3
  MaxData = 2
  MaxWire = 2
  MaxConnects = 1
  Reply = TRUE
  VadOn = TRUE
  AssetZip = TRUE
  PlaceholderOpus = TRUE
  WindowFills = FALSE
  AnimsFit = TRUE
  DropsFrames = TRUE
  DeviceId = DeviceId
  ConfiguredId = DeviceId
  NoId = NoId
  KindsWithId <- Uploads
  DeviceKinds <- AssetKinds
  ResetKinds <- None
  Files <- TwoFiles
INVARIANTS
  ServedMeansDelivered
