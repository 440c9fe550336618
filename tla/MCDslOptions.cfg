SPECIFICATION Spec
CONSTANTS
  None = None
  Malformed = Malformed
  NotMapping = NotMapping
  N = 4
  CurrentStage = "check"
  CheckoutImage = "checkout"
  ArtifactsHost = TRUE
  SecureImages <- MCSecureImages
  Projects <- MCProjects
  Changes <- MCChanges
  Configs <- MCConfigs
  Hashes <- MCHashes
INVARIANT MostSignificantOptionsWin
CHECK_DEADLOCK FALSE
