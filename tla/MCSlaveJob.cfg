SPECIFICATION Spec
CONSTANTS
  Images = {"base", "mid", "kept", "app", "step", "top"}
  NoImage = "none"
  Parent <- MCParent
  Containers = {"c", "d"}
  Volumes = {"v", "w"}
  WhitelistedRepos = {"centos"}
  UpstreamFiles <- MCUpstreamFiles
  Names <- MCNames
  OldDistros = {"el7"}
  Retries = 3
  Urls = {"lib", "app"}
  Patches <- MCPatches
  Updated <- MCUpdated
  Webs <- MCWebs
  Runtimes <- MCRuntimes
  Config <- MCConfig
  MockConfig <- MCMockConfig
  SecretsFile <- MCSecretsFile
  HwVars <- MCHwVars
  Registries <- MCRegistries
  WithPort = {"reg:5000"}
  Cuts = {4}
  Leavings <- MCLeavings
INVARIANTS CleanupIsExact ScriptSeesItsCommit ChangedFilesAreFound MirroredReposUseMirrors ScriptHasItsVariables ParentImagesAgree
