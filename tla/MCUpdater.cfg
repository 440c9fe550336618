SPECIFICATION Spec
CONSTANTS
  Commits = {1, 2, 3, 4}
  Before <- MCHistory
  Jobs = {"poll", "updater"}
  Sources = {"lib", "app", "new"}
  Moving = {"lib"}
  Tagging = {"app"}
  FirstHeads <- MCFirst
  Configs <- MCConfigs
  Given <- MCGiven
  TagKinds <- MCTagKinds
  PushMap <- MCPushMap
  NotMapping = NotMapping
  Remote = "here"
  Owner = "ci"
  GroupMembers <- MCGroups
  MaxPatches = 4
  MaxEvents = 2
INVARIANT TagsAreFollowedForward
PROPERTIES UpdatesReachGerrit
  NeverSourcesWaitForReview
