SPECIFICATION PlanSpec
CONSTANTS
  AudioSources <- MCAudioSources
  AudioSettings <- MCAudioSettings
  Undefined = "und"
  Unset = "none"
  VideoSources <- MCPictures
  VideoSettings <- MCVideoSettings
  Family <- MCFamily
  ProbeName <- MCProbeName
  MaxDepth <- MCMaxDepth
  Batches <- MCBatches
  SubtitleSettings <- MCSubtitleSettings
  UndefinedLang = "und"
  UnsetLang = "none"
  NoCodec = NoCodec
  NoFile = NoFile
  Streams <- MCStreams
  NoDevice = NoDevice
  NameSources <- MCNameSources
  NameWorlds <- MCNameWorlds
  p1 = p1
  p2 = p2
  cfg1 = cfg1
  cfg2 = cfg2
  hq = hq
  lq = lq
  NoProfile = NoProfile
  NoNode = NoNode
  NoWorker = NoWorker
  Request <- MCMixed
  Path = {p1, p2}
  Config = {cfg1, cfg2}
  Kind = {"convert", "rename"}
  Profile = {hq, lq}
  Supported = {"convert", "rename"}
  Local = local
  WorkerId = {1, 2}
  Priority = {1}
  Cap <- MCCap
  Cost <- MCCost
  Weight <- MCWeight
  Budget = 2
  MaxJobs = 2
  Bare = Bare
  NoId = NoId
  QsvOnly <- MCQsvOnly
  VaapiOnly <- MCVaapiOnly
  Files <- MCFiles
  Saves <- MCSaves
  Media <- FamilyMedia
  ArgSets <- ManyArgs
  Askers = {r1, r2}
  Ids = {u1, u2}
  MaxEdits = 2
  r1 = r1
  r2 = r2
  u1 = u1
  u2 = u2
CHECK_DEADLOCK FALSE
INVARIANT SomeAudio
