CONSTANTS
  Absent = Absent
  Wired = Wired
  NoPreset = NoPreset
  image = image
  video = video
  edit = edit
  version = version
  t1 = t1
  t2 = t2
  Registry <- MCRegistry
  Alias <- MCAlias
  Tasks <- MCTasks
  Supports <- MCSupports
  Divisor <- MCDivisor
  Presets <- MCPresets
  DefaultTag = "here"
  Visible = 2
  Prompts <- MCPrompts
  DeviceLists <- MCDeviceLists
SPECIFICATION Spec
CHECK_DEADLOCK FALSE
INVARIANTS
  AcceptedLayoutRuns
  StaleTaskIsDropped
  NodeWins
  PresetRunsAsMeasured
  SizeIsOnTheGrid
