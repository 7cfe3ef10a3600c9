SPECIFICATION Spec
CONSTANTS
  Denoisers = {1, 2}
  Preset <- MCPreset
  Default <- MCDefault
  Numbers <- MCNumbers
  Groups <- MCGroups
  Pipelines <- MCPipelines
  Steps = {2, 8}
  InitSteps = 4
  NoJob = NoJob
INVARIANTS AppliedStateIsTrue DbcacheRunsItsWidgets TreeCacheRunsWhatIsNamed
