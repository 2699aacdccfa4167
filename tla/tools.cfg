CONSTANTS
  Programs <- AllPrograms
  Announced <- AnnouncedValues
SPECIFICATION ToolsSpec
INVARIANTS ReportIsNear NothingSkipped EngineOffAtEnd
PROPERTY ProgramAtStart
