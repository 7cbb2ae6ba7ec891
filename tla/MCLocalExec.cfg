SPECIFICATION LiveSpec
CONSTANTS
    NTasks = 2
    MaxAttempts = 2
    Outcomes <- MCOutcomes
    r1 = r1
    r2 = r2
    Readers <- MCReaders
    Scenarios <- MCScenarios
    None = None
  
PROPERTIES PlanEnds ReportCatchesUp
CHECK_DEADLOCK FALSE
