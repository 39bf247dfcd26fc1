SPECIFICATION Spec
CONSTANTS
    Rows = {r1, r2}
    MaxTasks <- MCMaxTasks
    Statuses <- MCStatuses
    Pages <- MCPages
INVARIANTS SpinnerEnds OwnWriteShown InStepUnlessMissed OneCommandPerRow
PROPERTY LateAnswersIgnored
CHECK_DEADLOCK FALSE
