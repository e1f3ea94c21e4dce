SPECIFICATION Spec
CONSTANTS
    Call = {c1, c2}
    NoTask = NoTask
    Timed = TRUE
    MaxErrors = 1
    RunMayThrow = TRUE
    TaskControl = {"REMOVE", "RE_SCHEDULE", "THROW"}
INVARIANTS
    TypeOK
    FrontIsDefined
    NoWorkAfterExitSignal
PROPERTIES
    ImplementsTaskQueue
    DestructorReturns
