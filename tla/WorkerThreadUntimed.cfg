SPECIFICATION Spec
CONSTANTS
    Call = {c1, c2}
    NoTask = NoTask
    Timed = FALSE
    MaxErrors = 1
    RunMayThrow = FALSE
    TaskControl = {"REMOVE"}
PROPERTIES
    AnnouncedTaskIsTaken
