\* Every notification of one trip to the home screen and back can wait.
SPECIFICATION Spec
CONSTANT Pending = 4
CHECK_DEADLOCK FALSE
PROPERTIES ActiveResumes
