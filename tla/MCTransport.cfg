SPECIFICATION Spec
CONSTANTS
    m1 = m1
    Messages <- MCMessages
    MaxRetries = 3
    Capacity = 1
INVARIANTS TypeOK DeafOnlyIfOvertaken
PROPERTIES WaitingIsTaken RepeatedEnableWorks
