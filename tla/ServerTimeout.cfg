\* The default timeout: 5 seconds and 0 microseconds.
SPECIFICATION Spec
CONSTANTS
    MaxConnection = 2
    SSec = 5
    SUsec = 0
    MaxAge = 5
PROPERTY TimeoutHonoured
