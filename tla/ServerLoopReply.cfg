SPECIFICATION Spec
CONSTANTS
    NThreads = 2
    NConns = 3
    MaxRequests = 2
    MaxFailures = 0
PROPERTY
    AnswersOwnClient
