CONSTANTS
    key = key
    phone = phone
    Clients <- TwoClients
    MaxBuffer = 2
    MaxBurst = 2
    MaxDeaths = 2
SPECIFICATION FairSpec
INVARIANTS NoCallbackAfterFree
PROPERTIES AnswerIsOwn RequestEnds ReportsResume PutEnds
