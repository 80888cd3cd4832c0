SPECIFICATION FairSpec
CONSTANTS
    j1 = j1
    j2 = j2
    j3 = j3
    s1 = s1
    s2 = s2
    w1 = w1
    w2 = w2
    Job <- MCJob
    Submitter <- MCSubmitter
    Worker <- MCWorker
    JobsCap = 1
    ResultsCap = 1
    UserCap = 1
INVARIANT NoSendOnClosed
PROPERTIES ServiceSpec EveryJobAnswered CallsReturn
