SPECIFICATION FairSpec
CONSTANTS
    Threads = {t1, t2}
    CacheSize = 1
    Workloads <- AllWorkloads
INVARIANTS
    EffectsAndAnswersAgree
    TargetsAreFenced
PROPERTIES
    PromiseKept
    DrainEnds
