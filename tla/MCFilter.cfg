\* Two threads filter two requests with every configuration of MCPrograms.
CONSTANTS
    chainA = chainA
    chainB = chainB
    default = default
    r1 = r1
    r2 = r2
    t1 = t1
    t2 = t2
    unset = unset
    Threads = {t1, t2}
    Chains = {chainA, chainB}
    Default = default
    Requests = {r1, r2}
    Programs <- MCPrograms
    Unset = unset
SPECIFICATION FairSpec
INVARIANTS GuardsAreStacks AnswersAreRight NoFalseAlarm
PROPERTY AlwaysAnswers
CHECK_DEADLOCK FALSE
