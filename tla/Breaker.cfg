\* Two callers and a limit of two: every race of two callers at the limit.
SPECIFICATION FairSpec
CONSTANTS
    Callers = {c1, c2}
    failure_limit = 2
    MaxFailed = 6
INVARIANTS
    OpensOnFailuresOnly
    FailuresAreNoticed
PROPERTIES
    RecoversForGood
