SPECIFICATION FairSpec
CONSTANTS
    e1 = e1
    e2 = e2
    d1 = d1
    d2 = d2
    Events = {e1, e2}
    Kind <- RankingAndChallenge
    Competition <- SameCompetition
    Devices = {d1, d2}
    Locale <- TwoLocales
    Interested <- OneAndBoth
    Instances = {i1, i2}
    BatchSize = 2
    Limit = 2
    MaxClaims = 4
    MaxFaults = 1
    Outlive = FALSE
    FcmFails = FALSE
INVARIANTS OncePerClaim DuplicatesHaveCauses GivenUpHasCauses NobodyMissed
PROPERTIES ComesToRest
