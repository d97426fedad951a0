SPECIFICATION MCSpec
CONSTANTS
    w1 = w1
    w2 = w2
    r1 = r1
    r2 = r2
    north = north
    south = south
    men = men
    women = women
    team = team
    None = None
    Configs = {good, better, bad}
    Valid = {good, better}
    Importers = {i1, i2}
    Activators = {a1}
    Workers = {sunday, monday}
    MaxWeek = 3
    Categories = {men, women}
    Views = {None, team}
    WithResults = {men}
    Ttl <- MCTtl
    Outages <- MCOutages
    MaxTime = 8
    Fetchers = {w1, w2}
    Lookups = {r1, r2}
    Askers = {r1, r2}
    Rows <- MCRows
    Filters <- MCFilters
    Day = 1
    MaxDay = 3
    MaxImports = 2
    Clubs = {north, south}
    AccessTtl = 2
    RefreshTtl = 4
    ProTtl = 2
    HttpTimeout = 1
    MaxClock = 6
    MaxSessions = 2
    Weeks = {1, 2, 3}
    Limits = {1, 2, 3}
    Scale = 10
    MaxOffered = 3
    Duel <- MCDuel
    LegalOrder <- MCLegalOrder
    Strengths <- MCStrengths
    ChallengeInputs <- MCChallengeInputs
    StatsInputs <- MCStatsInputs
    TeamInputs <- MCTeamInputs
    HistoryInputs <- MCHistoryInputs
    LetterInputs <- MCLetterInputs
    RankerInputs <- MCRankerInputs
    PublicationInputs <- MCPublicationInputs
    AdviceInputs <- MCAdviceInputs
    HubInputs <- MCHubInputs
INVARIANTS RunsMatchConfig PartsAreBounded RankingIsOrderless DashboardIsOrderless LettersFollowTables RankerIsFair AdviceIsBest AnswersForBoth ThresholdsFit AccessEnds PagesAgree
