SPECIFICATION ComputationsSpec
CONSTANTS
    None = None
    Scale = 10
    MaxOffered = 3
    Duel <- MCDuel
    LegalOrder <- MCLegalOrder
    Strengths <- MCStrengths
    ChallengeInputs = {}
    StatsInputs = {}
    TeamInputs = {}
    HistoryInputs = {}
    LetterInputs = {}
    RankerInputs = {}
    PublicationInputs = {}
    AdviceInputs <- MCAdviceInputs
    HubInputs = {}
INVARIANTS AdviceIsOfRealPoints
