\* Two searches that overlap, an entry by hand and a restart; a table of two rows.
SPECIFICATION Spec
CONSTANTS
    Searches = {q1, q2}
    Urls <- MCUrls
    Entered <- MCEntered
    Answers <- MCAnswers
    QueryVariations = 0
    Private <- MCPrivate
    Trusted <- MCTrusted
    Known <- MCKnown
    Noise <- MCNoise
    Cooldown = 2
    PerDomain = 2
    Retention = 1
    MaxRows = 2
    MaxTime = 4
    MaxManual = 1
    MaxRestarts = 1
CHECK_DEADLOCK FALSE
INVARIANTS
    AnswerIsVaried
PROPERTIES
    VerdictsStay
    OnlyTheOldGo
