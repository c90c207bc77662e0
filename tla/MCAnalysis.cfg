SPECIFICATION Spec
CONSTANTS
    None = None
    Assets <- MCAssets
    Class <- MCClass
    Sensitivity <- MCSensitivity
    Precision = 144
    RsiPeriod = 2
    AtrPeriod = 2
    VolumePeriod = 2
    MacdFast = 1
    MacdSlow = 3
    MacdSignal = 3
    EmaFast = 1
    EmaSlow = 3
    Bars <- MCBars
    Feeds <- MCFeeds
    DefaultQuality = 50
    Quality <- MCQuality
    MaxNewsAge = 3
    MaxDigest = 3
    Rulebook <- MCRulebook
    Cases <- MCCases
    Sentiments <- MCSentiments
    Narrations <- MCNarrations
    Noon = 4
    MaxTime = 5
INVARIANTS
    TypeOK
    NewsComplete
    PrimaryCoverage
    EvidenceBacked
    StrongestEffectWins
    GuardedRulesWait
    ActivationsNameTheirEvent
    GuardrailsSilent
    ChangesAreReal
