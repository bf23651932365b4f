CONSTANTS
    Texts <- TwoTexts
    NumLanguages = 2
    TouchWorks = TRUE
    NoText = NoText
    NoMsg = NoMsg
    NotTranslated = NotTranslated
SPECIFICATION FairSpec
INVARIANTS
    SettledCaption
    NoLostWakeup
    StatusesTellTasks
PROPERTIES
    DebounceEnds
    CaptionConverges
