CONSTANTS
    Transcripts <- MCTranscripts
    Translations <- MCTranslations
    Overflow <- MCOverflow
    PrimaryTexts <- MCPrimaryTexts
    IndicatorTexts <- MCIndicatorTexts
    NumLanguages = 2
SPECIFICATION MCSpec
INVARIANTS
    TypeOK
    
PROPERTIES
    ComesToRest
