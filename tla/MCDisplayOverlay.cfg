CONSTANTS
    Transcripts <- MCTranscripts
    Translations <- MCTranslations
    Overflow <- MCOverflow
    PrimaryTexts <- MCPrimaryTexts
    IndicatorTexts <- MCIndicatorTexts
    NumLanguages = 2
SPECIFICATION Spec
INVARIANT
    OverlayIsRemoved
