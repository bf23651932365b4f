CONSTANTS
    Texts <- TwoTexts
    NumLanguages = 2
    TouchWorks = FALSE
    NoText = NoText
    NoMsg = NoMsg
    NotTranslated = NotTranslated
SPECIFICATION Spec
INVARIANT PartialsNotStuck
