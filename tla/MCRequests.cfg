\* Three clients and two pairs; the service's answers end early or are complete.
CONSTANTS
    Tasks <- ThreeClients
    PlainTasks <- DeepgramOnly
    DelayedDrop <- DeepgramOnly
    MAX_CONNECTIONS = 2
    MAX_TCP_RETRIES = 2
    None = None
    Translator = "translate"
    Transcripts <- ShortAndLong
    Documents <- Answers
    MAX_BODY_LEN = 3
    RespCap = 15
    RxCap = 2
SPECIFICATION FairRequestsSpec
INVARIANTS
    RequestsTypeOK
    NoSlotLeak
    SharingNeedsLinger
    AnswerIsRight
PROPERTIES
    OpenReturns
    RequestFreesPair
