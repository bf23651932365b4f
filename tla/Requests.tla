------------------------------- MODULE Requests ------------------------------
(***************************************************************************)
(* Connections together with what the translation task does with each of   *)
(* its own (translation/translation_task.rs 99-124): one request of        *)
(* TranslateClient, and then, whatever came of it, the close.  The other   *)
(* tasks use their connections as they like.                               *)
(***************************************************************************)
EXTENDS Connections, Sequences

CONSTANTS
    Translator,     \* the task that runs the client
    Transcripts, Documents, MAX_BODY_LEN, RespCap, RxCap

ASSUME TranslatorAssumption == Translator \in Tasks \ PlainTasks

VARIABLES phase, document, got

Client == INSTANCE TranslateClient

\* The JSON of an answer is sent in one chunk or in two, which meet anywhere.
ASSUME DocumentsAssumption ==
    /\ \A d \in Documents :
          /\ d.text # None => d.text \in Seq(Client!TextUnits)
          /\ d.split # None =>
                d.text # None /\ d.split \in 1 .. Len(Client!PlainJson(d.text)) - 1
          /\ d.chunked \in BOOLEAN
    /\ None \notin Nat /\ None \notin Seq(Client!Units)
    /\ RespCap \in Nat /\ RxCap \in Nat

client == <<phase, document, got>>
allVars == <<vars, client>>

RequestsInit == Init /\ Client!ClientInit

\* The client runs while its connection is open.
Request ==
    /\ pc[Translator] = "open"
    /\ Client!ClientStep
    /\ UNCHANGED vars

\* Mutant: after a failed request the task waits for the next transcript.
CloseOnlyAfterAnswer ==
    /\ phase = "parsed"
    /\ StartTlsClose(Translator)
    /\ phase' = "idle" /\ document' = Client!NoDocument /\ got' = 0

\* translate_response has returned, with a translation or without; its
\* buffers are gone, and the task closes the connection.
CloseAfterRequest ==
    /\ phase \in {"parsed", "error"}
    /\ StartTlsClose(Translator)
    /\ phase' = "idle" /\ document' = Client!NoDocument /\ got' = 0

OthersClose ==
    /\ \E t \in Tasks \ {Translator} : ClosePlain(t) \/ StartTlsClose(t)
    /\ UNCHANGED client

Proceed(t) == Progress(t) /\ UNCHANGED client

Opens == (\E t \in Tasks : Open(t)) /\ UNCHANGED client

RequestsNext ==
    \/ Opens
    \/ \E t \in Tasks : Proceed(t)
    \/ Request
    \/ CloseAfterRequest
    \/ OthersClose

RequestsSpec == RequestsInit /\ [][RequestsNext]_allVars

\* A task is polled when the network has an answer or its timeout is over.
\* The other tasks need not close what they opened.
RequestsFairness ==
    /\ \A t \in Tasks : WF_allVars(Proceed(t))
    /\ WF_allVars(Request)
    /\ WF_allVars(CloseAfterRequest)

FairRequestsSpec == RequestsSpec /\ RequestsFairness

-----------------------------------------------------------------------------
\* The type invariant of the composition: the client's, and that it is at
\* rest unless its connection is open.
RequestsTypeOK ==
    /\ TypeOK
    /\ Client!ClientTypeOK
    /\ pc[Translator] # "open" => phase = "idle"

\* A response cut off anywhere is not taken for a whole one, nothing but the
\* text is shown, and a whole translation is used however the stream ended
\* after it (client.rs 93-199, helpers.rs 84-97).
AnswerIsRight == Client!AnswerIsRight

\* Every request ends and gives its buffers back: an open connection of the
\* translation task is closed and dropped in the end, whatever the service
\* sends, however it stops, and whatever the parser makes of it.
RequestFreesPair ==
    pc[Translator] = "open" ~> slot[Translator] = None /\ socket[Translator] = None
=============================================================================
