--------------------------- MODULE TranslateClient ---------------------------
(***************************************************************************)
(* translate_text (translation/client.rs) and the part of                  *)
(* translate_response (translation/helpers.rs) that takes its result: one  *)
(* HTTP request over an open connection, its response read until the       *)
(* stream ends, and the translation cut out of it by searching for quotes. *)
(*                                                                         *)
(* A response is a sequence of units, each standing for the bytes that the *)
(* search tells apart: the headers, the empty line, the size line of the   *)
(* first chunk, the two halves of the JSON key, a quote, a character of    *)
(* one byte, the two halves of one of several bytes, a backslash, a chunk  *)
(* boundary, other JSON, the last chunk.  Every unit counts as one byte.   *)
(***************************************************************************)
EXTENDS Naturals, Sequences, SequencesExt

CONSTANTS
    Transcripts,    \* [plain, special]: characters sent as they are, and escaped
    Documents,      \* [text, chunked, split]: what the service may answer
    MAX_BODY_LEN,   \* the request body's buffer, less the JSON around the text
    RespCap,        \* resp_buf.len()
    RxCap,          \* rx_buf.len()
    None            \* "no text": an error document, an error, no answer

VARIABLES
    phase,      \* what the request is doing
    document,   \* what the service answers
    got         \* resp_len: units read of it

client == <<phase, document, got>>

\* The response that the service never sends.
NoDocument == [text |-> None, chunked |-> FALSE, split |-> None]

ClientInit ==
    /\ phase = "idle"
    /\ document = NoDocument
    /\ got = 0

-----------------------------------------------------------------------------
(* The response as it is sent *)

\* What a text is made of: a quote, and other characters that JSON escapes (a
\* line end, a backslash, a \\u sequence), among characters that it does not.
TextUnits == {"char", "lead", "rest", "quote", "special"}

\* What JSON writes it with.
WrittenUnits == {"char", "lead", "rest", "slash", "quote"}

\* What a response, or what is shown for one, is made of.
Units == WrittenUnits \union
         {"headers", "empty_line", "size", "key", "key_end", "boundary", "json",
          "last_chunk", "invalid"}

Escaped(c) ==
    CASE c = "quote" -> <<"slash", "quote">>
      [] c = "special" -> <<"slash", "char">>
      [] OTHER -> <<c>>

\* A text as JSON writes it.
Written(text) ==
    LET written[n \in 0 .. Len(text)] ==
            IF n = 0 THEN <<>> ELSE written[n - 1] \o Escaped(text[n])
    IN  written[Len(text)]

\* The JSON up to its text: other JSON, the key, a colon and the opening quote.
Opening == <<"json", "key", "key_end", "json", "quote">>

PlainJson(text) == Opening \o (Written(text) \o <<"quote", "json">>)

WithBoundary(s, k) == SubSeq(s, 1, k) \o (<<"boundary">> \o SubSeq(s, k + 1, Len(s)))

\* The JSON, which may be sent in two chunks: the first ends after any split
\* units of it, wherever that is.
Json(d) ==
    IF d.text = None THEN <<"json">>
    ELSE IF d.split = None THEN PlainJson(d.text)
    ELSE WithBoundary(PlainJson(d.text), d.split)

\* The chunks meet within the key.
KeyIsCut(d) == d.split = 2

\* The chunks meet between the quotes around the text.
TextIsCut(d) ==
    /\ d.split # None
    /\ Len(Opening) <= d.split /\ d.split <= Len(Opening) + Len(Written(d.text))

\* What stands between these quotes.
WireText(d) ==
    IF TextIsCut(d) THEN WithBoundary(Written(d.text), d.split - Len(Opening))
    ELSE Written(d.text)

Wire(d) ==
    <<"headers", "empty_line">> \o
    (IF d.chunked THEN <<"size">> \o Json(d) \o <<"last_chunk">> ELSE Json(d))

-----------------------------------------------------------------------------
(* The response as it is read *)

\* core::str::from_utf8 accepts it: no character is cut in half.
Utf8(s) ==
    \A i \in 1 .. Len(s) :
        /\ s[i] = "lead" => i < Len(s) /\ s[i + 1] = "rest"
        /\ s[i] = "rest" => i > 1 /\ s[i - 1] = "lead"

\* The first place of unit u in s from place i on, or 0.
Find(s, u, i) == SelectInSubSeq(s, i, Len(s), LAMBDA x : x = u)

After(s, i) == SubSeq(s, i + 1, Len(s))

\* Only the size line of the first chunk and the last chunk are removed; the
\* boundaries of further chunks stay.
strip_chunked_framing(body) ==
    IF body = <<>> \/ Head(body) # "size" THEN body
    ELSE LET last == SelectLastInSeq(body, LAMBDA x : x = "last_chunk")
         IN  SubSeq(body, 2, IF last = 0 THEN Len(body) ELSE last - 1)

\* Mutant: a text without its closing quote ends with the body.
ParseWithoutClosingQuote(response) ==
    LET body  == strip_chunked_framing(After(response, Find(response, "empty_line", 1)))
        key   == Find(body, "key_end", 1)
        open  == Find(body, "quote", key + 1)
        close == Find(body, "quote", open + 1)
    IN  IF Utf8(response) /\ key > 1 /\ open # 0
        THEN SubSeq(body, open + 1, IF close = 0 THEN Len(body) ELSE close - 1)
        ELSE None

\* The text between the first two quotes after the key, or None.  The key is
\* found in one piece or not at all, and for the search a quote is a quote,
\* escaped or not; escapes are left as they are.
Parse(response) ==
    LET body  == strip_chunked_framing(After(response, Find(response, "empty_line", 1)))
        key   == Find(body, "key_end", 1)
        open  == Find(body, "quote", key + 1)
        close == Find(body, "quote", open + 1)
    IN  IF /\ Utf8(response)
           /\ Find(response, "empty_line", 1) # 0
           /\ key > 1 /\ body[key - 1] = "key"
           /\ open # 0 /\ close # 0
        THEN SubSeq(body, open + 1, close - 1)
        ELSE None

\* What is cached and shown for a parsed text: as much as fits in rx_buf, and
\* "<invalid UTF-8>" if that ends within a character.
Shown(text) ==
    LET len == IF Len(text) < RxCap THEN Len(text) ELSE RxCap
        cut == SubSeq(text, 1, len)
    IN  IF Utf8(cut) THEN cut ELSE <<"invalid">>

-----------------------------------------------------------------------------
(* The request *)

\* The body is built: special characters take two bytes.  One that does not
\* fit is Err(BodyTooLong); nothing has been sent then.
BuildRequest ==
    /\ phase = "idle"
    /\ \E t \in Transcripts :
          phase' = IF t.plain + 2 * t.special <= MAX_BODY_LEN THEN "header" ELSE "error"
    /\ UNCHANGED <<document, got>>

WriteHeader ==
    /\ phase = "header"
    /\ phase' = "body"
    /\ UNCHANGED <<document, got>>

WriteBody ==
    /\ phase = "body"
    /\ phase' = "flush"
    /\ UNCHANGED <<document, got>>

\* The request is out, and the service answers it somehow.
FlushRequest ==
    /\ phase = "flush"
    /\ phase' = "reading"
    /\ document' \in Documents
    /\ UNCHANGED got

\* A write or the flush returns an error, a timeout of the socket included.
WriteFails ==
    /\ phase \in {"header", "body", "flush"}
    /\ phase' = "error"
    /\ UNCHANGED <<document, got>>

-----------------------------------------------------------------------------
(* The response *)

Unread == Len(Wire(document)) - got

\* A read returns some of what the service sent, as much as has room.
ReadSome ==
    /\ phase = "reading"
    /\ got < RespCap
    /\ \E n \in 1 .. Unread : got + n <= RespCap /\ got' = got + n
    /\ UNCHANGED <<phase, document>>

\* The buffer is full: an error, even if the response is complete.
ResponseTooLarge ==
    /\ phase = "reading"
    /\ got >= RespCap
    /\ phase' = "error"
    /\ UNCHANGED <<document, got>>

\* Ok(0): the service has closed the connection, with or without having sent
\* all of its answer.  What has come is parsed.
StreamEnds ==
    /\ phase = "reading"
    /\ got < RespCap
    /\ phase' = "parsed"
    /\ UNCHANGED <<document, got>>

\* A read error, a timeout of the socket included: after data it is taken for
\* the end of the stream.
ReadFails ==
    /\ phase = "reading"
    /\ got < RespCap
    /\ phase' = IF got > 0 THEN "parsed" ELSE "error"
    /\ UNCHANGED <<document, got>>

Parsed == Parse(SubSeq(Wire(document), 1, got))

\* The text taken as the translation, None after an error.
Answer == IF phase = "parsed" /\ Parsed # None THEN Shown(Parsed) ELSE None

\* Every wait of the request ends: the service sends or closes, or the socket
\* timeout of 30 s ends it.
ClientStep ==
    \/ BuildRequest \/ WriteHeader \/ WriteBody \/ FlushRequest \/ WriteFails
    \/ ReadSome \/ ResponseTooLarge \/ StreamEnds \/ ReadFails

-----------------------------------------------------------------------------
\* The type invariant of the client.
ClientTypeOK ==
    /\ phase \in {"idle", "header", "body", "flush", "reading", "parsed", "error"}
    /\ document \in Documents \union {NoDocument}
    /\ got \in 0 .. RespCap
    /\ got <= Len(Wire(document))
    /\ phase \in {"reading", "parsed"} => document \in Documents

HasQuote(text) == Contains(text, "quote")
HasEscape(text) == HasQuote(text) \/ Contains(text, "special")

\* A response cut off anywhere, by an early close, an error after data or the
\* size of the buffer, is never taken for a whole one: an answer is the whole
\* text, with its escapes as JSON writes them, except for the three things the
\* parser does not know of: a quote in the text, chunks that meet in it, and a
\* text longer than rx_buf.
WholeOrNothing ==
    Answer # None =>
        \/ Answer = document.text
        \/ HasEscape(document.text) /\ Answer = Written(document.text)
        \/ HasQuote(document.text)
        \/ TextIsCut(document)
        \/ Len(Written(document.text)) > RxCap

\* What is shown stood in the text, from its first unit on: neither the JSON
\* around it nor the framing.  Only a chunk boundary within the text is shown,
\* and "<invalid UTF-8>" stands for a text cut within a character.
AnswerIsFromText ==
    Answer # None =>
        \/ IsPrefix(Answer, WireText(document))
        \/ Answer = <<"invalid">> /\ Len(WireText(document)) > RxCap

\* A translation that has come in completely and left room in the buffer is
\* used, however the stream then ended, unless two chunks meet within the key
\* or within a character of the text.
CompleteIsUsed ==
    phase \in {"parsed", "error"} /\ document.text # None
        /\ Utf8(Wire(document)) /\ ~KeyIsCut(document)
        /\ got = Len(Wire(document)) /\ got < RespCap
        => Answer # None

\* client.rs 93-199, helpers.rs 84-97: nothing but the translation is shown, and
\* it is shown if it has come.
AnswerIsRight == WholeOrNothing /\ AnswerIsFromText /\ CompleteIsUsed
=============================================================================
