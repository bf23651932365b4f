------------------------------ MODULE MCRequests -----------------------------
(***************************************************************************)
(* Requests for TLC: three clients and two pairs, and answers that hold    *)
(* every case the parser meets: a short text, one that is cut within a     *)
(* character by rx_buf, one with an escaped quote and one with another     *)
(* escape, an error document, and texts across two chunks that meet before *)
(* the key, in it, before the opening quote, in the text, within a         *)
(* character, and after the text.  The one of three characters just fills  *)
(* the response buffer.                                                    *)
(***************************************************************************)
EXTENDS Requests

ThreeClients == {"deepgram", "translate", "third"}
DeepgramOnly == {"deepgram"}

ShortAndLong == {[plain |-> 2, special |-> 0], [plain |-> 1, special |-> 1],
                 [plain |-> 0, special |-> 2]}

Doc(t, c, s) == [text |-> t, chunked |-> c, split |-> s]

Answers == {
    Doc(<<"char">>, TRUE, None),
    Doc(<<"char", "lead", "rest">>, FALSE, None),
    Doc(<<"quote">>, FALSE, None),
    Doc(<<"special">>, TRUE, None),
    Doc(<<"char">>, TRUE, 1),
    Doc(<<"char">>, TRUE, 2),
    Doc(<<"char">>, TRUE, 4),
    Doc(<<"char", "char">>, TRUE, 6),
    Doc(<<"lead", "rest">>, TRUE, 6),
    Doc(<<"char", "char", "char">>, TRUE, 9),
    Doc(None, TRUE, None) }
=============================================================================
