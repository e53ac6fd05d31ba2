----------------------------- MODULE Scrubbing -----------------------------
(***************************************************************************)
(* What AuditLogger (logging/audit-logger.ts) puts into an entry, and what  *)
(* filter/secret-detector.ts takes out of it.                               *)
(*                                                                          *)
(* A text is a sequence of characters: "s" of which two or more are a key,  *)
(* "st" which is a secret of another pattern, "t" a token, which is a secret*)
(* only behind a "b" (bearer) within a window, and others. Texts are shorter*)
(* than the 64 KB that are scanned.                                         *)
(***************************************************************************)
EXTENDS Naturals, Sequences, SequencesExt

CONSTANTS Texts,      \* of requests and header values
          Window,     \* contextWindow
          MaxBodyLog  \* maxBodyLogSize

ASSUME ScrubAssumption ==
    Texts \subseteq Seq(STRING) /\ Window \in Nat /\ MaxBodyLog \in Nat

Levels == {"none", "minimal", "headers", "full"}
NoHeader == [name |-> "none", value |-> <<>>]
NoEntry == [path |-> <<>>, header |-> <<>>, body |-> <<>>]

VARIABLES
    level,   \* loggingLevel
    request, \* what is logged: a text that is its path and its body, and one header
    logged   \* the entry

scrubVars == <<level, request, logged>>

-----------------------------------------------------------------------------
(* detectSecrets: the ranges of each pattern.                               *)
Keys(text) ==
    {d \in [from : DOMAIN text, to : DOMAIN text] :
        /\ d.from < d.to
        /\ \A i \in d.from..d.to : text[i] = "s"
        /\ d.from > 1 => text[d.from - 1] # "s"
        /\ d.to < Len(text) => text[d.to + 1] # "s"}

Pairs(text) == {[from |-> i, to |-> i + 1] : i \in {i \in 1..(Len(text) - 1) :
                                                    text[i] = "s" /\ text[i + 1] = "t"}}

Tokens(text) ==
    {[from |-> i, to |-> i] : i \in {i \in DOMAIN text :
        text[i] = "t" /\ \E j \in DOMAIN text : j < i /\ i <= j + Window /\ text[j] = "b"}}

Detections(text) == Keys(text) \union Pairs(text) \union Tokens(text)

(* The headers go before the text, set apart from it.                       *)
Combined(header, text) ==
    IF header = NoHeader THEN text
    ELSE <<IF header.name = "authorization" THEN "b" ELSE "x">> \o header.value
         \o (IF text = <<>> THEN <<>> ELSE <<"x">> \o text)

Placeholder == <<"redacted">>

Replace(text, d) ==
    SubSeq(text, 1, d.from - 1) \o Placeholder \o SubSeq(text, d.to + 1, Len(text))

(* Replaces the detection that starts at a position; no two do.             *)
ReplaceFrom(text, ds, i) ==
    IF \E d \in ds : d.from = i THEN Replace(text, CHOOSE d \in ds : d.from = i) ELSE text

(* Variant of Redact: from left to right, where offsets do not stay valid.  *)
RedactForward(text, ds) ==
    LET out[n \in 0..Len(text)] == IF n = 0 THEN text ELSE ReplaceFrom(out[n - 1], ds, n)
    IN  out[Len(text)]

(* From right to left, so that offsets stay valid - if ranges are disjoint. *)
Redact(text, ds) ==
    LET out[n \in 0..Len(text)] ==
            IF n = 0 THEN text ELSE ReplaceFrom(out[n - 1], ds, Len(text) - n + 1)
    IN  out[Len(text)]

(* The ranges found are those of the combined text, headers first: they are *)
(* the text's own only without headers.                                     *)
ScrubSecretsInString(text, header) ==
    Redact(text, {d \in Detections(Combined(header, text)) : d.from <= Len(text)})

(* A sensitive name hides the value; the values of others are scrubbed.     *)
RedactedHeader(header) ==
    IF header.name = "authorization" THEN Placeholder
    ELSE Redact(header.value, Detections(header.value))

(* A body is cut before it is scrubbed.                                     *)
TruncateBody(text) == IF Len(text) <= MaxBodyLog THEN text
                      ELSE SubSeq(text, 1, MaxBodyLog) \o <<"cut">>

-----------------------------------------------------------------------------
ScrubInit ==
    /\ level = "minimal" /\ logged = NoEntry
    /\ request \in [text : Texts,
                    header : [name : {"authorization", "custom"}, value : Texts] \union {NoHeader}]

SetLoggingLevel(l) == level' = l /\ logged' = NoEntry /\ UNCHANGED request

LogRequest ==
    /\ logged' = [path |-> ScrubSecretsInString(request.text, request.header),
                  header |-> IF level \in {"headers", "full"} /\ request.header # NoHeader
                             THEN RedactedHeader(request.header) ELSE <<>>,
                  body |-> IF level = "full"
                           THEN ScrubSecretsInString(TruncateBody(request.text), request.header)
                           ELSE <<>>]
    /\ UNCHANGED <<level, request>>

(* Sampling, or a status that is not among those to be logged.              *)
NotLogged == logged' = NoEntry /\ UNCHANGED <<level, request>>

(* logRateLimit and logError know of no headers.                            *)
LogPath ==
    /\ logged' = [path |-> ScrubSecretsInString(request.text, NoHeader),
                  header |-> <<>>, body |-> <<>>]
    /\ UNCHANGED <<level, request>>

ScrubNext == LogRequest \/ NotLogged \/ LogPath \/ \E l \in Levels : SetLoggingLevel(l)

ScrubSpec == ScrubInit /\ [][ScrubNext]_scrubVars

-----------------------------------------------------------------------------
Disjoint(text) == \A d, e \in Detections(text) : d = e \/ d.to < e.from \/ e.to < d.from

(* A text with a placeholder for each secret, and all else as it was.       *)
Clean(text) ==
    LET Shown(i) == IF \E d \in Detections(text) : d.from = i THEN Placeholder
                    ELSE IF \E d \in Detections(text) : d.from < i /\ i <= d.to THEN <<>>
                    ELSE <<text[i]>>
    IN  FlattenSeq([i \in DOMAIN text |-> Shown(i)])

Scrubbed(shown, text) == shown \in {<<>>, Clean(text)} \/ ~Disjoint(text)

(* "so the audit entry is safe to share": of a path, a body and a header, an*)
(* entry shows all that is no secret and no secret, and of an authorization *)
(* nothing - but paths and bodies are scrubbed so only if no headers are    *)
(* logged with them, and no text is whose secrets overlap.                  *)
EntryScrubbed ==
    /\ request.header = NoHeader => /\ Scrubbed(logged.path, request.text)
                                    /\ Scrubbed(logged.body, TruncateBody(request.text))
    /\ IF request.header.name = "authorization" THEN logged.header \in {<<>>, Placeholder}
       ELSE Scrubbed(logged.header, request.header.value)
=============================================================================
