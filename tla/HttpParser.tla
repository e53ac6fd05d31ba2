----------------------------- MODULE HttpParser -----------------------------
(***************************************************************************)
(* HttpRequestParser (proxy/http-parser.ts), fed a message in pieces of any *)
(* size. A message is a record of what its sender means; Text writes it as  *)
(* the sequence of units the parser gets. A unit is a "cr", an "lf", a byte *)
(* of a body, or what tells one line from another; every unit has length 1. *)
(***************************************************************************)
EXTENDS Naturals, Sequences, SequencesExt

CONSTANTS Messages,      \* records [start, padding, headers, chunks, ending, trailers]
          MaxHeaderSize,
          MaxBodySize

VARIABLES
    message,     \* what is being sent
    fed,         \* how many units of it were written
    parserState, \* ParserState
    buffer,
    rawHeaders,  \* the length of what is kept of the head
    headers,     \* of those that matter: "chunked", and the Content-Length that counts
    chunkSize,   \* currentChunkSize
    body,        \* bodyBytesReceived is its length
    parsing      \* parse() has not returned

parserVars == <<message, fed, parserState, buffer, rawHeaders, headers, chunkSize, body, parsing>>

-----------------------------------------------------------------------------
(* What a message means, and how it is written.                             *)
CRLF == <<"cr", "lf">>
Digits == <<"0", "1", "2", "3", "4">>
Value(unit) == CHOOSE n \in 0..4 : Digits[n + 1] = unit
NoHeaders == [chunked |-> FALSE, length |-> "none"]

Other == {"plain", "long", "bad"}
Chunked(m) == "chunked" \in ToSet(m.headers)
IsLength(h) == h \notin Other \union {"chunked"}
Length(m) == LET lengths == {i \in DOMAIN m.headers : IsLength(m.headers[i])}
             IN  IF lengths = {} THEN "none"
                 ELSE m.headers[CHOOSE i \in lengths : \A j \in lengths : i <= j]
Content(m) == FlattenSeq(m.chunks)

HeaderLine(h) == (IF h = "long" THEN <<h, "x", "x", "x", "x", "x">> ELSE <<h>>) \o CRLF
HeaderLines(m) == FlattenSeq([i \in DOMAIN m.headers |-> HeaderLine(m.headers[i])])
RequestLine(m) == <<m.start>> \o [i \in 1..m.padding |-> "x"] \o CRLF

Chunk(m, i) == <<Digits[Len(m.chunks[i]) + 1]>> \o CRLF \o m.chunks[i] \o m.ending

Text(m) ==
    RequestLine(m) \o HeaderLines(m) \o CRLF \o
    (IF Chunked(m)
     THEN FlattenSeq([i \in DOMAIN m.chunks |-> Chunk(m, i)]) \o <<"0">> \o CRLF
          \o FlattenSeq([i \in 1..m.trailers |-> HeaderLine("plain")]) \o CRLF
     ELSE Content(m))

(* The first Content-Length counts, a chunked encoding more than any.       *)
Wrong(m) ==
    \/ m.start # "start" \/ "bad" \in ToSet(m.headers)
    \/ Len(HeaderLines(m)) > MaxHeaderSize
    \/ /\ Chunked(m)
       /\ Len(Content(m)) > MaxBodySize \/ (m.chunks # <<>> /\ m.ending # CRLF)
    \/ /\ ~Chunked(m) /\ Length(m) # "none"
       /\ Length(m) = "nan" \/ Value(Length(m)) > MaxBodySize

Meant(m) == IF Chunked(m) THEN Content(m)
            ELSE IF Length(m) = "none" THEN <<>>
            ELSE SubSeq(Content(m), 1, Value(Length(m)))

(* A chunk has its length for its first line, and none is empty; what is put*)
(* in the place of its CRLF does not begin with one.                        *)
IsMessage(m) ==
    /\ m.start \in STRING \ {"cr", "lf"} /\ m.padding \in Nat /\ m.trailers \in Nat
    /\ m.headers \in Seq(Other \union {"chunked", "nan"} \union ToSet(Digits))
    /\ m.chunks \in Seq(Seq(STRING)) /\ \A i \in DOMAIN m.chunks : Len(m.chunks[i]) \in 1..4
    /\ m.ending \in Seq(STRING)
    /\ m.ending = CRLF \/ Len(m.ending) < 2 \/ SubSeq(m.ending, 1, 2) # CRLF

ASSUME ParserAssumption ==
    (\A m \in Messages : IsMessage(m)) /\ MaxHeaderSize \in Nat /\ MaxBodySize \in Nat

-----------------------------------------------------------------------------
ParserInit ==
    /\ message \in Messages /\ fed = 0 /\ parsing = FALSE
    /\ parserState = "request-line" /\ buffer = <<>> /\ rawHeaders = 0
    /\ headers = NoHeaders /\ chunkSize = 0 /\ body = <<>>

(* write: nothing is kept of what comes after the end or an error.          *)
ParserWrite ==
    /\ ~parsing
    /\ \E n \in 1..(Len(Text(message)) - fed) :
          /\ fed' = fed + n
          /\ IF parserState \in {"complete", "error"}
             THEN UNCHANGED <<buffer, parsing>>
             ELSE /\ buffer' = buffer \o SubSeq(Text(message), fed + 1, fed + n)
                  /\ parsing' = TRUE
    /\ UNCHANGED <<message, parserState, rawHeaders, headers, chunkSize, body>>

(* Variant of Reset: what counts as head is not forgotten.                  *)
ResetKeeping == /\ parserState' = "request-line" /\ buffer' = <<>>
                /\ headers' = NoHeaders /\ chunkSize' = 0 /\ body' = <<>> /\ parsing' = FALSE
                /\ UNCHANGED rawHeaders

(* What follows the request in the same write is lost.                      *)
Reset == /\ parserState' = "request-line" /\ buffer' = <<>> /\ rawHeaders' = 0
         /\ headers' = NoHeaders /\ chunkSize' = 0 /\ body' = <<>> /\ parsing' = FALSE

NextMessage ==
    /\ parserState = "complete" /\ ~parsing /\ Reset
    /\ message' \in Messages /\ fed' = 0

-----------------------------------------------------------------------------
(* findLineEnd: the position of the first "cr" before an "lf", or 0.        *)
LineEnd == LET ends == {i \in 1..(Len(buffer) - 1) : SubSeq(buffer, i, i + 1) = CRLF}
           IN  IF ends = {} THEN 0 ELSE CHOOSE i \in ends : \A j \in ends : i <= j

Line == SubSeq(buffer, 1, LineEnd - 1)
TakeLine == buffer' = SubSeq(buffer, LineEnd + 2, Len(buffer))
GoTo(next) == parserState' = next /\ parsing' = (buffer' # <<>>)

(* Something is thrown, and caught by write.                                *)
Throw == parserState' = "error" /\ parsing' = FALSE
Completed == parserState' = "complete" /\ parsing' = FALSE

(* No line end, and no progress: a limit is all that is left to look at.    *)
AwaitsLine(limited) ==
    /\ parsing /\ LineEnd = 0
    /\ IF limited /\ Len(buffer) > MaxHeaderSize THEN Throw
       ELSE parsing' = FALSE /\ UNCHANGED parserState
    /\ UNCHANGED <<message, fed, buffer, rawHeaders, headers, chunkSize, body>>

LineWanted ==
    \/ parserState \in {"request-line", "headers"} /\ AwaitsLine(TRUE)
    \/ parserState \in {"body-chunk-size", "body-chunk-trailer"} /\ AwaitsLine(FALSE)

ParseRequestLine ==
    /\ parsing /\ parserState = "request-line" /\ LineEnd # 0
    /\ TakeLine
    /\ IF Line # <<>> /\ Line[1] = "start" THEN GoTo("headers") ELSE Throw
    /\ UNCHANGED <<message, fed, rawHeaders, headers, chunkSize, body>>

(* One header. The head ends with a line that is empty.                     *)
ParseHeader ==
    /\ parsing /\ parserState = "headers" /\ LineEnd # 0 /\ Line # <<>>
    /\ TakeLine
    /\ rawHeaders' = rawHeaders + LineEnd + 1
    /\ headers' = [chunked |-> headers.chunked \/ Line[1] = "chunked",
                   length |-> IF IsLength(Line[1]) /\ headers.length = "none" THEN Line[1]
                              ELSE headers.length]
    /\ IF Line[1] = "bad" \/ rawHeaders' > MaxHeaderSize THEN Throw ELSE GoTo("headers")
    /\ UNCHANGED <<message, fed, chunkSize, body>>

TransitionToBody ==
    /\ parsing /\ parserState = "headers" /\ LineEnd # 0 /\ Line = <<>>
    /\ TakeLine
    /\ rawHeaders' = rawHeaders + 2
    /\ CASE headers.chunked -> GoTo("body-chunk-size")
         [] ~headers.chunked /\ headers.length \in {"none", "0"} -> Completed
         [] OTHER -> IF headers.length = "nan" \/ Value(headers.length) > MaxBodySize THEN Throw
                     ELSE GoTo("body-content-length")
    /\ UNCHANGED <<message, fed, headers, chunkSize, body>>

(* min(wanted, what there is) of the buffer goes to the body.               *)
Consume(wanted) ==
    LET n == IF wanted < Len(buffer) THEN wanted ELSE Len(buffer)
    IN  /\ body' = body \o SubSeq(buffer, 1, n)
        /\ buffer' = SubSeq(buffer, n + 1, Len(buffer))

ParseBodyContentLength ==
    /\ parsing /\ parserState = "body-content-length"
    /\ Consume(Value(headers.length) - Len(body))
    /\ IF Len(body') = Value(headers.length) THEN Completed ELSE GoTo("body-content-length")
    /\ UNCHANGED <<message, fed, rawHeaders, headers, chunkSize>>

ParseChunkSize ==
    /\ parsing /\ parserState = "body-chunk-size" /\ LineEnd # 0
    /\ TakeLine
    /\ IF Len(Line) # 1 \/ Line[1] \notin ToSet(Digits)
       THEN Throw /\ UNCHANGED chunkSize
       ELSE /\ chunkSize' = Value(Line[1])
            /\ IF Len(body) + chunkSize' > MaxBodySize THEN Throw
               ELSE GoTo(IF chunkSize' = 0 THEN "body-chunk-trailer" ELSE "body-chunk-data")
    /\ UNCHANGED <<message, fed, rawHeaders, headers, body>>

ParseChunkData ==
    /\ parsing /\ parserState = "body-chunk-data" /\ chunkSize # 0
    /\ Consume(chunkSize)
    /\ chunkSize' = chunkSize - (Len(body') - Len(body))
    /\ GoTo("body-chunk-data")
    /\ UNCHANGED <<message, fed, rawHeaders, headers>>

(* The "cr" and "lf" after it, which are waited for together.               *)
ParseChunkEnd ==
    /\ parsing /\ parserState = "body-chunk-data" /\ chunkSize = 0
    /\ IF Len(buffer) < 2
       THEN parsing' = FALSE /\ UNCHANGED <<buffer, parserState>>
       ELSE IF SubSeq(buffer, 1, 2) # CRLF THEN Throw /\ UNCHANGED buffer
       ELSE /\ buffer' = SubSeq(buffer, 3, Len(buffer))
            /\ GoTo("body-chunk-size")
    /\ UNCHANGED <<message, fed, rawHeaders, headers, chunkSize, body>>

ParseChunkTrailer ==
    /\ parsing /\ parserState = "body-chunk-trailer" /\ LineEnd # 0
    /\ TakeLine
    /\ IF Line = <<>> THEN Completed ELSE GoTo("body-chunk-trailer")
    /\ UNCHANGED <<message, fed, rawHeaders, headers, chunkSize, body>>

ParserNext == \/ ParserWrite \/ NextMessage
              \/ LineWanted \/ ParseRequestLine \/ ParseHeader \/ TransitionToBody
              \/ ParseBodyContentLength
              \/ ParseChunkSize \/ ParseChunkData \/ ParseChunkEnd \/ ParseChunkTrailer

ParserSpec == ParserInit /\ [][ParserNext]_parserVars

-----------------------------------------------------------------------------
(* However a message is cut in pieces, it is taken for what was meant: when *)
(* all of it was written it is complete, with its body and nothing more, or *)
(* it is an error; and before, it is not complete, and an error only if the *)
(* message is one. Two exceptions: a body may be shorter than its declared  *)
(* length, which is then waited for, and a request line over the limit is an*)
(* error if a piece ends within it, and accepted if none does.              *)
ParsedAsWritten ==
    ~parsing =>
        /\ parserState = "complete" =>
              ~Wrong(message) /\ body = Meant(message) /\ Len(body) <= MaxBodySize
        /\ parserState = "error" => Wrong(message) \/ message.padding + 1 >= MaxHeaderSize
        /\ fed = Len(Text(message)) =>
              \/ parserState = (IF Wrong(message) THEN "error" ELSE "complete")
              \/ parserState = "error" /\ message.padding + 1 >= MaxHeaderSize
              \/ parserState = "body-content-length" /\ Len(Content(message)) < Value(Length(message))
=============================================================================
