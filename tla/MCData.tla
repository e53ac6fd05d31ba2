------------------------------- MODULE MCData -------------------------------
(***************************************************************************)
(* What an intercepted session reads, and what is decided about texts and   *)
(* addresses. The parts share nothing, so a behaviour exercises one of them,*)
(* chosen at the start: the state space is the sum of theirs, not the       *)
(* product.                                                                 *)
(***************************************************************************)
EXTENDS MitmSession, HttpParser, Scrubbing, IpRanges

(* Messages with up to two headers of any kind and a body of up to three    *)
(* bytes, line ends among them; with trailers and with chunks that end      *)
(* wrong; with request lines of up to seven units.                          *)
Message == [start |-> "start", padding |-> 0, headers |-> <<>>, chunks |-> <<>>,
            ending |-> CRLF, trailers |-> 0]

Bodies == {<<>>, <<<<"x", "cr">>>>, <<<<"x">>, <<"lf">>>>, <<<<"x", "x">>, <<"x">>>>}

Kinds == {"plain", "long", "bad", "chunked", "nan", "0", "2", "3"}

MCMessages ==
    {[Message EXCEPT !.headers = h, !.chunks = b] :
        h \in UNION {[1..n -> Kinds] : n \in 0..2}, b \in Bodies}
    \union {[Message EXCEPT !.headers = <<"chunked">>, !.chunks = b, !.ending = e, !.trailers = n] :
               b \in Bodies, e \in {CRLF, <<"cr", "x">>, <<"x">>}, n \in 0..2}
    \union {[Message EXCEPT !.start = s, !.padding = n] : s \in {"start", "wrong"}, n \in 0..6}

(* Secrets in a row, that overlap, or that are cut, and tokens at either    *)
(* side of the window's end.                                                *)
MCTexts == UNION {[1..n -> {"s", "t", "b", "x"}] : n \in 0..2}
           \union {<<"s", "s", "x", "s", "s">>, <<"s", "s", "s", "x", "t">>, <<"s", "s", "t">>,
                   <<"b", "x", "t">>, <<"b", "x", "x", "t">>, <<"x", "s", "t", "s", "s", "x">>}

VARIABLE part

dataVars == <<sessionVars, parserVars, scrubVars, rangesVars, part>>

(* A part that is not exercised starts in one of its initial states.        *)
Init == /\ part \in {"session", "parser", "scrubbing", "ranges"}
        /\ SessionInit
        /\ ParserInit /\ (part # "parser" => message = Message)
        /\ ScrubInit /\ (part # "scrubbing" => request = [text |-> <<>>, header |-> NoHeader])
        /\ RangesInit /\ (part # "ranges" => allowed = {} /\ excluded = {})

Next == /\ \/ part = "session" /\ SessionNext /\ UNCHANGED <<parserVars, scrubVars, rangesVars>>
           \/ part = "parser" /\ ParserNext /\ UNCHANGED <<sessionVars, scrubVars, rangesVars>>
           \/ part = "scrubbing" /\ ScrubNext /\ UNCHANGED <<sessionVars, parserVars, rangesVars>>
           \/ part = "ranges" /\ RangesNext /\ UNCHANGED <<sessionVars, parserVars, scrubVars>>
        /\ UNCHANGED part

(* The fairness of the session: outside its part it stands still.           *)
Spec == /\ Init /\ [][Next]_dataVars
        /\ WF_sessionVars(part = "session" /\ RequestTimeout)
        /\ WF_sessionVars(part = "session" /\ LimiterDecides)
        /\ WF_sessionVars(part = "session" /\ Upstream)
=============================================================================
