---------------------------- MODULE Data_proofs -----------------------------
(****************************************************************************)
(* What is read and what is decided about it: messages, for any lengths     *)
(* and in any pieces; a session that is intercepted, for any number of      *)
(* requests and of chunks; ranges of addresses, for any number of octets    *)
(* and of bits; what is logged, for texts of any length.                    *)
(****************************************************************************)
EXTENDS HttpParser, MitmSession, IpRanges, Scrubbing, ProofLemmas

(****************************************************************************)
(* Messages, as HttpRequestParser reads them.                               *)
(****************************************************************************)
(* The sequences of a sequence one after the other: after each, what there  *)
(* is so far.                                                               *)
Joined(seqs) == LET f[i \in 0 .. Len(seqs)] == IF i = 0 THEN <<>> ELSE f[i - 1] \o seqs[i] IN f

LEMMA JoinedIs ==
    ASSUME NEW S, NEW seqs \in Seq(Seq(S))
    PROVE  /\ Joined(seqs)[0] = <<>>
           /\ \A i \in 1 .. Len(seqs) : Joined(seqs)[i] = Joined(seqs)[i - 1] \o seqs[i]
           /\ \A i \in 0 .. Len(seqs) : Joined(seqs)[i] \in Seq(S)
           /\ FlattenSeq(seqs) = Joined(seqs)[Len(seqs)]
<1> DEFINE n == Len(seqs)
           Step(f, i) == IF i = 0 THEN <<>> ELSE f[i - 1] \o seqs[i]
           K(f) == f = [i \in 0 .. n |-> Step(f, i)]
           k == CHOOSE f : K(f)
<1>0. n \in Nat
  BY LenProperties
<1>1. PICK f : /\ f[0] = <<>> /\ \A i \in 1 .. n : f[i] = f[i - 1] \o seqs[i]
               /\ \A i \in 0 .. n : f[i] \in Seq(S)
               /\ FlattenSeq(seqs) = f[n]
  BY FlattenSeqIs
<1> HIDE DEF n
<1> DEFINE g == [i \in 0 .. n |-> f[i]]
<1>2. K(g)
  <2>1. ASSUME NEW i \in 0 .. n PROVE g[i] = Step(g, i)
    <3>1. CASE i = 0
      BY <1>1, <3>1
    <3>2. CASE i # 0
      <4>1. i \in 1 .. n /\ i - 1 \in 0 .. n
        BY <1>0, <3>2
      <4> QED BY <1>1, <3>2, <4>1
    <3> QED BY <3>1, <3>2
  <2>2. g = [i \in 0 .. n |-> g[i]]
    OBVIOUS
  <2> HIDE DEF g, Step
  <2> QED BY <2>1, <2>2
<1>3. K(k)
  <2> HIDE DEF K, g
  <2> QED BY <1>2
<1>4. Joined(seqs) = k
  BY Zenon DEF Joined, n
<1> HIDE DEF k
<1>5. \A i \in 0 .. n : k[i] = Step(k, i)
  BY <1>3
<1>6. k[0] = <<>> /\ \A i \in 1 .. n : k[i] = k[i - 1] \o seqs[i]
  <2>1. 0 \in 0 .. n /\ \A i \in 1 .. n : i \in 0 .. n /\ i # 0
    BY <1>0
  <2> QED BY <1>5, <2>1
<1> DEFINE X == [i \in 0 .. n |-> {f[i]}]
<1>7. \A i \in 0 .. n : k[i] \in X[i]
  <2>1. \A i \in 0 .. n : X[i] = {f[i]}
    OBVIOUS
  <2>2. 0 \in 0 .. n /\ \A i \in 1 .. n : i - 1 \in 0 .. n /\ i \in 0 .. n
    BY <1>0
  <2> HIDE DEF X
  <2>3. k[0] \in X[0]
    BY <1>1, <1>6, <2>1, <2>2
  <2>4. \A i \in 1 .. n : k[i - 1] \in X[i - 1] => k[i] \in X[i]
    <3> TAKE i \in 1 .. n
    <3>1. X[i - 1] = {f[i - 1]} /\ X[i] = {f[i]}
      BY <2>1, <2>2
    <3>2. k[i] = k[i - 1] \o seqs[i] /\ f[i] = f[i - 1] \o seqs[i]
      BY <1>1, <1>6
    <3> QED BY <3>1, <3>2
  <2> QED BY <1>0, <2>3, <2>4, Inherits
<1>8. \A i \in 0 .. n : k[i] = f[i]
  BY <1>7
<1> HIDE DEF X
<1>9. n \in 0 .. n
  BY <1>0
<1> QED BY <1>1, <1>4, <1>6, <1>8, <1>9 DEF n

-----------------------------------------------------------------------------
(* Where the parts of a message are: what its text has before each header,  *)
(* each chunk and each trailer.                                             *)
HeadParts(m) == [i \in DOMAIN m.headers |-> HeaderLine(m.headers[i])]
ChunkParts(m) == [i \in DOMAIN m.chunks |-> Chunk(m, i)]
TrailerParts(m) == [i \in 1 .. m.trailers |-> HeaderLine("plain")]

HeaderAt(m, i) == Len(RequestLine(m)) + Len(Joined(HeadParts(m))[i])
BodyAt(m) == HeaderAt(m, Len(m.headers)) + 2
ChunkAt(m, i) == BodyAt(m) + Len(Joined(ChunkParts(m))[i])
TrailerAt(m, i) == ChunkAt(m, Len(m.chunks)) + 3 + Len(Joined(TrailerParts(m))[i])

(* The buffer is what was written from a position on.                       *)
Buffered(p) == p \in 0 .. fed /\ buffer = SubSeq(Text(message), p + 1, fed)

(* The same of what a step leaves in the buffer.                            *)
Leaves(p) == p \in 0 .. fed' /\ buffer' = SubSeq(Text(message'), p + 1, fed')

(* What the first headers, up to i, say.                                    *)
Seen(m, i) ==
    /\ headers.chunked \in BOOLEAN
    /\ headers.chunked <=> \E j \in 1 .. i : m.headers[j] = "chunked"
    /\ \/ headers.length = "none" /\ \A j \in 1 .. i : ~IsLength(m.headers[j])
       \/ \E j \in 1 .. i : /\ headers.length = m.headers[j] /\ IsLength(m.headers[j])
                            /\ \A k \in 1 .. j - 1 : ~IsLength(m.headers[k])

(* A head with which nothing is wrong.                                      *)
HeadFits(m) ==
    /\ m.start = "start" /\ Len(HeaderLines(m)) <= MaxHeaderSize
    /\ \A j \in 1 .. Len(m.headers) : m.headers[j] # "bad"

(* Nothing is wrong with the chunks that end before the i-th.               *)
ChunksFit(m, i) ==
    /\ HeadFits(m) /\ Chunked(m)
    /\ Len(Joined(m.chunks)[i]) <= MaxBodySize
    /\ i # 0 => m.ending = CRLF

InHead(i) ==
    /\ Buffered(HeaderAt(message, i)) /\ Seen(message, i)
    /\ headers = [chunked |-> headers.chunked, length |-> headers.length]
    /\ message.start = "start" /\ rawHeaders = Len(Joined(HeadParts(message))[i])
    /\ rawHeaders <= MaxHeaderSize /\ body = <<>>
    /\ \A j \in 1 .. i : message.headers[j] # "bad"

InContent ==
    /\ HeadFits(message) /\ ~Chunked(message)
    /\ headers.length = Length(message) /\ headers.length \in ToSet(Digits)
    /\ Value(headers.length) <= MaxBodySize
    /\ Len(body) < Value(headers.length) /\ Len(body) \in 0 .. Len(Content(message))
    /\ body = SubSeq(Content(message), 1, Len(body))
    /\ Buffered(BodyAt(message) + Len(body))

BeforeChunk(i) ==
    /\ Buffered(ChunkAt(message, i)) /\ ChunksFit(message, i)
    /\ body = Joined(message.chunks)[i]

InChunk(i, k) ==
    /\ Buffered(ChunkAt(message, i - 1) + 3 + k) /\ ChunksFit(message, i - 1)
    /\ Len(Joined(message.chunks)[i]) <= MaxBodySize
    /\ chunkSize = Len(message.chunks[i]) - k
    /\ body = Joined(message.chunks)[i - 1] \o SubSeq(message.chunks[i], 1, k)

BeforeTrailer(i) ==
    /\ Buffered(TrailerAt(message, i)) /\ ChunksFit(message, Len(message.chunks))
    /\ body = Content(message)

AtStart == Buffered(0) /\ rawHeaders = 0 /\ headers = NoHeaders /\ body = <<>>

TakenAsMeant ==
    ~parsing /\ ~Wrong(message) /\ body = Meant(message) /\ Len(body) <= MaxBodySize

Refused == ~parsing /\ (Wrong(message) \/ message.padding + 1 >= MaxHeaderSize)

Located ==
    \/ parserState = "request-line" /\ AtStart
    \/ parserState = "headers" /\ \E i \in 0 .. Len(message.headers) : InHead(i)
    \/ parserState = "body-content-length" /\ InContent
    \/ parserState = "body-chunk-size" /\ \E i \in 0 .. Len(message.chunks) : BeforeChunk(i)
    \/ /\ parserState = "body-chunk-data"
       /\ \E i \in 1 .. Len(message.chunks) : \E k \in 0 .. Len(message.chunks[i]) : InChunk(i, k)
    \/ parserState = "body-chunk-trailer" /\ \E i \in 0 .. message.trailers : BeforeTrailer(i)
    \/ parserState = "complete" /\ TakenAsMeant
    \/ parserState = "error" /\ Refused

Waits ==
    \/ parserState \in {"complete", "error"} \/ buffer = <<>>
    \/ parserState # "body-content-length" /\ parserState # "body-chunk-data" /\ LineEnd = 0
    \/ parserState = "body-chunk-data" /\ chunkSize = 0 /\ Len(buffer) < 2

ParserInv ==
    /\ message \in Messages /\ fed \in 0 .. Len(Text(message)) /\ parsing \in BOOLEAN
    /\ Located /\ (~parsing => Waits)
-----------------------------------------------------------------------------
(* A sequence is at a position of another one.                              *)
At(t, p, s) ==
    /\ p \in Nat /\ Len(s) \in Nat /\ p + Len(s) <= Len(t)
    /\ \A j \in 1 .. Len(s) : t[p + j] = s[j]

LEMMA AtConcat ==
    ASSUME NEW S, NEW t \in Seq(S), NEW x \in Seq(S), NEW y \in Seq(S), NEW p, At(t, p, x \o y)
    PROVE  At(t, p, x) /\ At(t, p + Len(x), y)
<1> DEFINE n == Len(x)
           w == x \o y
<1>1. /\ n \in Nat /\ Len(y) \in Nat /\ Len(w) = n + Len(y)
      /\ \A i \in 1 .. n + Len(y) : w[i] = IF i <= n THEN x[i] ELSE y[i - n]
  BY ConcatProperties, LenProperties
<1>2. p \in Nat /\ p + Len(w) <= Len(t) /\ \A j \in 1 .. Len(w) : t[p + j] = w[j]
  BY DEF At
<1>3. Len(t) \in Nat
  BY LenProperties
<1> HIDE DEF w, n
<1>4. \A j \in 1 .. n : t[p + j] = x[j]
  <2> TAKE j \in 1 .. n
  <2>1. j \in 1 .. Len(w) /\ j \in 1 .. n + Len(y) /\ j <= n
    BY <1>1
  <2> QED BY <1>1, <1>2, <2>1
<1>5. \A j \in 1 .. Len(y) : t[(p + n) + j] = y[j]
  <2> TAKE j \in 1 .. Len(y)
  <2>1. n + j \in 1 .. Len(w) /\ ~(n + j <= n) /\ (n + j) - n = j /\ p + (n + j) = (p + n) + j
    BY <1>1, <1>2
  <2>2. t[p + (n + j)] = w[n + j]
    BY <1>2, <2>1
  <2>3. w[n + j] = y[(n + j) - n]
    BY <1>1, <2>1
  <2> QED BY <2>1, <2>2, <2>3
<1> QED BY <1>1, <1>2, <1>3, <1>4, <1>5 DEF At, n

LEMMA AtWhole ==
    ASSUME NEW S, NEW t \in Seq(S) PROVE At(t, 0, t)
<1>1. Len(t) \in Nat
  BY LenProperties
<1> QED BY <1>1 DEF At

(* The parts of what is joined are where the ones before them end.          *)
LEMMA AtJoined ==
    ASSUME NEW S, NEW t \in Seq(S), NEW seqs \in Seq(Seq(S)), NEW p,
           At(t, p, Joined(seqs)[Len(seqs)])
    PROVE  /\ \A i \in 0 .. Len(seqs) : At(t, p, Joined(seqs)[i])
           /\ \A i \in 1 .. Len(seqs) : At(t, p + Len(Joined(seqs)[i - 1]), seqs[i])
<1> DEFINE n == Len(seqs)
           f == Joined(seqs)
           T == {k \in Nat : k <= n => At(t, p, f[n - k])}
<1>0. n \in Nat /\ \A i \in 1 .. n : seqs[i] \in Seq(S) /\ i - 1 \in 0 .. n /\ i \in 0 .. n
  BY LenProperties
<1>1. (\A i \in 1 .. n : f[i] = f[i - 1] \o seqs[i]) /\ \A i \in 0 .. n : f[i] \in Seq(S)
  BY JoinedIs
<1> HIDE DEF n, f
<1>2. ASSUME NEW i \in 1 .. n, At(t, p, f[i])
      PROVE  At(t, p, f[i - 1]) /\ At(t, p + Len(f[i - 1]), seqs[i])
  <2> DEFINE x == f[i - 1]
             y == seqs[i]
  <2>1. x \in Seq(S) /\ y \in Seq(S)
    BY <1>0, <1>1
  <2>2. At(t, p, x \o y)
    BY <1>1, <1>2
  <2> HIDE DEF x, y
  <2>3. At(t, p, x) /\ At(t, p + Len(x), y)
    BY <2>1, <2>2, AtConcat
  <2> QED BY <2>3 DEF x, y
<1>3. 0 \in T
  <2>1. n - 0 = n
    BY <1>0
  <2> QED BY <2>1 DEF n, f
<1>4. ASSUME NEW k \in Nat, k \in T PROVE k + 1 \in T
  <2> SUFFICES ASSUME k + 1 <= n PROVE At(t, p, f[n - (k + 1)])
    OBVIOUS
  <2>1. n - k \in 1 .. n /\ n - (k + 1) = (n - k) - 1 /\ k <= n
    BY <1>0
  <2> QED BY <1>2, <1>4, <2>1
<1>5. Nat \subseteq T
  <2> HIDE DEF T
  <2> QED BY <1>3, <1>4, InductionOnNat
<1>6. \A i \in 0 .. n : At(t, p, f[i])
  <2> TAKE i \in 0 .. n
  <2>1. n - i \in Nat /\ n - i <= n /\ n - (n - i) = i
    BY <1>0
  <2> HIDE DEF T
  <2>2. n - i \in T
    BY <1>5, <2>1
  <2> QED BY <2>1, <2>2 DEF T
<1>7. \A i \in 1 .. n : At(t, p + Len(f[i - 1]), seqs[i])
  BY <1>0, <1>2, <1>6
<1> QED BY <1>6, <1>7 DEF n, f

(* What is buffered of a sequence from p on, up to f.                       *)
LEMMA BufferIs ==
    ASSUME NEW S, NEW t \in Seq(S), NEW f \in 0 .. Len(t), NEW p \in 0 .. f, NEW b,
           b = SubSeq(t, p + 1, f)
    PROVE  /\ b \in Seq(S) /\ Len(b) = f - p
           /\ \A j \in 1 .. f - p : b[j] = t[p + j]
<1>0. Len(t) \in Nat /\ f \in Nat /\ p \in Nat /\ f <= Len(t) /\ p <= f
  BY LenProperties
<1>1. p + 1 \in Int /\ f \in Int /\ \A i \in p + 1 .. f : t[i] \in S
  BY <1>0, ElementOfSeq
<1>2. /\ b \in Seq(S) /\ Len(b) = (IF p + 1 <= f THEN f - (p + 1) + 1 ELSE 0)
      /\ \A i \in 1 .. f - (p + 1) + 1 : b[i] = t[(p + 1) + i - 1]
  BY <1>1, SubSeqProperties
<1>3. f - (p + 1) + 1 = f - p /\ \A i \in 1 .. f - p : (p + 1) + i - 1 = p + i
  BY <1>0
<1> QED BY <1>0, <1>2, <1>3

(* What is left of it without its first k.                                  *)
LEMMA BufferLeft ==
    ASSUME NEW S, NEW t \in Seq(S), NEW f \in 0 .. Len(t), NEW p \in 0 .. f, NEW b,
           b = SubSeq(t, p + 1, f), NEW k \in 0 .. f - p
    PROVE  SubSeq(b, k + 1, Len(b)) = SubSeq(t, (p + k) + 1, f)
<1> DEFINE c == SubSeq(b, k + 1, Len(b))
           d == SubSeq(t, (p + k) + 1, f)
<1>0. Len(t) \in Nat /\ f \in Nat /\ p \in Nat /\ k \in Nat /\ f <= Len(t) /\ p + k <= f
  BY LenProperties
<1>1. b \in Seq(S) /\ Len(b) = f - p /\ \A j \in 1 .. f - p : b[j] = t[p + j]
  BY BufferIs
<1>2. d \in Seq(S) /\ Len(d) = f - (p + k) /\ \A j \in 1 .. f - (p + k) : d[j] = t[(p + k) + j]
  <2>1. p + k \in 0 .. f
    BY <1>0
  <2> QED BY <2>1, BufferIs
<1>3. c \in Seq(S) /\ Len(c) = Len(b) - k /\ \A j \in 1 .. Len(b) - k : c[j] = b[k + j]
  <2> DEFINE m == Len(b)
  <2>1. m \in 0 .. Len(b) /\ k \in 0 .. m
    BY <1>0, <1>1
  <2>2. c = SubSeq(b, k + 1, m)
    OBVIOUS
  <2> HIDE DEF c, m
  <2>3. c \in Seq(S) /\ Len(c) = m - k /\ \A j \in 1 .. m - k : c[j] = b[k + j]
    BY <1>1, <2>1, <2>2, BufferIs
  <2> QED BY <2>3 DEF m
<1> HIDE DEF c, d
<1>4. Len(c) = Len(d)
  BY <1>0, <1>1, <1>2, <1>3
<1>5. ASSUME NEW j \in 1 .. Len(c) PROVE c[j] = d[j]
  <2>1. j \in 1 .. Len(b) - k /\ k + j \in 1 .. f - p /\ j \in 1 .. f - (p + k) /\ p + (k + j) = (p + k) + j
    BY <1>0, <1>1, <1>3
  <2>2. c[j] = b[k + j] /\ b[k + j] = t[p + (k + j)] /\ d[j] = t[(p + k) + j]
    BY <1>1, <1>2, <1>3, <2>1
  <2> QED BY <2>1, <2>2
<1>6. c = d
  BY <1>2, <1>3, <1>4, <1>5, SeqEqual
<1> QED BY <1>6 DEF c, d

(* A sequence begins with another one that it has the elements of.          *)
LEMMA BufferFirst ==
    ASSUME NEW S, NEW b \in Seq(S), NEW s \in Seq(S), Len(s) <= Len(b),
           \A j \in 1 .. Len(s) : b[j] = s[j]
    PROVE  SubSeq(b, 1, Len(s)) = s
<1> DEFINE k == Len(s)
           c == SubSeq(b, 0 + 1, k)
<1>1. k \in Nat /\ Len(b) \in Nat
  BY LenProperties
<1>2. c \in Seq(S) /\ Len(c) = k /\ \A j \in 1 .. k : c[j] = b[j]
  <2>1. k \in 0 .. Len(b) /\ 0 \in 0 .. k /\ k - 0 = k /\ \A j \in 1 .. k : 0 + j = j
    BY <1>1
  <2>2. c = SubSeq(b, 0 + 1, k)
    OBVIOUS
  <2> HIDE DEF c, k
  <2>3. c \in Seq(S) /\ Len(c) = k - 0 /\ \A j \in 1 .. k - 0 : c[j] = b[0 + j]
    BY <2>1, <2>2, BufferIs
  <2> QED BY <2>1, <2>3
<1> HIDE DEF c
<1>3. c = s
  BY <1>2, SeqEqual
<1>4. 0 + 1 = 1
  OBVIOUS
<1> QED BY <1>3, <1>4 DEF c

-----------------------------------------------------------------------------
(* What a message is written with, and its parts.                           *)
Units == STRING \union {"cr", "lf", "x", "0", "1", "2", "3", "4", "plain", "long", "bad",
                        "chunked", "nan"}

HeaderKinds == Other \union {"chunked", "nan"} \union ToSet(Digits)

StartLine(m) == <<m.start>> \o [i \in 1 .. m.padding |-> "x"]
HeaderName(h) == IF h = "long" THEN <<h, "x", "x", "x", "x", "x">> ELSE <<h>>

(* A line, without its end.                                                 *)
IsLine(s) == s \in Seq(Units) /\ \A j \in 1 .. Len(s) : s[j] # "lf"

LEMMA CrlfIs == CRLF \in Seq(Units) /\ Len(CRLF) = 2 /\ CRLF[1] = "cr" /\ CRLF[2] = "lf"
BY DEF CRLF, Units

LEMMA DigitsAre ==
    /\ \A n \in 0 .. 4 : /\ Digits[n + 1] \in Units /\ Digits[n + 1] \notin {"cr", "lf"}
                         /\ Digits[n + 1] \in ToSet(Digits) /\ Value(Digits[n + 1]) = n
    /\ \A d \in ToSet(Digits) : \E n \in 0 .. 4 : d = Digits[n + 1]
    /\ Digits[0 + 1] = "0" /\ Value("0") = 0
<1>1. DOMAIN Digits = 1 .. 5
  BY DEF Digits
<1>2. ASSUME NEW n \in 0 .. 4
      PROVE  /\ Digits[n + 1] \in Units /\ Digits[n + 1] \notin {"cr", "lf"}
             /\ Digits[n + 1] \in ToSet(Digits) /\ Value(Digits[n + 1]) = n
  <2>1. \A k \in 0 .. 4 : Digits[k + 1] = Digits[n + 1] => k = n
    BY DEF Digits
  <2>2. Value(Digits[n + 1]) = n
    BY <2>1 DEF Value
  <2>3. n + 1 \in DOMAIN Digits
    BY <1>1
  <2>4. Digits[n + 1] \in ToSet(Digits)
    BY <2>3 DEF ToSet
  <2>5. Digits[n + 1] \in Units /\ Digits[n + 1] \notin {"cr", "lf"}
    BY DEF Digits, Units
  <2> QED BY <2>2, <2>4, <2>5
<1>3. ASSUME NEW d \in ToSet(Digits) PROVE \E n \in 0 .. 4 : d = Digits[n + 1]
  <2>1. PICK i \in 1 .. 5 : d = Digits[i]
    BY <1>1 DEF ToSet
  <2>2. i - 1 \in 0 .. 4 /\ (i - 1) + 1 = i
    OBVIOUS
  <2> QED BY <2>1, <2>2
<1>4. 0 \in 0 .. 4
  OBVIOUS
<1>5. Digits[0 + 1] = "0"
  BY DEF Digits
<1>6. Value("0") = 0
  BY <1>2, <1>4, <1>5
<1> QED BY <1>2, <1>3, <1>5, <1>6

(* The first line.                                                          *)
LEMMA StartLineIs ==
    ASSUME NEW m, IsMessage(m)
    PROVE  /\ IsLine(StartLine(m)) /\ Len(StartLine(m)) = m.padding + 1
           /\ StartLine(m)[1] = m.start /\ StartLine(m) # <<>>
           /\ RequestLine(m) = StartLine(m) \o CRLF
<1> DEFINE a == <<m.start>>
           b == [i \in 1 .. m.padding |-> "x"]
           s == a \o b
<1>1. m.start \in STRING /\ m.start # "lf" /\ m.padding \in Nat
  BY DEF IsMessage
<1>2. a \in Seq(Units) /\ Len(a) = 1 /\ a[1] = m.start
  <2>1. m.start \in Units
    BY <1>1 DEF Units
  <2> QED BY <2>1
<1>3. b \in Seq(Units) /\ Len(b) = m.padding /\ \A i \in 1 .. m.padding : b[i] = "x"
  BY <1>1 DEF Units
<1> HIDE DEF a, b
<1>4. /\ s \in Seq(Units) /\ Len(s) = Len(a) + Len(b)
      /\ \A i \in 1 .. Len(a) + Len(b) : s[i] = IF i <= Len(a) THEN a[i] ELSE b[i - Len(a)]
  BY <1>2, <1>3, ConcatProperties
<1> HIDE DEF s
<1>5. Len(s) = m.padding + 1 /\ s[1] = m.start
  BY <1>1, <1>2, <1>3, <1>4
<1>6. \A j \in 1 .. Len(s) : s[j] # "lf"
  <2> TAKE j \in 1 .. Len(s)
  <2>1. CASE j = 1
    BY <1>1, <1>5, <2>1
  <2>2. CASE j # 1
    <3>1. j - 1 \in 1 .. m.padding /\ ~(j <= 1) /\ j \in 1 .. 1 + m.padding
      BY <1>1, <1>5, <2>2
    <3>2. s[j] = b[j - 1]
      BY <1>2, <1>3, <1>4, <3>1
    <3> QED BY <1>3, <3>1, <3>2
  <2> QED BY <2>1, <2>2
<1>7. s # <<>>
  <2>1. Len(s) # 0
    BY <1>1, <1>5
  <2> QED BY <2>1, EmptySeq
<1>8. StartLine(m) = s
  BY DEF StartLine, s, a, b
<1>9. RequestLine(m) = StartLine(m) \o CRLF
  BY DEF RequestLine, StartLine
<1> QED BY <1>4, <1>5, <1>6, <1>7, <1>8, <1>9 DEF IsLine

(* The line of a header.                                                    *)
LEMMA HeaderLineIs ==
    ASSUME NEW h \in HeaderKinds
    PROVE  /\ IsLine(HeaderName(h)) /\ Len(HeaderName(h)) \in Nat \ {0} /\ HeaderName(h)[1] = h
           /\ HeaderLine(h) = HeaderName(h) \o CRLF
           /\ HeaderLine(h) \in Seq(Units) /\ Len(HeaderLine(h)) = Len(HeaderName(h)) + 2
           /\ h = "plain" => Len(HeaderName(h)) = 1
<1>0. h \in Units /\ h # "lf"
  <2>1. CASE h \in ToSet(Digits)
    BY <2>1, DigitsAre
  <2>2. CASE h \in Other \union {"chunked", "nan"}
    BY <2>2 DEF Other, Units
  <2> QED BY <2>1, <2>2 DEF HeaderKinds
<1>1. /\ IsLine(HeaderName(h)) /\ Len(HeaderName(h)) \in Nat \ {0} /\ HeaderName(h)[1] = h
      /\ h = "plain" => Len(HeaderName(h)) = 1
  <2>1. CASE h = "long"
    <3> DEFINE s == <<h, "x", "x", "x", "x", "x">>
    <3>1. "x" \in Units
      BY DEF Units
    <3>2. s \in Seq(Units) /\ Len(s) = 6 /\ s[1] = h
      BY <1>0, <3>1
    <3>3. \A j \in 1 .. 6 : s[j] # "lf"
      BY <1>0
    <3>4. HeaderName(h) = s
      BY <2>1 DEF HeaderName
    <3> HIDE DEF s
    <3> QED BY <2>1, <3>2, <3>3, <3>4 DEF IsLine
  <2>2. CASE h # "long"
    <3> DEFINE s == <<h>>
    <3>1. s \in Seq(Units) /\ Len(s) = 1 /\ s[1] = h
      BY <1>0
    <3>2. HeaderName(h) = s
      BY <2>2 DEF HeaderName
    <3>3. \A j \in 1 .. Len(s) : s[j] # "lf"
      BY <1>0
    <3> HIDE DEF s
    <3>4. IsLine(s) /\ Len(s) \in Nat \ {0} /\ (h = "plain" => Len(s) = 1)
      BY <3>1, <3>3 DEF IsLine
    <3> QED BY <3>1, <3>2, <3>4
  <2> QED BY <2>1, <2>2
<1>2. HeaderLine(h) = HeaderName(h) \o CRLF
  BY DEF HeaderLine, HeaderName
<1>3. HeaderName(h) \o CRLF \in Seq(Units) /\ Len(HeaderName(h) \o CRLF) = Len(HeaderName(h)) + 2
  <2> DEFINE s == HeaderName(h)
             e == CRLF
  <2>1. s \in Seq(Units) /\ e \in Seq(Units) /\ Len(e) = 2
    BY <1>1, CrlfIs DEF IsLine
  <2> HIDE DEF s, e
  <2>3. s \o e \in Seq(Units)
    BY <2>1, ConcatProperties
  <2>4. Len(s \o e) = Len(s) + Len(e)
    BY <2>1, ConcatProperties
  <2>2. s \o e \in Seq(Units) /\ Len(s \o e) = Len(s) + 2
    BY <2>1, <2>3, <2>4
  <2> QED BY <2>2 DEF s, e
<1> QED BY <1>1, <1>2, <1>3

-----------------------------------------------------------------------------
LEMMA UnitsInclude ==
    ASSUME NEW s \in Seq(STRING) PROVE s \in Seq(Units)
BY DEF Units

(* The parts, as sequences.                                                 *)
LEMMA PartsAre ==
    ASSUME NEW m, IsMessage(m)
    PROVE  /\ m.headers \in Seq(HeaderKinds) /\ Len(m.headers) \in Nat
           /\ \A i \in 1 .. Len(m.headers) : m.headers[i] \in HeaderKinds
           /\ HeadParts(m) \in Seq(Seq(Units)) /\ Len(HeadParts(m)) = Len(m.headers)
           /\ \A i \in 1 .. Len(m.headers) : HeadParts(m)[i] = HeaderLine(m.headers[i])
           /\ HeaderLines(m) = Joined(HeadParts(m))[Len(m.headers)]
           /\ HeaderLines(m) \in Seq(Units)
<1>1. m.headers \in Seq(HeaderKinds)
  BY DEF IsMessage, HeaderKinds
<1>2. Len(m.headers) \in Nat /\ DOMAIN m.headers = 1 .. Len(m.headers)
      /\ \A i \in 1 .. Len(m.headers) : m.headers[i] \in HeaderKinds
  BY <1>1, LenProperties, ElementOfSeq
<1>3. \A i \in 1 .. Len(m.headers) : HeaderLine(m.headers[i]) \in Seq(Units)
  BY <1>2, HeaderLineIs
<1>4. /\ HeadParts(m) \in Seq(Seq(Units)) /\ Len(HeadParts(m)) = Len(m.headers)
      /\ \A i \in 1 .. Len(m.headers) : HeadParts(m)[i] = HeaderLine(m.headers[i])
  <2> DEFINE n == Len(m.headers)
             h == [i \in 1 .. n |-> HeaderLine(m.headers[i])]
  <2>1. HeadParts(m) = h
    BY <1>2 DEF HeadParts
  <2>2. n \in Nat
    BY <1>2
  <2>3. \A i \in 1 .. n : h[i] = HeaderLine(m.headers[i])
    OBVIOUS
  <2>4. h \in [1 .. n -> Seq(Units)]
    BY <1>3
  <2> HIDE DEF n, h
  <2>5. h \in Seq(Seq(Units)) /\ Len(h) = n
    BY <2>2, <2>4
  <2> QED BY <2>1, <2>3, <2>5 DEF n
<1>5. HeaderLines(m) = FlattenSeq(HeadParts(m))
  BY DEF HeaderLines, HeadParts
<1>6. /\ FlattenSeq(HeadParts(m)) = Joined(HeadParts(m))[Len(HeadParts(m))]
      /\ Joined(HeadParts(m))[Len(HeadParts(m))] \in Seq(Units)
  <2> DEFINE h == HeadParts(m)
             k == Len(h)
  <2>1. h \in Seq(Seq(Units)) /\ k = Len(m.headers)
    BY <1>4
  <2>2. k \in 0 .. Len(h)
    BY <1>2, <2>1
  <2> HIDE DEF h
  <2>3. FlattenSeq(h) = Joined(h)[Len(h)] /\ \A i \in 0 .. Len(h) : Joined(h)[i] \in Seq(Units)
    BY <2>1, JoinedIs
  <2>4. FlattenSeq(h) = Joined(h)[Len(h)] /\ Joined(h)[Len(h)] \in Seq(Units)
    BY <2>2, <2>3
  <2> QED BY <2>4 DEF h
<1> QED BY <1>1, <1>2, <1>4, <1>5, <1>6

(* Each part of the body, written as a chunk.                               *)
LEMMA ChunkIs ==
    ASSUME NEW m, IsMessage(m), NEW i \in 1 .. Len(m.chunks)
    PROVE  /\ m.chunks[i] \in Seq(Units) /\ Len(m.chunks[i]) \in 1 .. 4
           /\ m.ending \in Seq(Units) /\ Len(m.ending) \in Nat
           /\ Chunk(m, i) \in Seq(Units)
           /\ Len(Chunk(m, i)) = 3 + Len(m.chunks[i]) + Len(m.ending)
           /\ <<Digits[Len(m.chunks[i]) + 1]>> \o CRLF \in Seq(Units)
           /\ Len(<<Digits[Len(m.chunks[i]) + 1]>> \o CRLF) = 3
           /\ (<<Digits[Len(m.chunks[i]) + 1]>> \o CRLF) \o m.chunks[i] \in Seq(Units)
           /\ Len((<<Digits[Len(m.chunks[i]) + 1]>> \o CRLF) \o m.chunks[i]) = 3 + Len(m.chunks[i])
<1> DEFINE s == m.chunks[i]
           d == Digits[Len(s) + 1]
           e == m.ending
           x == <<d>>
           c == CRLF
<1>1. m.chunks \in Seq(Seq(STRING)) /\ Len(m.chunks) \in Nat /\ DOMAIN m.chunks = 1 .. Len(m.chunks)
  BY LenProperties DEF IsMessage
<1>2. s \in Seq(STRING) /\ Len(s) \in 1 .. 4
  BY <1>1, ElementOfSeq DEF IsMessage
<1>3. s \in Seq(Units)
  BY <1>2, UnitsInclude
<1>4. e \in Seq(Units) /\ Len(e) \in Nat
  <2>1. e \in Seq(STRING)
    BY DEF IsMessage
  <2>2. Len(e) \in Nat
    BY <2>1, LenProperties
  <2> QED BY <2>1, <2>2, UnitsInclude
<1>5. d \in Units
  <2> DEFINE n == Len(s)
  <2>1. n \in 0 .. 4
    BY <1>2
  <2> HIDE DEF n
  <2>2. Digits[n + 1] \in Units
    BY <2>1, DigitsAre
  <2> QED BY <2>2 DEF n
<1>6. x \in Seq(Units) /\ Len(x) = 1
  BY <1>5
<1>7. c \in Seq(Units) /\ Len(c) = 2
  BY CrlfIs
<1>8. Chunk(m, i) = ((x \o c) \o s) \o e
  BY DEF Chunk
<1> HIDE DEF s, d, e, x, c
<1>9. x \o c \in Seq(Units) /\ Len(x \o c) = 3
  <2>1. x \o c \in Seq(Units)
    BY <1>6, <1>7, ConcatProperties
  <2>2. Len(x \o c) = Len(x) + Len(c)
    BY <1>6, <1>7, ConcatProperties
  <2> QED BY <1>6, <1>7, <2>1, <2>2
<1>10. (x \o c) \o s \in Seq(Units) /\ Len((x \o c) \o s) = 3 + Len(s)
  <2> DEFINE y == x \o c
  <2>0. y \in Seq(Units) /\ Len(y) = 3
    BY <1>9
  <2> HIDE DEF y
  <2>1. y \o s \in Seq(Units)
    BY <1>3, <2>0, ConcatProperties
  <2>2. Len(y \o s) = Len(y) + Len(s)
    BY <1>3, <2>0, ConcatProperties
  <2>3. y \o s \in Seq(Units) /\ Len(y \o s) = 3 + Len(s)
    BY <2>0, <2>1, <2>2
  <2> QED BY <2>3 DEF y
<1>11. Chunk(m, i) \in Seq(Units) /\ Len(Chunk(m, i)) = 3 + Len(s) + Len(e)
  <2> DEFINE y == (x \o c) \o s
  <2>0. y \in Seq(Units) /\ Len(y) = 3 + Len(s) /\ Chunk(m, i) = y \o e
    BY <1>8, <1>10
  <2> HIDE DEF y
  <2>1. y \o e \in Seq(Units)
    BY <1>4, <2>0, ConcatProperties
  <2>2. Len(y \o e) = Len(y) + Len(e)
    BY <1>4, <2>0, ConcatProperties
  <2> QED BY <2>0, <2>1, <2>2
<1> QED BY <1>2, <1>3, <1>4, <1>9, <1>10, <1>11 DEF s, d, e, x, c

LEMMA BodyPartsAre ==
    ASSUME NEW m, IsMessage(m)
    PROVE  /\ m.chunks \in Seq(Seq(Units)) /\ Len(m.chunks) \in Nat
           /\ Content(m) = Joined(m.chunks)[Len(m.chunks)] /\ Content(m) \in Seq(Units)
           /\ ChunkParts(m) \in Seq(Seq(Units)) /\ Len(ChunkParts(m)) = Len(m.chunks)
           /\ \A i \in 1 .. Len(m.chunks) : ChunkParts(m)[i] = Chunk(m, i)
           /\ TrailerParts(m) \in Seq(Seq(Units)) /\ Len(TrailerParts(m)) = m.trailers
           /\ m.trailers \in Nat
           /\ \A i \in 1 .. m.trailers : TrailerParts(m)[i] = HeaderLine("plain")
<1> DEFINE c == Len(m.chunks)
<1>1. c \in Nat /\ DOMAIN m.chunks = 1 .. c /\ m.chunks = [i \in 1 .. c |-> m.chunks[i]]
  BY LenProperties DEF IsMessage
<1>2. m.chunks \in Seq(Seq(Units))
  <2>1. \A i \in 1 .. c : m.chunks[i] \in Seq(Units)
    BY ChunkIs
  <2> DEFINE f == m.chunks
  <2>2. f = [i \in 1 .. c |-> f[i]] /\ \A i \in 1 .. c : f[i] \in Seq(Units)
    BY <1>1, <2>1
  <2> HIDE DEF f, c
  <2>3. f \in [1 .. c -> Seq(Units)]
    BY <2>2
  <2>4. f \in Seq(Seq(Units))
    BY <1>1, <2>3
  <2> QED BY <2>4 DEF f
<1>3. Content(m) = Joined(m.chunks)[c] /\ Joined(m.chunks)[c] \in Seq(Units)
  <2> DEFINE f == m.chunks
  <2>1. f \in Seq(Seq(Units)) /\ c \in 0 .. Len(f) /\ c = Len(f)
    BY <1>1, <1>2
  <2> HIDE DEF f, c
  <2>2. FlattenSeq(f) = Joined(f)[c] /\ Joined(f)[c] \in Seq(Units)
    BY <2>1, JoinedIs
  <2> QED BY <2>2 DEF f, Content
<1>4. /\ ChunkParts(m) \in Seq(Seq(Units)) /\ Len(ChunkParts(m)) = c
      /\ \A i \in 1 .. c : ChunkParts(m)[i] = Chunk(m, i)
  <2> DEFINE h == [i \in 1 .. c |-> Chunk(m, i)]
  <2>1. ChunkParts(m) = h
    BY <1>1 DEF ChunkParts
  <2>2. \A i \in 1 .. c : Chunk(m, i) \in Seq(Units)
    BY ChunkIs
  <2>3. h \in [1 .. c -> Seq(Units)] /\ \A i \in 1 .. c : h[i] = Chunk(m, i)
    BY <2>2
  <2> HIDE DEF c, h
  <2>4. h \in Seq(Seq(Units)) /\ Len(h) = c
    BY <1>1, <2>3
  <2> QED BY <2>1, <2>3, <2>4
<1>5. /\ TrailerParts(m) \in Seq(Seq(Units)) /\ Len(TrailerParts(m)) = m.trailers
      /\ m.trailers \in Nat
      /\ \A i \in 1 .. m.trailers : TrailerParts(m)[i] = HeaderLine("plain")
  <2> DEFINE n == m.trailers
             h == [i \in 1 .. n |-> HeaderLine("plain")]
  <2>1. TrailerParts(m) = h
    BY DEF TrailerParts
  <2>2. n \in Nat
    BY DEF IsMessage
  <2>3. HeaderLine("plain") \in Seq(Units)
    <3>1. "plain" \in HeaderKinds
      BY DEF HeaderKinds, Other
    <3> QED BY <3>1, HeaderLineIs
  <2>4. h \in [1 .. n -> Seq(Units)] /\ \A i \in 1 .. n : h[i] = HeaderLine("plain")
    BY <2>3
  <2> HIDE DEF n, h
  <2>5. h \in Seq(Seq(Units)) /\ Len(h) = n
    BY <2>2, <2>4
  <2> QED BY <2>1, <2>2, <2>4, <2>5 DEF n
<1> QED BY <1>1, <1>2, <1>3, <1>4, <1>5

-----------------------------------------------------------------------------
(* How long what is joined gets.                                            *)
LEMMA JoinedLengths ==
    ASSUME NEW S, NEW seqs \in Seq(Seq(S))
    PROVE  /\ Len(Joined(seqs)[0]) = 0
           /\ \A i \in 0 .. Len(seqs) : Len(Joined(seqs)[i]) \in Nat
           /\ \A i \in 1 .. Len(seqs) :
                 Len(seqs[i]) \in Nat /\ Len(Joined(seqs)[i]) = Len(Joined(seqs)[i - 1]) + Len(seqs[i])
           /\ \A i \in 0 .. Len(seqs) : Len(Joined(seqs)[i]) <= Len(Joined(seqs)[Len(seqs)])
<1> DEFINE f == Joined(seqs)
           n == Len(seqs)
           t == f[n]
<1>0. n \in Nat /\ \A i \in 1 .. n : seqs[i] \in Seq(S) /\ i - 1 \in 0 .. n /\ i \in 0 .. n
  BY LenProperties
<1>1. /\ f[0] = <<>> /\ \A i \in 1 .. n : f[i] = f[i - 1] \o seqs[i]
      /\ \A i \in 0 .. n : f[i] \in Seq(S)
  BY JoinedIs
<1>2. t \in Seq(S)
  <2>1. n \in 0 .. n
    BY <1>0
  <2> QED BY <1>1, <2>1
<1>3. At(t, 0, t)
  <2> HIDE DEF t
  <2> QED BY <1>2, AtWhole
<1>4. \A i \in 0 .. n : At(t, 0, f[i])
  <2>1. At(t, 0, Joined(seqs)[Len(seqs)])
    BY <1>3
  <2>2. \A i \in 0 .. Len(seqs) : At(t, 0, Joined(seqs)[i])
    <3> HIDE DEF t
    <3> QED BY <1>2, <2>1, AtJoined
  <2> QED BY <2>2
<1> HIDE DEF f, n, t
<1>5. Len(f[0]) = 0
  BY <1>1, EmptySeq
<1>6. \A i \in 0 .. n : Len(f[i]) \in Nat /\ Len(f[i]) <= Len(t)
  <2> TAKE i \in 0 .. n
  <2>1. Len(t) \in Nat /\ Len(f[i]) \in Nat
    BY <1>1, <1>2, LenProperties
  <2>2. 0 + Len(f[i]) <= Len(t)
    BY <1>4 DEF At
  <2> QED BY <2>1, <2>2
<1>7. \A i \in 1 .. n : Len(seqs[i]) \in Nat /\ Len(f[i]) = Len(f[i - 1]) + Len(seqs[i])
  <2> TAKE i \in 1 .. n
  <2>1. f[i - 1] \in Seq(S) /\ seqs[i] \in Seq(S)
    BY <1>0, <1>1
  <2>2. Len(f[i - 1] \o seqs[i]) = Len(f[i - 1]) + Len(seqs[i])
    BY <2>1, ConcatProperties
  <2>3. Len(seqs[i]) \in Nat
    BY <2>1, LenProperties
  <2> QED BY <1>1, <2>2, <2>3
<1> QED BY <1>5, <1>6, <1>7 DEF f, n, t

(* How the body is written in chunks.                                       *)
LastChunk == <<"0">> \o CRLF

ChunkedBody(m) ==
    Joined(ChunkParts(m))[Len(m.chunks)] \o <<"0">> \o CRLF
    \o Joined(TrailerParts(m))[m.trailers] \o CRLF

Body(m) == IF Chunked(m) THEN ChunkedBody(m) ELSE Content(m)

LEMMA JoinedParts ==
    ASSUME NEW m, IsMessage(m)
    PROVE  /\ FlattenSeq(ChunkParts(m)) = Joined(ChunkParts(m))[Len(m.chunks)]
           /\ Joined(ChunkParts(m))[Len(m.chunks)] \in Seq(Units)
           /\ FlattenSeq(TrailerParts(m)) = Joined(TrailerParts(m))[m.trailers]
           /\ Joined(TrailerParts(m))[m.trailers] \in Seq(Units)
<1> DEFINE a == ChunkParts(m)
           b == TrailerParts(m)
<1>1. /\ a \in Seq(Seq(Units)) /\ b \in Seq(Seq(Units))
      /\ Len(m.chunks) = Len(a) /\ m.trailers = Len(b)
  BY BodyPartsAre
<1> HIDE DEF a, b
<1>2. /\ FlattenSeq(a) = Joined(a)[Len(a)] /\ Len(a) \in 0 .. Len(a)
      /\ \A i \in 0 .. Len(a) : Joined(a)[i] \in Seq(Units)
  <2>1. Len(a) \in Nat
    BY <1>1, LenProperties
  <2>2. Len(a) \in 0 .. Len(a)
    BY <2>1
  <2>3. FlattenSeq(a) = Joined(a)[Len(a)]
    BY <1>1, JoinedIs
  <2>4. \A i \in 0 .. Len(a) : Joined(a)[i] \in Seq(Units)
    BY <1>1, JoinedIs
  <2> QED BY <2>2, <2>3, <2>4
<1>3. /\ FlattenSeq(b) = Joined(b)[Len(b)] /\ Len(b) \in 0 .. Len(b)
      /\ \A i \in 0 .. Len(b) : Joined(b)[i] \in Seq(Units)
  <2>1. Len(b) \in Nat
    BY <1>1, LenProperties
  <2>2. Len(b) \in 0 .. Len(b)
    BY <2>1
  <2>3. FlattenSeq(b) = Joined(b)[Len(b)]
    BY <1>1, JoinedIs
  <2>4. \A i \in 0 .. Len(b) : Joined(b)[i] \in Seq(Units)
    BY <1>1, JoinedIs
  <2> QED BY <2>2, <2>3, <2>4
<1>4. Joined(a)[Len(a)] \in Seq(Units) /\ Joined(b)[Len(b)] \in Seq(Units)
  BY <1>2, <1>3
<1>5. /\ FlattenSeq(a) = Joined(a)[Len(m.chunks)] /\ Joined(a)[Len(m.chunks)] \in Seq(Units)
      /\ FlattenSeq(b) = Joined(b)[m.trailers] /\ Joined(b)[m.trailers] \in Seq(Units)
  BY <1>1, <1>2, <1>3, <1>4
<1> QED BY <1>5 DEF a, b

LEMMA LastChunkIs == LastChunk \in Seq(Units) /\ Len(LastChunk) = 3 /\ <<"0">> \in Seq(Units)
<1> DEFINE x == <<"0">>
           c == CRLF
<1>1. x \in Seq(Units) /\ Len(x) = 1
  BY DEF Units
<1>2. c \in Seq(Units) /\ Len(c) = 2
  BY CrlfIs
<1> HIDE DEF x, c
<1>3. x \o c \in Seq(Units)
  BY <1>1, <1>2, ConcatProperties
<1>4. Len(x \o c) = Len(x) + Len(c)
  BY <1>1, <1>2, ConcatProperties
<1>5. x \o c \in Seq(Units) /\ Len(x \o c) = 3
  BY <1>1, <1>2, <1>3, <1>4
<1> QED BY <1>1, <1>5 DEF x, c, LastChunk

LEMMA ConcatIs ==
    ASSUME NEW S, NEW x \in Seq(S), NEW y \in Seq(S)
    PROVE  x \o y \in Seq(S) /\ Len(x \o y) = Len(x) + Len(y) /\ Len(x) \in Nat /\ Len(y) \in Nat
<1>1. x \o y \in Seq(S)
  BY ConcatProperties
<1>2. Len(x \o y) = Len(x) + Len(y)
  BY ConcatProperties
<1>3. Len(x) \in Nat /\ Len(y) \in Nat
  BY LenProperties
<1> QED BY <1>1, <1>2, <1>3

LEMMA BodyIs ==
    ASSUME NEW m, IsMessage(m)
    PROVE  /\ Body(m) \in Seq(Units)
           /\ Text(m) = RequestLine(m) \o HeaderLines(m) \o CRLF \o Body(m)
           /\ Chunked(m) =>
                 /\ Body(m) = (Joined(ChunkParts(m))[Len(m.chunks)] \o LastChunk)
                              \o Joined(TrailerParts(m))[m.trailers] \o CRLF
                 /\ Len(Body(m)) = Len(Joined(ChunkParts(m))[Len(m.chunks)]) + 3
                                   + Len(Joined(TrailerParts(m))[m.trailers]) + 2
<1> DEFINE a == Joined(ChunkParts(m))[Len(m.chunks)]
           b == Joined(TrailerParts(m))[m.trailers]
           z == <<"0">>
           c == CRLF
           l == LastChunk
<1>1. /\ a \in Seq(Units) /\ b \in Seq(Units) /\ z \in Seq(Units) /\ c \in Seq(Units)
      /\ l \in Seq(Units) /\ Len(l) = 3 /\ Len(c) = 2 /\ l = z \o c
  BY JoinedParts, LastChunkIs, CrlfIs DEF LastChunk
<1>2. Text(m) = RequestLine(m) \o HeaderLines(m) \o CRLF \o Body(m)
  <2>1. FlattenSeq([i \in DOMAIN m.chunks |-> Chunk(m, i)]) = a
    BY JoinedParts DEF ChunkParts
  <2>2. FlattenSeq([i \in 1 .. m.trailers |-> HeaderLine("plain")]) = b
    BY JoinedParts DEF TrailerParts
  <2>3. Body(m) = IF Chunked(m) THEN a \o z \o c \o b \o c ELSE Content(m)
    BY DEF Body, ChunkedBody
  <2> HIDE DEF a, b, z, c
  <2> QED BY Zenon, <2>1, <2>2, <2>3 DEF Text, z, c
<1>3. Chunked(m) => Body(m) = a \o z \o c \o b \o c
  BY DEF Body, ChunkedBody
<1> HIDE DEF a, b, z, c, l
<1>4. (a \o z) \o c = a \o l
  <2>1. AreSeqs(Units, a, z, c)
    BY <1>1 DEF AreSeqs
  <2>2. Associate(a, z, c)
    BY <2>1, Associates
  <2> QED BY <1>1, <2>2 DEF Associate
<1>5. a \o l \in Seq(Units) /\ Len(a \o l) = Len(a) + 3
  BY <1>1, ConcatIs
<1>6. (a \o l) \o b \in Seq(Units) /\ Len((a \o l) \o b) = Len(a) + 3 + Len(b)
  <2> DEFINE w == a \o l
  <2>1. w \in Seq(Units) /\ Len(w) = Len(a) + 3
    BY <1>5
  <2> HIDE DEF w
  <2>2. w \o b \in Seq(Units) /\ Len(w \o b) = Len(a) + 3 + Len(b)
    BY <1>1, <2>1, ConcatIs
  <2> QED BY <2>2 DEF w
<1>7. (a \o l) \o b \o c \in Seq(Units) /\ Len((a \o l) \o b \o c) = Len(a) + 3 + Len(b) + 2
  <2> DEFINE w == (a \o l) \o b
  <2>1. w \in Seq(Units) /\ Len(w) = Len(a) + 3 + Len(b)
    BY <1>6
  <2> HIDE DEF w
  <2>2. c \in Seq(Units) /\ Len(c) = 2
    BY <1>1
  <2>3. w \o c \in Seq(Units) /\ Len(w \o c) = Len(w) + Len(c)
    BY <2>1, <2>2, ConcatIs
  <2>4. w \o c \in Seq(Units) /\ Len(w \o c) = Len(a) + 3 + Len(b) + 2
    BY <2>1, <2>2, <2>3
  <2> QED BY <2>4 DEF w
<1>8. Chunked(m) => Body(m) = (a \o l) \o b \o c
  BY <1>3, <1>4
<1>9. Body(m) \in Seq(Units)
  <2>1. CASE Chunked(m)
    BY <1>7, <1>8, <2>1
  <2>2. CASE ~Chunked(m)
    BY <2>2, BodyPartsAre DEF Body
  <2> QED BY <2>1, <2>2
<1>10. Chunked(m) => /\ Body(m) = (a \o l) \o b \o c
                     /\ Len(Body(m)) = Len(a) + 3 + Len(b) + 2
  BY <1>7, <1>8
<1> QED BY <1>2, <1>9, <1>10 DEF a, b, c, l

-----------------------------------------------------------------------------
(* Where the head is in the text, and what comes after it.                  *)
LEMMA HeadIs ==
    ASSUME NEW m, IsMessage(m)
    PROVE  /\ Text(m) \in Seq(Units) /\ Len(Text(m)) \in Nat
           /\ At(Text(m), 0, StartLine(m) \o CRLF) /\ HeaderAt(m, 0) = Len(StartLine(m)) + 2
           /\ \A i \in 0 .. Len(m.headers) : HeaderAt(m, i) \in Nat
           /\ \A i \in 1 .. Len(m.headers) :
                 /\ At(Text(m), HeaderAt(m, i - 1), HeaderName(m.headers[i]) \o CRLF)
                 /\ HeaderAt(m, i) = HeaderAt(m, i - 1) + Len(HeaderName(m.headers[i])) + 2
           /\ At(Text(m), HeaderAt(m, Len(m.headers)), CRLF)
           /\ At(Text(m), BodyAt(m), Body(m)) /\ Len(Text(m)) = BodyAt(m) + Len(Body(m))
           /\ BodyAt(m) \in Nat
<1> DEFINE r == RequestLine(m)
           h == HeaderLines(m)
           c == CRLF
           b == Body(m)
           t == Text(m)
           n == Len(m.headers)
           p == HeadParts(m)
<1>1. r \in Seq(Units) /\ Len(r) = Len(StartLine(m)) + 2 /\ r = StartLine(m) \o c
  <2> DEFINE s == StartLine(m)
  <2>1. s \in Seq(Units) /\ c \in Seq(Units) /\ Len(c) = 2 /\ r = s \o c
    BY StartLineIs, CrlfIs DEF IsLine
  <2> HIDE DEF s, c, r
  <2>2. s \o c \in Seq(Units) /\ Len(s \o c) = Len(s) + Len(c)
    BY <2>1, ConcatIs
  <2>3. r \in Seq(Units) /\ Len(r) = Len(s) + 2 /\ r = s \o c
    BY <2>1, <2>2
  <2> QED BY <2>3 DEF s
<1>2. c \in Seq(Units) /\ Len(c) = 2
  BY CrlfIs
<1>3. h \in Seq(Units) /\ h = Joined(p)[n] /\ p \in Seq(Seq(Units)) /\ Len(p) = n /\ n \in Nat
  BY PartsAre
<1>4. b \in Seq(Units) /\ t = ((r \o h) \o c) \o b
  BY BodyIs
<1>5. \A i \in 1 .. n : p[i] = HeaderLine(m.headers[i]) /\ m.headers[i] \in HeaderKinds
  BY PartsAre
<1>6. /\ Len(r) + Len(Joined(p)[n]) + 2 = BodyAt(m) /\ HeaderAt(m, n) = Len(r) + Len(Joined(p)[n])
      /\ \A i \in 0 .. n : HeaderAt(m, i) = Len(r) + Len(Joined(p)[i])
  BY DEF BodyAt, HeaderAt
<1> HIDE DEF r, h, c, b, t, n, p
<1>7. r \o h \in Seq(Units) /\ Len(r \o h) = Len(r) + Len(h) /\ Len(r) \in Nat /\ Len(h) \in Nat
  BY <1>1, <1>3, ConcatIs
<1>8. (r \o h) \o c \in Seq(Units) /\ Len((r \o h) \o c) = Len(r) + Len(h) + 2
  <2> DEFINE w == r \o h
  <2>1. w \in Seq(Units) /\ Len(w) = Len(r) + Len(h)
    BY <1>7
  <2> HIDE DEF w
  <2>2. w \o c \in Seq(Units) /\ Len(w \o c) = Len(w) + Len(c)
    BY <1>2, <2>1, ConcatIs
  <2>3. w \o c \in Seq(Units) /\ Len(w \o c) = Len(r) + Len(h) + 2
    BY <1>2, <2>1, <2>2
  <2> QED BY <2>3 DEF w
<1>9. t \in Seq(Units) /\ Len(t) = Len(r) + Len(h) + 2 + Len(b) /\ Len(b) \in Nat
  <2> DEFINE w == (r \o h) \o c
  <2>1. w \in Seq(Units) /\ Len(w) = Len(r) + Len(h) + 2 /\ t = w \o b /\ b \in Seq(Units)
    BY <1>4, <1>8
  <2> HIDE DEF w
  <2>2. w \o b \in Seq(Units) /\ Len(w \o b) = Len(w) + Len(b) /\ Len(b) \in Nat
    BY <2>1, ConcatIs
  <2> QED BY <2>1, <2>2
<1>10. At(t, 0, (r \o h) \o c) /\ At(t, Len(r) + Len(h) + 2, b)
  <2> DEFINE w == (r \o h) \o c
  <2>1. w \in Seq(Units) /\ Len(w) = Len(r) + Len(h) + 2 /\ t = w \o b /\ b \in Seq(Units)
    BY <1>4, <1>8
  <2>2. At(t, 0, t)
    BY <1>9, AtWhole
  <2> HIDE DEF w
  <2>3. At(t, 0, w \o b)
    BY <2>1, <2>2
  <2>4. At(t, 0, w) /\ At(t, 0 + Len(w), b)
    BY <1>9, <2>1, <2>3, AtConcat
  <2>5. 0 + Len(w) = Len(r) + Len(h) + 2
    BY <1>7, <2>1
  <2> QED BY <2>4, <2>5 DEF w
<1>11. At(t, 0, r \o h) /\ At(t, Len(r) + Len(h), c)
  <2> DEFINE w == r \o h
  <2>1. w \in Seq(Units) /\ Len(w) = Len(r) + Len(h) /\ At(t, 0, w \o c)
    BY <1>7, <1>10
  <2> HIDE DEF w
  <2>2. At(t, 0, w) /\ At(t, 0 + Len(w), c)
    BY <1>2, <1>9, <2>1, AtConcat
  <2>3. 0 + Len(w) = Len(r) + Len(h)
    BY <1>7, <2>1
  <2> QED BY <2>2, <2>3 DEF w
<1>12. At(t, 0, r) /\ At(t, Len(r), h)
  <2>1. At(t, 0, r) /\ At(t, 0 + Len(r), h)
    BY <1>1, <1>3, <1>9, <1>11, AtConcat
  <2>2. 0 + Len(r) = Len(r)
    BY <1>7
  <2> QED BY <2>1, <2>2
<1>13. /\ Len(Joined(p)[0]) = 0
       /\ \A i \in 0 .. n : Len(Joined(p)[i]) \in Nat
       /\ \A i \in 1 .. n : Len(p[i]) \in Nat /\ Len(Joined(p)[i]) = Len(Joined(p)[i - 1]) + Len(p[i])
  BY <1>3, JoinedLengths
<1>14. \A i \in 1 .. n : At(t, Len(r) + Len(Joined(p)[i - 1]), p[i])
  <2>1. At(t, Len(r), Joined(p)[Len(p)])
    BY <1>3, <1>12
  <2> QED BY <1>3, <1>9, <2>1, AtJoined
<1>15. \A i \in 0 .. n : HeaderAt(m, i) \in Nat
  BY <1>6, <1>7, <1>13
<1>16. ASSUME NEW i \in 1 .. n
       PROVE  /\ At(t, HeaderAt(m, i - 1), HeaderName(m.headers[i]) \o c)
              /\ HeaderAt(m, i) = HeaderAt(m, i - 1) + Len(HeaderName(m.headers[i])) + 2
  <2>1. i \in 0 .. n /\ i - 1 \in 0 .. n
    BY <1>3
  <2>2. HeaderAt(m, i - 1) = Len(r) + Len(Joined(p)[i - 1]) /\ HeaderAt(m, i) = Len(r) + Len(Joined(p)[i])
    BY <1>6, <2>1
  <2>3. p[i] = HeaderLine(m.headers[i]) /\ m.headers[i] \in HeaderKinds
    BY <1>5
  <2>4. /\ HeaderLine(m.headers[i]) = HeaderName(m.headers[i]) \o c
        /\ Len(HeaderLine(m.headers[i])) = Len(HeaderName(m.headers[i])) + 2
        /\ Len(HeaderName(m.headers[i])) \in Nat
    BY <2>3, HeaderLineIs DEF c
  <2>5. Len(Joined(p)[i - 1]) \in Nat /\ Len(Joined(p)[i]) = Len(Joined(p)[i - 1]) + Len(p[i])
    BY <1>13, <2>1
  <2>6. At(t, Len(r) + Len(Joined(p)[i - 1]), p[i])
    BY <1>14
  <2>7. At(t, HeaderAt(m, i - 1), HeaderName(m.headers[i]) \o c)
    BY <2>2, <2>3, <2>4, <2>6
  <2> DEFINE x == Len(HeaderName(m.headers[i]))
             y == Len(Joined(p)[i - 1])
             z == Len(r)
  <2>8. x \in Nat /\ y \in Nat /\ z \in Nat /\ HeaderAt(m, i - 1) = z + y
        /\ HeaderAt(m, i) = z + (y + (x + 2))
    BY <1>7, <2>2, <2>3, <2>4, <2>5
  <2> HIDE DEF x, y, z
  <2>9. HeaderAt(m, i) = HeaderAt(m, i - 1) + x + 2
    BY <2>8
  <2> QED BY <2>7, <2>9 DEF x
<1>17. HeaderAt(m, 0) = Len(r) /\ HeaderAt(m, n) = Len(r) + Len(h) /\ BodyAt(m) = Len(r) + Len(h) + 2
  <2>1. 0 \in 0 .. n
    BY <1>3
  <2>2. HeaderAt(m, 0) = Len(r) + 0
    BY <1>6, <1>13, <2>1
  <2> QED BY <1>3, <1>6, <1>7, <2>2
<1>18. At(t, HeaderAt(m, n), c) /\ At(t, BodyAt(m), b) /\ Len(t) = BodyAt(m) + Len(b) /\ BodyAt(m) \in Nat
  <2>1. BodyAt(m) \in Nat /\ Len(t) = BodyAt(m) + Len(b)
    BY <1>7, <1>9, <1>17
  <2> QED BY <1>10, <1>11, <1>17, <2>1
<1>19. At(t, 0, StartLine(m) \o c) /\ HeaderAt(m, 0) = Len(StartLine(m)) + 2
  BY <1>1, <1>12, <1>17
<1>20. Len(t) \in Nat
  BY <1>9, LenProperties
<1> QED BY <1>9, <1>15, <1>16, <1>18, <1>19, <1>20 DEF c, b, t, n

(* Where the chunks are.                                                    *)
LEMMA ChunksAre ==
    ASSUME NEW m, IsMessage(m), Chunked(m)
    PROVE  /\ ChunkAt(m, 0) = BodyAt(m)
           /\ \A i \in 0 .. Len(m.chunks) : ChunkAt(m, i) \in Nat
           /\ \A i \in 1 .. Len(m.chunks) :
                 /\ At(Text(m), ChunkAt(m, i - 1), <<Digits[Len(m.chunks[i]) + 1]>> \o CRLF)
                 /\ At(Text(m), ChunkAt(m, i - 1) + 3, m.chunks[i])
                 /\ At(Text(m), ChunkAt(m, i - 1) + 3 + Len(m.chunks[i]), m.ending)
                 /\ ChunkAt(m, i) = ChunkAt(m, i - 1) + 3 + Len(m.chunks[i]) + Len(m.ending)
           /\ At(Text(m), ChunkAt(m, Len(m.chunks)), <<"0">> \o CRLF)
           /\ TrailerAt(m, 0) = ChunkAt(m, Len(m.chunks)) + 3
           /\ \A i \in 0 .. m.trailers : TrailerAt(m, i) \in Nat
           /\ \A i \in 1 .. m.trailers :
                 /\ At(Text(m), TrailerAt(m, i - 1), HeaderName("plain") \o CRLF)
                 /\ TrailerAt(m, i) = TrailerAt(m, i - 1) + 3
           /\ At(Text(m), TrailerAt(m, m.trailers), CRLF)
           /\ Len(Text(m)) = TrailerAt(m, m.trailers) + 2
<1> DEFINE t == Text(m)
           c == CRLF
           l == LastChunk
           p == ChunkParts(m)
           q == TrailerParts(m)
           n == Len(m.chunks)
           k == m.trailers
           a == Joined(p)[n]
           b == Joined(q)[k]
           o == BodyAt(m)
<1>1. /\ t \in Seq(Units) /\ At(t, o, Body(m)) /\ Len(t) = o + Len(Body(m)) /\ o \in Nat
  BY HeadIs
<1>2. Body(m) = ((a \o l) \o b) \o c /\ Len(Body(m)) = Len(a) + 3 + Len(b) + 2
  BY BodyIs
<1>3. a \in Seq(Units) /\ b \in Seq(Units) /\ l \in Seq(Units) /\ Len(l) = 3
      /\ c \in Seq(Units) /\ Len(c) = 2
  BY JoinedParts, LastChunkIs, CrlfIs
<1>4. /\ p \in Seq(Seq(Units)) /\ Len(p) = n /\ n \in Nat /\ \A i \in 1 .. n : p[i] = Chunk(m, i)
      /\ q \in Seq(Seq(Units)) /\ Len(q) = k /\ k \in Nat
      /\ \A i \in 1 .. k : q[i] = HeaderLine("plain")
  BY BodyPartsAre
<1>5. /\ \A i \in 0 .. n : ChunkAt(m, i) = o + Len(Joined(p)[i])
      /\ \A i \in 0 .. k : TrailerAt(m, i) = ChunkAt(m, n) + 3 + Len(Joined(q)[i])
  BY DEF ChunkAt, TrailerAt
<1>6. a = Joined(p)[n] /\ b = Joined(q)[k]
  OBVIOUS
<1> HIDE DEF t, c, l, p, q, n, k, a, b, o
<1>7. Len(a) \in Nat /\ Len(b) \in Nat
  BY <1>3, LenProperties
<1>8. a \o l \in Seq(Units) /\ Len(a \o l) = Len(a) + 3
  BY <1>3, ConcatIs
<1>9. (a \o l) \o b \in Seq(Units) /\ Len((a \o l) \o b) = Len(a) + 3 + Len(b)
  <2> DEFINE w == a \o l
  <2>1. w \in Seq(Units) /\ Len(w) = Len(a) + 3
    BY <1>8
  <2> HIDE DEF w
  <2>2. w \o b \in Seq(Units) /\ Len(w \o b) = Len(w) + Len(b)
    BY <1>3, <2>1, ConcatIs
  <2>3. w \o b \in Seq(Units) /\ Len(w \o b) = Len(a) + 3 + Len(b)
    BY <2>1, <2>2
  <2> QED BY <2>3 DEF w
<1>10. At(t, o, (a \o l) \o b) /\ At(t, o + (Len(a) + 3 + Len(b)), c)
  <2> DEFINE w == (a \o l) \o b
  <2>1. w \in Seq(Units) /\ Len(w) = Len(a) + 3 + Len(b) /\ At(t, o, w \o c)
    BY <1>1, <1>2, <1>9
  <2> HIDE DEF w
  <2>2. At(t, o, w) /\ At(t, o + Len(w), c)
    BY <1>1, <1>3, <2>1, AtConcat
  <2>3. At(t, o, w) /\ At(t, o + (Len(a) + 3 + Len(b)), c)
    BY <2>1, <2>2
  <2> QED BY <2>3 DEF w
<1>11. At(t, o, a \o l) /\ At(t, o + (Len(a) + 3), b)
  <2> DEFINE w == a \o l
  <2>1. w \in Seq(Units) /\ Len(w) = Len(a) + 3 /\ At(t, o, w \o b)
    BY <1>8, <1>10
  <2> HIDE DEF w
  <2>2. At(t, o, w) /\ At(t, o + Len(w), b)
    BY <1>1, <1>3, <2>1, AtConcat
  <2>3. At(t, o, w) /\ At(t, o + (Len(a) + 3), b)
    BY <2>1, <2>2
  <2> QED BY <2>3 DEF w
<1>12. At(t, o, a) /\ At(t, o + Len(a), l)
  BY <1>1, <1>3, <1>11, AtConcat
<1>13. /\ Len(Joined(p)[0]) = 0
       /\ \A i \in 0 .. n : Len(Joined(p)[i]) \in Nat
       /\ \A i \in 1 .. n : Len(p[i]) \in Nat /\ Len(Joined(p)[i]) = Len(Joined(p)[i - 1]) + Len(p[i])
  BY <1>4, JoinedLengths
<1>14. /\ Len(Joined(q)[0]) = 0
       /\ \A i \in 0 .. k : Len(Joined(q)[i]) \in Nat
       /\ \A i \in 1 .. k : Len(q[i]) \in Nat /\ Len(Joined(q)[i]) = Len(Joined(q)[i - 1]) + Len(q[i])
  BY <1>4, JoinedLengths
<1>15. \A i \in 1 .. n : At(t, o + Len(Joined(p)[i - 1]), p[i])
  <2>1. At(t, o, Joined(p)[Len(p)])
    BY <1>4, <1>6, <1>12
  <2> QED BY <1>1, <1>4, <2>1, AtJoined
<1>16. \A i \in 0 .. n : ChunkAt(m, i) \in Nat
  BY <1>1, <1>5, <1>13
<1>17. ChunkAt(m, 0) = o /\ ChunkAt(m, n) = o + Len(a) /\ TrailerAt(m, 0) = ChunkAt(m, n) + 3
       /\ TrailerAt(m, k) = o + (Len(a) + 3 + Len(b))
  <2>1. 0 \in 0 .. n /\ n \in 0 .. n /\ 0 \in 0 .. k /\ k \in 0 .. k
    BY <1>4
  <2>2. ChunkAt(m, 0) = o + 0 /\ ChunkAt(m, n) = o + Len(a)
    BY <1>5, <1>6, <1>13, <2>1
  <2>3. TrailerAt(m, 0) = ChunkAt(m, n) + 3 + 0 /\ TrailerAt(m, k) = ChunkAt(m, n) + 3 + Len(b)
    BY <1>5, <1>6, <1>14, <2>1
  <2> QED BY <1>1, <1>7, <2>2, <2>3
<1>18. \A i \in 0 .. k : TrailerAt(m, i) \in Nat
  <2> TAKE i \in 0 .. k
  <2>1. ChunkAt(m, n) \in Nat
    BY <1>1, <1>7, <1>17
  <2> QED BY <1>5, <1>14, <2>1
<1>19. At(t, ChunkAt(m, n), <<"0">> \o c)
  BY <1>12, <1>17 DEF l, LastChunk, c
<1>20. ASSUME NEW i \in 1 .. n
       PROVE  /\ At(t, ChunkAt(m, i - 1), <<Digits[Len(m.chunks[i]) + 1]>> \o c)
              /\ At(t, ChunkAt(m, i - 1) + 3, m.chunks[i])
              /\ At(t, ChunkAt(m, i - 1) + 3 + Len(m.chunks[i]), m.ending)
              /\ ChunkAt(m, i) = ChunkAt(m, i - 1) + 3 + Len(m.chunks[i]) + Len(m.ending)
  <2> DEFINE x == <<Digits[Len(m.chunks[i]) + 1]>> \o c
             s == m.chunks[i]
             e == m.ending
             j == ChunkAt(m, i - 1)
  <2>1. /\ s \in Seq(Units) /\ Len(s) \in Nat /\ e \in Seq(Units) /\ Len(e) \in Nat
        /\ x \in Seq(Units) /\ Len(x) = 3 /\ x \o s \in Seq(Units) /\ Len(x \o s) = 3 + Len(s)
        /\ Len(Chunk(m, i)) = 3 + Len(s) + Len(e)
    <3>1. i \in 1 .. Len(m.chunks)
      BY DEF n
    <3>2. s \in Seq(Units) /\ Len(s) \in 1 .. 4 /\ e \in Seq(Units) /\ Len(e) \in Nat
      BY <3>1, ChunkIs
    <3>3. Len(s) \in Nat
      BY <3>2
    <3>4. x = <<Digits[Len(m.chunks[i]) + 1]>> \o CRLF
      BY DEF c
    <3> HIDE DEF x
    <3>5. x \in Seq(Units) /\ Len(x) = 3 /\ x \o s \in Seq(Units) /\ Len(x \o s) = 3 + Len(s)
          /\ Len(Chunk(m, i)) = 3 + Len(s) + Len(e)
      BY <3>1, <3>4, ChunkIs
    <3> HIDE DEF s, e
    <3> QED BY <3>2, <3>3, <3>5
  <2>2. Chunk(m, i) = (x \o s) \o e
    BY DEF Chunk, c
  <2>3. i \in 0 .. n /\ i - 1 \in 0 .. n
    BY <1>4
  <2>4. p[i] = Chunk(m, i) /\ j = o + Len(Joined(p)[i - 1]) /\ ChunkAt(m, i) = o + Len(Joined(p)[i])
        /\ Len(Joined(p)[i]) = Len(Joined(p)[i - 1]) + Len(p[i]) /\ Len(Joined(p)[i - 1]) \in Nat
    BY <1>4, <1>5, <1>13, <2>3
  <2>5. At(t, j, (x \o s) \o e) /\ j \in Nat
    BY <1>15, <1>16, <2>2, <2>3, <2>4
  <2>6. ChunkAt(m, i) = j + 3 + Len(s) + Len(e)
    <3> DEFINE u == Len(s)
               v == Len(e)
               y == Len(Joined(p)[i - 1])
    <3>1. /\ u \in Nat /\ v \in Nat /\ y \in Nat /\ j = o + y
          /\ ChunkAt(m, i) = o + (y + (3 + u + v))
      BY <2>1, <2>4
    <3> HIDE DEF u, v, y, j
    <3>2. ChunkAt(m, i) = j + 3 + u + v
      BY <1>1, <3>1
    <3> QED BY <3>2 DEF u, v
  <2> HIDE DEF x, s, e, j
  <2>7. At(t, j, x \o s) /\ At(t, j + (3 + Len(s)), e)
    <3> DEFINE w == x \o s
    <3>1. w \in Seq(Units) /\ Len(w) = 3 + Len(s) /\ At(t, j, w \o e) /\ e \in Seq(Units)
      BY <2>1, <2>5
    <3> HIDE DEF w
    <3>2. At(t, j, w) /\ At(t, j + Len(w), e)
      BY <1>1, <3>1, AtConcat
    <3>3. At(t, j, w) /\ At(t, j + (3 + Len(s)), e)
      BY <3>1, <3>2
    <3> QED BY <3>3 DEF w
  <2>8. At(t, j, x) /\ At(t, j + 3, s)
    <3>1. At(t, j, x) /\ At(t, j + Len(x), s)
      BY <1>1, <2>1, <2>7, AtConcat
    <3> QED BY <2>1, <3>1
  <2>9. j + (3 + Len(s)) = j + 3 + Len(s)
    BY <2>1, <2>5
  <2>10. At(t, j, x) /\ At(t, j + 3, s) /\ At(t, j + 3 + Len(s), e)
         /\ ChunkAt(m, i) = j + 3 + Len(s) + Len(e)
    BY <2>6, <2>7, <2>8, <2>9
  <2> QED BY <2>10 DEF x, s, e, j
<1>21. ASSUME NEW i \in 1 .. k
       PROVE  /\ At(t, TrailerAt(m, i - 1), HeaderName("plain") \o c)
              /\ TrailerAt(m, i) = TrailerAt(m, i - 1) + 3
  <2> DEFINE u == o + (Len(a) + 3)
             h == HeaderLine("plain")
  <2>1. "plain" \in HeaderKinds
    BY DEF HeaderKinds, Other
  <2>2. h = HeaderName("plain") \o c /\ Len(h) = 3
    <3>1. h = HeaderName("plain") \o c
      BY <2>1, HeaderLineIs DEF c
    <3>2. Len(h) = Len(HeaderName("plain")) + 2 /\ Len(HeaderName("plain")) = 1
      BY <2>1, HeaderLineIs
    <3>3. Len(h) = 3
      <4> DEFINE x == Len(h)
                 y == Len(HeaderName("plain"))
      <4>1. x = y + 2 /\ y = 1
        BY <3>2
      <4> HIDE DEF x, y
      <4>2. x = 3
        BY <4>1
      <4> QED BY <4>2 DEF x
    <3> QED BY <3>1, <3>3
  <2>3. i \in 0 .. k /\ i - 1 \in 0 .. k
    BY <1>4
  <2>4. ChunkAt(m, n) + 3 = u /\ u \in Nat /\ ChunkAt(m, n) \in Nat
    BY <1>1, <1>7, <1>17
  <2>5. /\ TrailerAt(m, i - 1) = ChunkAt(m, n) + 3 + Len(Joined(q)[i - 1])
        /\ TrailerAt(m, i) = ChunkAt(m, n) + 3 + Len(Joined(q)[i])
        /\ Len(Joined(q)[i]) = Len(Joined(q)[i - 1]) + Len(q[i]) /\ Len(Joined(q)[i - 1]) \in Nat
        /\ q[i] = h
    BY <1>4, <1>5, <1>14, <2>3
  <2>6. At(t, u, Joined(q)[Len(q)])
    BY <1>4, <1>6, <1>11
  <2> HIDE DEF u, h
  <2>7. At(t, u + Len(Joined(q)[i - 1]), q[i])
    BY <1>1, <1>4, <2>6, AtJoined
  <2>8. TrailerAt(m, i - 1) = u + Len(Joined(q)[i - 1]) /\ TrailerAt(m, i) = TrailerAt(m, i - 1) + 3
    <3> DEFINE y == Len(Joined(q)[i - 1])
    <3>1. y \in Nat /\ TrailerAt(m, i - 1) = u + y /\ TrailerAt(m, i) = u + (y + 3)
      BY <2>2, <2>4, <2>5
    <3> HIDE DEF y
    <3>2. TrailerAt(m, i) = TrailerAt(m, i - 1) + 3
      BY <2>4, <3>1
    <3> QED BY <3>1, <3>2 DEF y
  <2> QED BY <2>2, <2>5, <2>7, <2>8
<1>22. At(t, TrailerAt(m, k), c) /\ Len(t) = TrailerAt(m, k) + 2
  <2>1. Len(t) = o + (Len(a) + 3 + Len(b)) + 2
    BY <1>1, <1>2, <1>7
  <2> QED BY <1>10, <1>17, <2>1
<1> QED BY <1>16, <1>17, <1>18, <1>19, <1>20, <1>21, <1>22 DEF t, c, n, k, o

-----------------------------------------------------------------------------
(* Two units that are a line end.                                           *)
LEMMA PairIs ==
    ASSUME NEW b \in Seq(Units), NEW i \in 1 .. Len(b) - 1
    PROVE  SubSeq(b, i, i + 1) = CRLF <=> b[i] = "cr" /\ b[i + 1] = "lf"
<1> DEFINE s == SubSeq(b, i, i + 1)
           c == CRLF
<1>1. c \in Seq(Units) /\ Len(c) = 2 /\ c[1] = "cr" /\ c[2] = "lf"
  BY CrlfIs
<1>2. /\ Len(b) \in Nat /\ i \in Nat /\ i + 1 \in Nat /\ i <= i + 1 /\ i + 1 <= Len(b)
      /\ \A j \in i .. i + 1 : j \in 1 .. Len(b)
  <2>1. Len(b) \in Nat
    BY LenProperties
  <2> QED BY <2>1
<1>3. \A j \in i .. i + 1 : b[j] \in Units
  BY <1>2, ElementOfSeq
<1>4. i \in Int /\ i + 1 \in Int
  BY <1>2
<1>5. /\ s \in Seq(Units) /\ Len(s) = (IF i <= i + 1 THEN (i + 1) - i + 1 ELSE 0)
      /\ \A j \in 1 .. (i + 1) - i + 1 : s[j] = b[i + j - 1]
  BY <1>3, <1>4, SubSeqProperties
<1>6. (i + 1) - i + 1 = 2 /\ i + 1 - 1 = i /\ i + 2 - 1 = i + 1 /\ 1 \in 1 .. 2 /\ 2 \in 1 .. 2
  BY <1>2
<1>7. Len(s) = 2 /\ s[1] = b[i] /\ s[2] = b[i + 1]
  BY <1>2, <1>5, <1>6
<1> HIDE DEF s, c
<1>8. s[1] = c[1] /\ s[2] = c[2] => s = c
  <2> SUFFICES ASSUME s[1] = c[1], s[2] = c[2] PROVE s = c
    OBVIOUS
  <2>1. \A j \in 1 .. Len(s) : s[j] = c[j]
    <3> TAKE j \in 1 .. Len(s)
    <3>1. Len(s) = 2
      BY <1>7
    <3>2. j = 1 \/ j = 2
      BY <3>1
    <3> QED BY <3>2
  <2> QED BY <1>1, <1>5, <1>7, <2>1, SeqEqual
<1>9. s = c <=> b[i] = "cr" /\ b[i + 1] = "lf"
  BY <1>1, <1>7, <1>8
<1> QED BY <1>9 DEF s, c

(* The line that is next in the text is found when all of it, with its end, *)
(* was written, and taken.                                                  *)
LEMMA LineIs ==
    ASSUME NEW t \in Seq(Units), NEW f \in 0 .. Len(t), NEW p \in 0 .. f,
           buffer = SubSeq(t, p + 1, f), NEW s, IsLine(s), At(t, p, s \o CRLF)
    PROVE  /\ Len(s) \in Nat /\ LineEnd \in Nat /\ Len(buffer) = f - p
           /\ LineEnd = 0 => f < p + Len(s) + 2
           /\ LineEnd # 0 =>
                 /\ LineEnd = Len(s) + 1 /\ Line = s /\ p + Len(s) + 2 \in 0 .. f
                 /\ SubSeq(buffer, LineEnd + 2, Len(buffer)) = SubSeq(t, (p + Len(s) + 2) + 1, f)
<1> DEFINE n == Len(s)
           b == buffer
           c == CRLF
           ends == {i \in 1 .. Len(b) - 1 : SubSeq(b, i, i + 1) = c}
<1>1. /\ s \in Seq(Units) /\ \A j \in 1 .. n : s[j] # "lf"
  BY DEF IsLine
<1>2. c \in Seq(Units) /\ Len(c) = 2 /\ c[1] = "cr" /\ c[2] = "lf"
  BY CrlfIs
<1>3. Len(t) \in Nat /\ f \in Nat /\ p \in Nat /\ p <= f /\ f <= Len(t) /\ n \in Nat
  BY <1>1, LenProperties
<1>4. At(t, p, s \o c)
  OBVIOUS
<1>20. b = SubSeq(t, p + 1, f)
  OBVIOUS
<1>21. LineEnd = IF ends = {} THEN 0 ELSE CHOOSE i \in ends : \A j \in ends : i <= j
  BY DEF LineEnd
<1>22. Line = SubSeq(b, 1, LineEnd - 1)
  BY DEF Line
<1> HIDE DEF n, b, c
<1>5. At(t, p, s) /\ At(t, p + n, c)
  BY <1>1, <1>2, <1>4, AtConcat DEF n
<1>6. \A j \in 1 .. n : t[p + j] = s[j]
  BY <1>5 DEF At, n
<1>7. t[p + (n + 1)] = "cr" /\ t[p + (n + 2)] = "lf"
  <2>1. \A j \in 1 .. 2 : t[(p + n) + j] = c[j]
    BY <1>2, <1>5 DEF At
  <2>2. (p + n) + 1 = p + (n + 1) /\ (p + n) + 2 = p + (n + 2) /\ 1 \in 1 .. 2 /\ 2 \in 1 .. 2
    BY <1>3
  <2>3. t[(p + n) + 1] = c[1] /\ t[(p + n) + 2] = c[2]
    BY <2>1, <2>2
  <2> QED BY <1>2, <2>2, <2>3
<1>8. b \in Seq(Units) /\ Len(b) = f - p /\ \A j \in 1 .. f - p : b[j] = t[p + j]
  BY <1>20, BufferIs
<1>9. \A i \in 1 .. Len(b) - 1 : i \in ends <=> b[i] = "cr" /\ b[i + 1] = "lf"
  BY <1>8, PairIs DEF c
<1>10. \A i \in 1 .. n : i + 1 <= f - p => b[i + 1] # "lf"
  <2> SUFFICES ASSUME NEW i \in 1 .. n, i + 1 <= f - p PROVE b[i + 1] # "lf"
    OBVIOUS
  <2>1. i + 1 \in 1 .. f - p
    BY <1>3
  <2>2. b[i + 1] = t[p + (i + 1)]
    BY <1>8, <2>1
  <2>3. CASE i = n
    BY <1>7, <2>2, <2>3
  <2>4. CASE i # n
    <3>1. i + 1 \in 1 .. n
      BY <1>3, <2>4
    <3> QED BY <1>1, <1>6, <2>2, <3>1
  <2> QED BY <2>3, <2>4
<1>11. ASSUME NEW i \in ends PROVE i \in Nat /\ i >= n + 1 /\ i + 1 <= f - p
  <2>1. i \in 1 .. Len(b) - 1
    OBVIOUS
  <2>2. i \in Nat /\ i + 1 <= f - p
    BY <1>3, <1>8, <2>1
  <2>3. ~(i \in 1 .. n)
    <3>1. b[i + 1] = "lf"
      BY <1>9, <2>1
    <3> HIDE DEF ends
    <3> QED BY <1>10, <2>2, <3>1
  <2> QED BY <1>3, <2>1, <2>2, <2>3
<1>12. p + n + 2 <= f => n + 1 \in ends
  <2> SUFFICES ASSUME p + n + 2 <= f PROVE n + 1 \in ends
    OBVIOUS
  <2>1. n + 1 \in 1 .. Len(b) - 1 /\ n + 1 \in 1 .. f - p /\ n + 2 \in 1 .. f - p /\ (n + 1) + 1 = n + 2
    BY <1>3, <1>8
  <2>2. b[n + 1] = t[p + (n + 1)] /\ b[n + 2] = t[p + (n + 2)]
    BY <1>8, <2>1
  <2> HIDE DEF ends
  <2> QED BY <1>7, <1>9, <2>1, <2>2
<1> HIDE DEF ends
<1>13. CASE ~(p + n + 2 <= f)
  <2>1. ends = {}
    <3> SUFFICES ASSUME NEW i \in ends PROVE FALSE
      OBVIOUS
    <3> QED BY <1>3, <1>11, <1>13
  <2>2. LineEnd = 0
    BY <1>21, <2>1
  <2> QED BY <1>3, <1>8, <1>13, <2>2 DEF n, b
<1>14. CASE p + n + 2 <= f
  <2>1. n + 1 \in ends /\ ends # {} /\ \A j \in ends : n + 1 <= j
    BY <1>3, <1>11, <1>12, <1>14
  <2>2. LineEnd = n + 1
    <3>1. LineEnd \in ends /\ \A j \in ends : LineEnd <= j
      BY <1>21, <2>1
    <3>2. LineEnd <= n + 1 /\ n + 1 <= LineEnd /\ LineEnd \in Nat
      BY <1>11, <2>1, <3>1
    <3> QED BY <1>3, <3>2
  <2>3. LineEnd - 1 = n /\ LineEnd + 2 = (n + 2) + 1 /\ LineEnd # 0 /\ n \in 0 .. f - p
        /\ n + 2 \in 0 .. f - p /\ p + n + 2 \in 0 .. f /\ p + (n + 2) = p + n + 2
    BY <1>3, <1>14, <2>2
  <2>4. Line = s
    <3>1. n <= Len(b) /\ \A j \in 1 .. n : b[j] = s[j]
      <4>1. n \in 0 .. f - p /\ Len(b) = f - p
        BY <1>8, <2>3
      <4>2. \A j \in 1 .. n : j \in 1 .. f - p
        BY <1>3, <4>1
      <4> QED BY <1>3, <1>6, <1>8, <4>1, <4>2
    <3>2. SubSeq(b, 1, n) = s
      BY <1>1, <1>8, <3>1, BufferFirst DEF n
    <3> QED BY <1>22, <2>3, <3>2
  <2>5. SubSeq(b, (n + 2) + 1, Len(b)) = SubSeq(t, (p + (n + 2)) + 1, f)
    <3> DEFINE k == n + 2
    <3>1. k \in 0 .. f - p
      BY <2>3
    <3> HIDE DEF k
    <3>2. SubSeq(b, k + 1, Len(b)) = SubSeq(t, (p + k) + 1, f)
      BY <1>20, <3>1, BufferLeft
    <3> QED BY <3>2 DEF k
  <2>6. SubSeq(b, LineEnd + 2, Len(b)) = SubSeq(t, (p + n + 2) + 1, f)
    BY <2>3, <2>5
  <2>7. LineEnd \in Nat /\ LineEnd = n + 1
    BY <1>3, <2>2
  <2>8. LineEnd # 0 /\ p + n + 2 \in 0 .. f
    BY <2>3
  <2> QED BY <1>3, <1>8, <2>4, <2>6, <2>7, <2>8 DEF n, b
<1> QED BY <1>13, <1>14

-----------------------------------------------------------------------------
(* What the buffer is taken from.                                           *)
LEMMA MessageIs ==
    ASSUME NEW m \in Messages
    PROVE  /\ IsMessage(m) /\ Text(m) \in Seq(Units) /\ Len(Text(m)) \in Nat
           /\ MaxHeaderSize \in Nat /\ MaxBodySize \in Nat
<1>1. IsMessage(m) /\ MaxHeaderSize \in Nat /\ MaxBodySize \in Nat
  BY ParserAssumption
<1> QED BY <1>1, HeadIs

LEMMA GoesTo ==
    ASSUME NEW next, GoTo(next)
    PROVE  parserState' = next /\ parsing' \in BOOLEAN /\ (~parsing' => Waits')
BY DEF GoTo, Waits

(* The line that is next is awaited, or taken.                              *)
LEMMA LineAwaited ==
    ASSUME ParserInv, NEW p, Buffered(p), NEW s, IsLine(s), At(Text(message), p, s \o CRLF),
           LineEnd = 0
    PROVE  Len(buffer) \in Nat /\ Len(buffer) <= Len(s) + 1 /\ Len(s) \in Nat /\ fed < p + Len(s) + 2
<1> DEFINE t == Text(message)
<1>1. t \in Seq(Units) /\ fed \in 0 .. Len(t) /\ Len(t) \in Nat
  BY MessageIs DEF ParserInv
<1>2. p \in 0 .. fed /\ buffer = SubSeq(t, p + 1, fed) /\ At(t, p, s \o CRLF)
  BY DEF Buffered
<1> HIDE DEF t
<1>3. Len(s) \in Nat /\ Len(buffer) = fed - p /\ fed < p + Len(s) + 2
  BY <1>1, <1>2, LineIs
<1> QED BY <1>1, <1>2, <1>3

LEMMA LineTaken ==
    ASSUME ParserInv, NEW p, Buffered(p), NEW s, IsLine(s), At(Text(message), p, s \o CRLF),
           LineEnd # 0, TakeLine, message' = message, fed' = fed
    PROVE  /\ Line = s /\ LineEnd = Len(s) + 1 /\ Len(s) \in Nat
           /\ p + Len(s) + 2 \in Nat /\ Leaves(p + Len(s) + 2)
<1> DEFINE t == Text(message)
           q == p + Len(s) + 2
<1>1. t \in Seq(Units) /\ fed \in 0 .. Len(t) /\ Len(t) \in Nat
  BY MessageIs DEF ParserInv
<1>2. p \in 0 .. fed /\ buffer = SubSeq(t, p + 1, fed) /\ At(t, p, s \o CRLF)
  BY DEF Buffered
<1> HIDE DEF t
<1>3. /\ Len(s) \in Nat /\ Line = s /\ LineEnd = Len(s) + 1 /\ q \in 0 .. fed
      /\ SubSeq(buffer, LineEnd + 2, Len(buffer)) = SubSeq(t, q + 1, fed)
  BY <1>1, <1>2, LineIs
<1>4. buffer' = SubSeq(t, q + 1, fed) /\ q \in Nat
  BY <1>1, <1>3 DEF TakeLine
<1>5. t' = t
  BY DEF t
<1>6. q \in 0 .. fed' /\ buffer' = SubSeq(Text(message'), q + 1, fed')
  BY <1>3, <1>4 DEF t
<1>7. Leaves(q)
  BY <1>6 DEF Leaves
<1> QED BY <1>3, <1>4, <1>7

(* A line that is empty.                                                    *)
LEMMA EmptyLine ==
    IsLine(<<>>) /\ Len(<<>>) = 0 /\ <<>> \o CRLF = CRLF
<1>1. <<>> \in Seq(Units) /\ Len(<<>>) = 0
  BY EmptySeq
<1>2. <<>> \o CRLF = CRLF
  BY CrlfIs, ConcatEmptySeq
<1> QED BY <1>1, <1>2 DEF IsLine

LEMMA BufferGrows ==
    ASSUME ParserInv, NEW p, Buffered(p), NEW n \in 1 .. (Len(Text(message)) - fed),
           fed' = fed + n, buffer' = buffer \o SubSeq(Text(message), fed + 1, fed + n),
           message' = message
    PROVE  Leaves(p)
<1> DEFINE t == Text(message)
           g == fed + n
<1>1. t \in Seq(Units) /\ fed \in 0 .. Len(t) /\ Len(t) \in Nat
  BY MessageIs DEF ParserInv
<1>2. p \in 0 .. fed /\ buffer = SubSeq(t, p + 1, fed) /\ buffer' = buffer \o SubSeq(t, fed + 1, g)
  BY DEF Buffered
<1>3. n \in 1 .. (Len(t) - fed)
  OBVIOUS
<1>4. t = Text(message') /\ fed' = g
  OBVIOUS
<1> HIDE DEF t
<1>5. p + 1 \in 1 .. Len(t) + 1 /\ fed \in (p + 1) - 1 .. Len(t) /\ g \in fed .. Len(t) /\ p \in 0 .. g
  BY <1>1, <1>2, <1>3
<1> HIDE DEF g
<1>6. SubSeq(t, p + 1, fed) \o SubSeq(t, fed + 1, g) = SubSeq(t, p + 1, g)
  BY <1>1, <1>5, ConcatAdjacentSubSeq
<1> QED BY <1>2, <1>4, <1>5, <1>6 DEF Leaves

LEMMA StartIsLocated ==
    ASSUME message \in Messages, fed = 0, parserState = "request-line", buffer = <<>>,
           rawHeaders = 0, headers = NoHeaders, body = <<>>, parsing = FALSE
    PROVE  ParserInv
<1>1. Len(Text(message)) \in Nat
  BY MessageIs
<1>2. 0 \in 0 .. Len(Text(message))
  BY <1>1
<1>3. SubSeq(Text(message), 0 + 1, 0) = <<>>
  BY SubSeqEmpty
<1>4. Buffered(0)
  BY <1>3 DEF Buffered
<1>5. Located
  BY <1>4 DEF Located, AtStart
<1>6. Waits
  BY DEF Waits
<1> QED BY <1>2, <1>5, <1>6 DEF ParserInv

LEMMA WriteKeepsParserInv ==
    ASSUME ParserInv, ParserWrite PROVE ParserInv'
<1> DEFINE t == Text(message)
<1>1. t \in Seq(Units) /\ fed \in 0 .. Len(t) /\ Len(t) \in Nat /\ message \in Messages /\ Located
  BY MessageIs DEF ParserInv
<1>2. /\ ~parsing
      /\ UNCHANGED <<message, parserState, rawHeaders, headers, chunkSize, body>>
  BY DEF ParserWrite
<1>3. PICK n \in 1 .. (Len(t) - fed) :
          /\ fed' = fed + n
          /\ IF parserState \in {"complete", "error"}
             THEN UNCHANGED <<buffer, parsing>>
             ELSE /\ buffer' = buffer \o SubSeq(t, fed + 1, fed + n)
                  /\ parsing' = TRUE
  BY DEF ParserWrite
<1>4. fed' \in 0 .. Len(t) /\ message' \in Messages /\ t' = t
  <2>1. fed + n \in 0 .. Len(t)
    <3> HIDE DEF t
    <3> QED BY <1>1
  <2> QED BY <1>1, <1>2, <1>3, <2>1
<1>5. CASE parserState \in {"complete", "error"}
  <2>1. Located' /\ parsing' \in BOOLEAN
    <3>1. parsing' = FALSE
      BY <1>2, <1>3, <1>5 DEF ParserInv
    <3>2. parserState = "complete" => TakenAsMeant
      BY <1>1 DEF Located
    <3>3. parserState = "error" => Refused
      BY <1>1 DEF Located
    <3>4. parserState' = "complete" => TakenAsMeant'
      BY <1>2, <3>1, <3>2 DEF TakenAsMeant
    <3>5. parserState' = "error" => Refused'
      BY <1>2, <3>1, <3>3 DEF Refused
    <3> QED BY <1>2, <1>5, <3>1, <3>4, <3>5 DEF Located
  <2>2. Waits'
    BY <1>2, <1>5 DEF Waits
  <2> QED BY <1>4, <2>1, <2>2 DEF ParserInv
<1>6. CASE parserState \notin {"complete", "error"}
  <2>1. fed' = fed + n /\ buffer' = buffer \o SubSeq(t, fed + 1, fed + n) /\ parsing' = TRUE
    BY <1>3, <1>6
  <2>2. \A p : Buffered(p) => p \in 0 .. fed' /\ buffer' = SubSeq(Text(message'), p + 1, fed')
    BY <1>2, <2>1, BufferGrows DEF Leaves
  <2>3. AtStart => AtStart'
    BY <1>2, <2>2 DEF AtStart, Buffered
  <2>4. \A i : InHead(i) => InHead(i)'
    BY <1>2, <2>2 DEF InHead, Buffered, Seen
  <2>5. InContent => InContent'
    BY <1>2, <2>2 DEF InContent, Buffered
  <2>6. \A i : BeforeChunk(i) => BeforeChunk(i)'
    BY <1>2, <2>2 DEF BeforeChunk, Buffered
  <2>7. \A i, k : InChunk(i, k) => InChunk(i, k)'
    BY <1>2, <2>2 DEF InChunk, Buffered
  <2>8. \A i : BeforeTrailer(i) => BeforeTrailer(i)'
    BY <1>2, <2>2 DEF BeforeTrailer, Buffered
  <2>9. Located'
    BY <1>1, <1>2, <1>6, <2>3, <2>4, <2>5, <2>6, <2>7, <2>8 DEF Located
  <2> QED BY <1>4, <2>1, <2>9 DEF ParserInv
<1> QED BY <1>5, <1>6

LEMMA NextMessageKeepsParserInv ==
    ASSUME ParserInv, NextMessage PROVE ParserInv'
<1>1. /\ message' \in Messages /\ fed' = 0 /\ parserState' = "request-line" /\ buffer' = <<>>
      /\ rawHeaders' = 0 /\ headers' = NoHeaders /\ body' = <<>> /\ parsing' = FALSE
  BY DEF NextMessage, Reset
<1>2. Len(Text(message')) \in Nat
  BY <1>1, MessageIs
<1>3. 0 \in 0 .. Len(Text(message'))
  BY <1>2
<1>4. SubSeq(Text(message'), 0 + 1, 0) = <<>>
  BY SubSeqEmpty
<1>5. Buffered(0)'
  BY <1>1, <1>4 DEF Buffered
<1>6. Located'
  BY <1>1, <1>5 DEF Located, AtStart
<1>7. Waits'
  BY <1>1 DEF Waits
<1> QED BY <1>1, <1>3, <1>6, <1>7 DEF ParserInv

-----------------------------------------------------------------------------
(* The head.                                                                *)
LEMMA InHeaders ==
    ASSUME NEW m, IsMessage(m), NEW h
    PROVE  h \in ToSet(m.headers) <=> \E j \in 1 .. Len(m.headers) : m.headers[j] = h
<1>1. DOMAIN m.headers = 1 .. Len(m.headers)
  BY PartsAre, LenProperties
<1> QED BY <1>1 DEF ToSet

LEMMA HeadersFill ==
    ASSUME NEW m, IsMessage(m), NEW i \in 0 .. Len(m.headers)
    PROVE  /\ Len(Joined(HeadParts(m))[i]) \in Nat
           /\ Len(Joined(HeadParts(m))[0]) = 0
           /\ Len(Joined(HeadParts(m))[i]) <= Len(HeaderLines(m)) /\ Len(HeaderLines(m)) \in Nat
           /\ i # 0 => Len(Joined(HeadParts(m))[i])
                          = Len(Joined(HeadParts(m))[i - 1]) + Len(HeaderName(m.headers[i])) + 2
<1> DEFINE p == HeadParts(m)
           n == Len(m.headers)
           f == Joined(p)
<1>1. /\ p \in Seq(Seq(Units)) /\ Len(p) = n /\ n \in Nat /\ HeaderLines(m) = f[n]
      /\ \A j \in 1 .. n : p[j] = HeaderLine(m.headers[j]) /\ m.headers[j] \in HeaderKinds
  BY PartsAre
<1>2. i \in 0 .. n
  OBVIOUS
<1> HIDE DEF p, n
<1>3. /\ Len(f[0]) = 0 /\ \A j \in 0 .. n : Len(f[j]) \in Nat /\ Len(f[j]) <= Len(f[n])
      /\ \A j \in 1 .. n : Len(p[j]) \in Nat /\ Len(f[j]) = Len(f[j - 1]) + Len(p[j])
  BY <1>1, JoinedLengths
<1> HIDE DEF f
<1>4. n \in 0 .. n
  BY <1>1
<1>5. Len(f[i]) \in Nat /\ Len(f[i]) <= Len(f[n]) /\ Len(f[n]) \in Nat
  BY <1>2, <1>3, <1>4
<1>6. i # 0 => Len(f[i]) = Len(f[i - 1]) + Len(HeaderName(m.headers[i])) + 2
  <2> SUFFICES ASSUME i # 0 PROVE Len(f[i]) = Len(f[i - 1]) + Len(HeaderName(m.headers[i])) + 2
    OBVIOUS
  <2> DEFINE x == Len(HeaderName(m.headers[i]))
             y == Len(f[i - 1])
             z == Len(f[i])
  <2>1. i \in 1 .. n /\ i - 1 \in 0 .. n
    BY <1>1, <1>2
  <2>2. Len(p[i]) = x + 2 /\ x \in Nat
    BY <1>1, <2>1, HeaderLineIs
  <2>3. z = y + (x + 2) /\ y \in Nat
    BY <1>3, <2>1, <2>2
  <2> HIDE DEF x, y, z
  <2>4. z = y + x + 2
    BY <2>2, <2>3
  <2> QED BY <2>4 DEF x, y, z
<1> QED BY <1>1, <1>3, <1>5, <1>6 DEF p, n, f

(* The line that is next in a head.                                         *)
LEMMA HeadLine ==
    ASSUME ParserInv, NEW i \in 0 .. Len(message.headers)
    PROVE  /\ IsMessage(message) /\ Len(message.headers) \in Nat
           /\ i # Len(message.headers) =>
                 /\ i + 1 \in 1 .. Len(message.headers) /\ message.headers[i + 1] \in HeaderKinds
                 /\ IsLine(HeaderName(message.headers[i + 1]))
                 /\ HeaderName(message.headers[i + 1]) # <<>>
                 /\ Len(HeaderName(message.headers[i + 1])) \in Nat
                 /\ HeaderName(message.headers[i + 1])[1] = message.headers[i + 1]
                 /\ At(Text(message), HeaderAt(message, i),
                       HeaderName(message.headers[i + 1]) \o CRLF)
                 /\ HeaderAt(message, i + 1)
                       = HeaderAt(message, i) + Len(HeaderName(message.headers[i + 1])) + 2
           /\ i = Len(message.headers) => At(Text(message), HeaderAt(message, i), <<>> \o CRLF)
<1> DEFINE m == message
           n == Len(m.headers)
           h == m.headers[i + 1]
<1>1. IsMessage(m)
  BY MessageIs DEF ParserInv
<1>2. n \in Nat /\ \A j \in 1 .. n : m.headers[j] \in HeaderKinds
  BY <1>1, PartsAre
<1>3. ASSUME i # n
      PROVE  /\ i + 1 \in 1 .. n /\ h \in HeaderKinds
             /\ IsLine(HeaderName(h)) /\ HeaderName(h) # <<>> /\ Len(HeaderName(h)) \in Nat
             /\ HeaderName(h)[1] = h
             /\ At(Text(m), HeaderAt(m, i), HeaderName(h) \o CRLF)
             /\ HeaderAt(m, i + 1) = HeaderAt(m, i) + Len(HeaderName(h)) + 2
  <2>1. i + 1 \in 1 .. n /\ (i + 1) - 1 = i
    BY <1>2, <1>3
  <2>2. h \in HeaderKinds
    BY <1>2, <2>1
  <2>3. IsLine(HeaderName(h)) /\ Len(HeaderName(h)) \in Nat \ {0} /\ HeaderName(h)[1] = h
    BY <2>2, HeaderLineIs
  <2>4. HeaderName(h) # <<>>
    BY <2>3, EmptySeq
  <2>5. \A j \in 1 .. n :
           /\ At(Text(m), HeaderAt(m, j - 1), HeaderName(m.headers[j]) \o CRLF)
           /\ HeaderAt(m, j) = HeaderAt(m, j - 1) + Len(HeaderName(m.headers[j])) + 2
    BY <1>1, HeadIs
  <2>6. /\ At(Text(m), HeaderAt(m, (i + 1) - 1), HeaderName(h) \o CRLF)
        /\ HeaderAt(m, i + 1) = HeaderAt(m, (i + 1) - 1) + Len(HeaderName(h)) + 2
    BY <2>1, <2>5
  <2> QED BY <2>1, <2>2, <2>3, <2>4, <2>6
<1>4. i = n => At(Text(m), HeaderAt(m, i), <<>> \o CRLF)
  BY <1>1, HeadIs, EmptyLine
<1> QED BY <1>1, <1>2, <1>3, <1>4

LEMMA RequestLineKeepsParserInv ==
    ASSUME ParserInv, ParseRequestLine PROVE ParserInv'
<1> DEFINE m == message
           s == StartLine(m)
<1>1. /\ IsMessage(m) /\ m \in Messages /\ Located /\ fed \in 0 .. Len(Text(m))
      /\ MaxHeaderSize \in Nat
  BY MessageIs DEF ParserInv
<1>2. /\ parserState = "request-line" /\ LineEnd # 0 /\ TakeLine
      /\ message' = message /\ fed' = fed /\ rawHeaders' = rawHeaders /\ headers' = headers
      /\ body' = body
      /\ IF Line # <<>> /\ Line[1] = "start" THEN GoTo("headers") ELSE Throw
  BY DEF ParseRequestLine
<1>3. AtStart
  BY <1>1, <1>2 DEF Located
<1>4. IsLine(s) /\ s[1] = m.start /\ s # <<>> /\ At(Text(m), 0, s \o CRLF)
      /\ HeaderAt(m, 0) = Len(s) + 2
  BY <1>1, StartLineIs, HeadIs
<1>5. Line = s /\ Len(s) \in Nat /\ Leaves(0 + Len(s) + 2)
  <2>1. Buffered(0)
    BY <1>3 DEF AtStart
  <2> HIDE DEF s
  <2> QED BY <1>2, <1>4, <2>1, LineTaken
<1>6. CASE m.start = "start"
  <2>1. GoTo("headers")
    BY <1>2, <1>4, <1>5, <1>6
  <2>2. parserState' = "headers" /\ parsing' \in BOOLEAN /\ (~parsing' => Waits')
    BY <2>1, GoesTo
  <2>3. InHead(0)'
    <3>1. Buffered(HeaderAt(m, 0))'
      <4>1. 0 + Len(s) + 2 = HeaderAt(m, 0)
        BY <1>4, <1>5
      <4> QED BY <1>2, <1>5, <4>1 DEF Leaves, Buffered
    <3>2. headers = NoHeaders /\ rawHeaders = 0 /\ body = <<>>
      BY <1>3 DEF AtStart
    <3>3. /\ headers'.chunked = FALSE /\ headers'.length = "none"
          /\ headers' = [chunked |-> headers'.chunked, length |-> headers'.length]
      BY <1>2, <3>2 DEF NoHeaders
    <3>4. \A j : ~(j \in 1 .. 0)
      OBVIOUS
    <3>5. Seen(m, 0)'
      BY <1>2, <3>3, <3>4 DEF Seen
    <3>6. rawHeaders' = Len(Joined(HeadParts(message'))[0]) /\ rawHeaders' <= MaxHeaderSize
      <4>1. 0 \in 0 .. Len(m.headers)
        BY <1>1, PartsAre
      <4>2. Len(Joined(HeadParts(m))[0]) = 0
        BY <1>1, <4>1, HeadersFill
      <4> QED BY <1>1, <1>2, <3>2, <4>2
    <3> QED BY <1>2, <1>6, <3>1, <3>2, <3>3, <3>4, <3>5, <3>6 DEF InHead
  <2>4. Located'
    <3>1. 0 \in 0 .. Len(message'.headers)
      BY <1>1, <1>2, PartsAre
    <3> QED BY <2>2, <2>3, <3>1 DEF Located
  <2> QED BY <1>1, <1>2, <2>2, <2>4 DEF ParserInv
<1>7. CASE m.start # "start"
  <2>1. parserState' = "error" /\ parsing' = FALSE
    BY <1>2, <1>4, <1>5, <1>7 DEF Throw
  <2>2. Wrong(message')
    BY <1>2, <1>7 DEF Wrong
  <2>3. Located'
    BY <2>1, <2>2 DEF Located, Refused
  <2>4. Waits'
    BY <2>1 DEF Waits
  <2> QED BY <1>1, <1>2, <2>1, <2>3, <2>4 DEF ParserInv
<1> QED BY <1>6, <1>7

(* An error for a reason.                                                   *)
LEMMA Refuses ==
    ASSUME ParserInv, Throw, message' = message, fed' = fed,
           Wrong(message) \/ message.padding + 1 >= MaxHeaderSize
    PROVE  ParserInv'
<1>1. parserState' = "error" /\ parsing' = FALSE
  BY DEF Throw
<1>2. Wrong(message') \/ message'.padding + 1 >= MaxHeaderSize
  OBVIOUS
<1>3. Located'
  BY <1>1, <1>2 DEF Located, Refused
<1>4. Waits'
  BY <1>1 DEF Waits
<1> QED BY <1>1, <1>3, <1>4 DEF ParserInv

(* What is seen of one more header.                                         *)
LEMMA HeaderSeen ==
    ASSUME NEW m, IsMessage(m), NEW i \in Nat, i + 1 \in 1 .. Len(m.headers), Seen(m, i),
           NEW h, h = m.headers[i + 1],
           headers' = [chunked |-> headers.chunked \/ h = "chunked",
                       length |-> IF IsLength(h) /\ headers.length = "none" THEN h
                                  ELSE headers.length]
    PROVE  /\ Seen(m, i + 1)'
           /\ headers' = [chunked |-> headers'.chunked, length |-> headers'.length]
<1>1. i + 1 \in 1 .. i + 1 /\ \A j \in 1 .. i + 1 : j \in 1 .. i \/ j = i + 1
  OBVIOUS
<1>2. (i + 1) - 1 = i /\ \A j \in 1 .. i : j \in 1 .. i + 1
  OBVIOUS
<1>3. /\ headers.chunked \in BOOLEAN
      /\ headers.chunked <=> \E j \in 1 .. i : m.headers[j] = "chunked"
      /\ \/ headers.length = "none" /\ \A j \in 1 .. i : ~IsLength(m.headers[j])
         \/ \E j \in 1 .. i : /\ headers.length = m.headers[j] /\ IsLength(m.headers[j])
                              /\ \A k \in 1 .. j - 1 : ~IsLength(m.headers[k])
  BY DEF Seen
<1>4. /\ headers'.chunked <=> (headers.chunked \/ h = "chunked")
      /\ headers'.chunked \in BOOLEAN
      /\ headers'.length = IF IsLength(h) /\ headers.length = "none" THEN h ELSE headers.length
      /\ headers' = [chunked |-> headers'.chunked, length |-> headers'.length]
  OBVIOUS
<1>5. headers'.chunked <=> \E j \in 1 .. i + 1 : m.headers[j] = "chunked"
  BY <1>1, <1>2, <1>3, <1>4
<1>6. "none" \notin HeaderKinds
  <2>1. "none" \notin ToSet(Digits)
    <3>1. \A n \in 0 .. 4 : Digits[n + 1] # "none"
      BY DEF Digits
    <3> QED BY <3>1, DigitsAre
  <2> QED BY <2>1 DEF HeaderKinds, Other
<1>7. \A j \in 1 .. i : m.headers[j] # "none"
  <2> TAKE j \in 1 .. i
  <2>1. j \in 1 .. Len(m.headers)
    BY PartsAre
  <2>2. m.headers[j] \in HeaderKinds
    BY <2>1, PartsAre
  <2> QED BY <1>6, <2>2
<1>8. \/ headers'.length = "none" /\ \A j \in 1 .. i + 1 : ~IsLength(m.headers[j])
      \/ \E j \in 1 .. i + 1 : /\ headers'.length = m.headers[j] /\ IsLength(m.headers[j])
                               /\ \A k \in 1 .. j - 1 : ~IsLength(m.headers[k])
  <2>1. CASE headers.length # "none"
    BY <1>2, <1>3, <1>4, <2>1
  <2>2. CASE headers.length = "none" /\ IsLength(h)
    <3>1. \A j \in 1 .. i : ~IsLength(m.headers[j])
      BY <1>3, <1>7, <2>2
    <3> QED BY <1>1, <1>2, <1>4, <2>2, <3>1
  <2>3. CASE headers.length = "none" /\ ~IsLength(h)
    <3>1. \A j \in 1 .. i : ~IsLength(m.headers[j])
      BY <1>3, <1>7, <2>3
    <3> QED BY <1>1, <1>4, <2>3, <3>1
  <2> QED BY <2>1, <2>2, <2>3
<1> QED BY <1>4, <1>5, <1>8 DEF Seen

LEMMA HeaderKeepsParserInv ==
    ASSUME ParserInv, ParseHeader PROVE ParserInv'
<1> DEFINE m == message
           n == Len(m.headers)
<1>1. /\ IsMessage(m) /\ m \in Messages /\ Located /\ fed \in 0 .. Len(Text(m))
      /\ MaxHeaderSize \in Nat
  BY MessageIs DEF ParserInv
<1>2. /\ parserState = "headers" /\ LineEnd # 0 /\ Line # <<>> /\ TakeLine
      /\ rawHeaders' = rawHeaders + LineEnd + 1
      /\ headers' = [chunked |-> headers.chunked \/ Line[1] = "chunked",
                     length |-> IF IsLength(Line[1]) /\ headers.length = "none" THEN Line[1]
                                ELSE headers.length]
      /\ IF Line[1] = "bad" \/ rawHeaders' > MaxHeaderSize THEN Throw ELSE GoTo("headers")
      /\ message' = message /\ fed' = fed /\ body' = body
  BY DEF ParseHeader
<1>3. PICK i \in 0 .. n : InHead(i)
  BY <1>1, <1>2 DEF Located
<1>4. Buffered(HeaderAt(m, i)) /\ Seen(m, i) /\ m.start = "start"
      /\ rawHeaders = Len(Joined(HeadParts(m))[i]) /\ body = <<>>
      /\ \A j \in 1 .. i : m.headers[j] # "bad"
  BY <1>3 DEF InHead
<1>5. i # n
  <2> SUFFICES ASSUME i = n PROVE FALSE
    OBVIOUS
  <2>1. At(Text(m), HeaderAt(m, i), <<>> \o CRLF)
    BY HeadLine
  <2>2. Line = <<>>
    BY <1>2, <1>4, <2>1, EmptyLine, LineTaken
  <2> QED BY <1>2, <2>2
<1> DEFINE h == m.headers[i + 1]
           s == HeaderName(h)
           k == HeaderAt(m, i)
<1>6. /\ i + 1 \in 1 .. n /\ h \in HeaderKinds /\ IsLine(s) /\ s[1] = h /\ Len(s) \in Nat
      /\ At(Text(m), k, s \o CRLF) /\ HeaderAt(m, i + 1) = k + Len(s) + 2 /\ n \in Nat
  BY <1>5, HeadLine
<1>7. Line = s /\ LineEnd = Len(s) + 1 /\ Leaves(k + Len(s) + 2)
  <2>1. Buffered(k)
    BY <1>4
  <2> HIDE DEF s, k
  <2> QED BY <1>2, <1>6, <2>1, LineTaken
<1>8. /\ i + 1 \in 0 .. n /\ i \in Nat /\ (i + 1) - 1 = i /\ i + 1 # 0
      /\ \A j \in 1 .. i + 1 : j \in 1 .. i \/ j = i + 1
  BY <1>6
<1>9. /\ rawHeaders' = Len(Joined(HeadParts(m))[i + 1]) /\ rawHeaders' \in Nat
      /\ rawHeaders' <= Len(HeaderLines(m)) /\ Len(HeaderLines(m)) \in Nat
  <2> DEFINE x == Len(Joined(HeadParts(m))[i])
             y == Len(Joined(HeadParts(m))[i + 1])
  <2>1. x \in Nat
    BY <1>1, HeadersFill
  <2>2. /\ y \in Nat /\ y <= Len(HeaderLines(m)) /\ Len(HeaderLines(m)) \in Nat
        /\ i + 1 # 0 => y = Len(Joined(HeadParts(m))[(i + 1) - 1]) + Len(HeaderName(m.headers[i + 1])) + 2
    BY <1>1, <1>8, HeadersFill
  <2>3. y = x + Len(s) + 2
    BY <1>8, <2>2
  <2>4. rawHeaders' = x + (Len(s) + 1) + 1
    BY <1>2, <1>4, <1>7
  <2> HIDE DEF x, y, s
  <2>5. rawHeaders' = y
    BY <1>6, <2>1, <2>3, <2>4
  <2> QED BY <2>2, <2>5 DEF y
<1>10. CASE h = "bad" \/ rawHeaders' > MaxHeaderSize
  <2>1. Throw
    BY <1>2, <1>6, <1>7, <1>10
  <2>2. h = "bad" => "bad" \in ToSet(m.headers)
    BY <1>1, <1>6, InHeaders
  <2>3. rawHeaders' > MaxHeaderSize => Len(HeaderLines(m)) > MaxHeaderSize
    BY <1>1, <1>9
  <2>4. Wrong(m)
    BY <1>10, <2>2, <2>3 DEF Wrong
  <2> QED BY <1>2, <2>1, <2>4, Refuses
<1>11. CASE h # "bad" /\ ~(rawHeaders' > MaxHeaderSize)
  <2>1. GoTo("headers")
    BY <1>2, <1>6, <1>7, <1>11
  <2>2. parserState' = "headers" /\ parsing' \in BOOLEAN /\ (~parsing' => Waits')
    BY <2>1, GoesTo
  <2>3. Seen(m, i + 1)' /\ headers' = [chunked |-> headers'.chunked, length |-> headers'.length]
    <3>1. headers' = [chunked |-> headers.chunked \/ h = "chunked",
                      length |-> IF IsLength(h) /\ headers.length = "none" THEN h
                                 ELSE headers.length]
      BY <1>2, <1>6, <1>7
    <3>2. m' = m
      BY <1>2
    <3> HIDE DEF m
    <3> QED BY <1>1, <1>4, <1>6, <1>8, <3>1, <3>2, HeaderSeen DEF m
  <2>4. Buffered(HeaderAt(m, i + 1))'
    BY <1>2, <1>6, <1>7 DEF Leaves, Buffered
  <2>5. rawHeaders' <= MaxHeaderSize
    BY <1>1, <1>9, <1>11
  <2>6. \A j \in 1 .. i + 1 : message'.headers[j] # "bad"
    BY <1>2, <1>4, <1>8, <1>11
  <2>7. InHead(i + 1)'
    BY <1>2, <1>4, <1>9, <2>3, <2>4, <2>5, <2>6 DEF InHead
  <2>8. Located'
    BY <1>2, <1>8, <2>2, <2>7 DEF Located
  <2> QED BY <1>1, <1>2, <2>2, <2>8 DEF ParserInv
<1> QED BY <1>10, <1>11

(* When all of the head was read.                                           *)
LEMMA HeadRead ==
    ASSUME ParserInv, InHead(Len(message.headers))
    PROVE  /\ HeadFits(message) /\ (headers.chunked <=> Chunked(message))
           /\ headers.length = Length(message)
           /\ headers.length \in {"none", "nan"} \union ToSet(Digits)
<1> DEFINE m == message
           n == Len(m.headers)
           l == {i \in DOMAIN m.headers : IsLength(m.headers[i])}
<1>1. IsMessage(m) /\ MaxHeaderSize \in Nat
  BY MessageIs DEF ParserInv
<1>2. /\ n \in Nat /\ DOMAIN m.headers = 1 .. n /\ HeaderLines(m) = Joined(HeadParts(m))[n]
      /\ \A j \in 1 .. n : m.headers[j] \in HeaderKinds
  BY <1>1, PartsAre, LenProperties
<1>3. /\ m.start = "start" /\ rawHeaders = Len(Joined(HeadParts(m))[n]) /\ rawHeaders <= MaxHeaderSize
      /\ (\A j \in 1 .. n : m.headers[j] # "bad") /\ Seen(m, n)
  BY DEF InHead
<1>4. HeadFits(m)
  BY <1>2, <1>3 DEF HeadFits
<1>5. headers.chunked <=> Chunked(m)
  <2>1. headers.chunked <=> \E j \in 1 .. n : m.headers[j] = "chunked"
    BY <1>3 DEF Seen
  <2>2. "chunked" \in ToSet(m.headers) <=> \E j \in 1 .. n : m.headers[j] = "chunked"
    BY <1>1, InHeaders
  <2> QED BY <2>1, <2>2 DEF Chunked
<1>6. \/ headers.length = "none" /\ \A j \in 1 .. n : ~IsLength(m.headers[j])
      \/ \E j \in 1 .. n : /\ headers.length = m.headers[j] /\ IsLength(m.headers[j])
                           /\ \A k \in 1 .. j - 1 : ~IsLength(m.headers[k])
  BY <1>3 DEF Seen
<1>7. Length(m) = IF l = {} THEN "none" ELSE m.headers[CHOOSE i \in l : \A j \in l : i <= j]
  BY DEF Length
<1>8. \A j : j \in l <=> j \in 1 .. n /\ IsLength(m.headers[j])
  BY <1>2
<1> HIDE DEF l, n
<1>9. CASE headers.length = "none" /\ \A j \in 1 .. n : ~IsLength(m.headers[j])
  <2>1. l = {}
    BY <1>8, <1>9
  <2> QED BY <1>4, <1>5, <1>7, <1>9, <2>1
<1>10. CASE \E j \in 1 .. n : /\ headers.length = m.headers[j] /\ IsLength(m.headers[j])
                              /\ \A k \in 1 .. j - 1 : ~IsLength(m.headers[k])
  <2>1. PICK i \in 1 .. n : /\ headers.length = m.headers[i] /\ IsLength(m.headers[i])
                            /\ \A k \in 1 .. i - 1 : ~IsLength(m.headers[k])
    BY <1>10
  <2>2. i \in l /\ i \in Nat
    BY <1>8, <2>1
  <2>3. ASSUME NEW j \in l PROVE i <= j /\ j \in Nat
    <3>1. j \in 1 .. n /\ IsLength(m.headers[j])
      BY <1>8
    <3>2. ~(j \in 1 .. i - 1)
      BY <2>1, <3>1
    <3> QED BY <1>2, <3>1, <3>2
  <2>4. (CHOOSE x \in l : \A j \in l : x <= j) = i
    <3> DEFINE c == CHOOSE x \in l : \A j \in l : x <= j
    <3>1. c \in l /\ \A j \in l : c <= j
      BY <2>2, <2>3
    <3> HIDE DEF c
    <3>2. c <= i /\ i <= c /\ c \in Nat
      BY <2>2, <2>3, <3>1
    <3>3. c = i
      BY <2>2, <3>2
    <3> QED BY <3>3 DEF c
  <2>5. Length(m) = m.headers[i]
    BY <1>7, <2>2, <2>4
  <2>6. m.headers[i] \in HeaderKinds
    BY <1>2
  <2>7. headers.length \in {"none", "nan"} \union ToSet(Digits)
    BY <2>1, <2>6 DEF HeaderKinds, IsLength
  <2> QED BY <1>4, <1>5, <2>1, <2>5, <2>7
<1> QED BY <1>6, <1>9, <1>10

(* What can be wrong with a message whose head is not.                      *)
LEMMA WrongIs ==
    ASSUME NEW m \in Messages, HeadFits(m)
    PROVE  /\ Chunked(m) => (Wrong(m) <=> \/ Len(Content(m)) > MaxBodySize
                                          \/ m.chunks # <<>> /\ m.ending # CRLF)
           /\ ~Chunked(m) => (Wrong(m) <=> /\ Length(m) # "none"
                                           /\ Length(m) = "nan" \/ Value(Length(m)) > MaxBodySize)
<1>1. IsMessage(m) /\ MaxHeaderSize \in Nat
  BY MessageIs
<1>2. HeaderLines(m) \in Seq(Units)
  BY <1>1, PartsAre
<1>3. Len(HeaderLines(m)) \in Nat
  BY <1>2, LenProperties
<1>4. ~(m.start # "start") /\ ~(Len(HeaderLines(m)) > MaxHeaderSize)
  BY <1>1, <1>3 DEF HeadFits
<1>5. "bad" \notin ToSet(m.headers)
  BY <1>1, InHeaders DEF HeadFits
<1> QED BY Zenon, <1>4, <1>5 DEF Wrong

(* How long the bodies of the chunks get.                                   *)
LEMMA ChunksFill ==
    ASSUME NEW m, IsMessage(m), NEW i \in 0 .. Len(m.chunks)
    PROVE  /\ Joined(m.chunks)[i] \in Seq(Units) /\ Joined(m.chunks)[0] = <<>>
           /\ Len(Joined(m.chunks)[i]) \in Nat
           /\ Len(Joined(m.chunks)[i]) <= Len(Content(m)) /\ Len(Content(m)) \in Nat
           /\ i # 0 => /\ Joined(m.chunks)[i] = Joined(m.chunks)[i - 1] \o m.chunks[i]
                       /\ Len(Joined(m.chunks)[i]) = Len(Joined(m.chunks)[i - 1]) + Len(m.chunks[i])
<1> DEFINE p == m.chunks
           n == Len(p)
           f == Joined(p)
<1>1. p \in Seq(Seq(Units)) /\ n \in Nat /\ Content(m) = f[n]
  BY BodyPartsAre
<1>2. i \in 0 .. n /\ n = Len(p)
  OBVIOUS
<1> HIDE DEF p, n
<1>3. /\ \A j \in 0 .. n : Len(f[j]) \in Nat /\ Len(f[j]) <= Len(f[n])
      /\ \A j \in 1 .. n : Len(p[j]) \in Nat /\ Len(f[j]) = Len(f[j - 1]) + Len(p[j])
  BY <1>1, <1>2, JoinedLengths
<1>4. /\ f[0] = <<>> /\ \A j \in 1 .. n : f[j] = f[j - 1] \o p[j]
      /\ \A j \in 0 .. n : f[j] \in Seq(Units)
  BY <1>1, <1>2, JoinedIs
<1> HIDE DEF f
<1>5. n \in 0 .. n
  BY <1>1
<1>6. Len(f[i]) \in Nat /\ Len(f[i]) <= Len(f[n]) /\ Len(f[n]) \in Nat /\ f[i] \in Seq(Units)
  BY <1>2, <1>3, <1>4, <1>5
<1>7. i # 0 => f[i] = f[i - 1] \o p[i] /\ Len(f[i]) = Len(f[i - 1]) + Len(p[i])
  <2>1. i # 0 => i \in 1 .. n
    BY <1>1, <1>2
  <2> QED BY <1>3, <1>4, <2>1
<1> QED BY <1>1, <1>4, <1>6, <1>7 DEF p, n, f

LEMMA Completes ==
    ASSUME ParserInv, Completed, message' = message, fed' = fed,
           ~Wrong(message), body' = Meant(message), Len(body') <= MaxBodySize
    PROVE  ParserInv'
<1>1. parserState' = "complete" /\ parsing' = FALSE
  BY DEF Completed
<1>2. ~Wrong(message') /\ body' = Meant(message')
  OBVIOUS
<1>3. Located'
  BY <1>1, <1>2 DEF Located, TakenAsMeant
<1>4. Waits'
  BY <1>1 DEF Waits
<1> QED BY <1>1, <1>3, <1>4 DEF ParserInv

LEMMA TransitionKeepsParserInv ==
    ASSUME ParserInv, TransitionToBody PROVE ParserInv'
<1> DEFINE m == message
           n == Len(m.headers)
           l == headers.length
<1>1. /\ IsMessage(m) /\ m \in Messages /\ Located /\ fed \in 0 .. Len(Text(m))
      /\ MaxHeaderSize \in Nat /\ MaxBodySize \in Nat
  BY MessageIs DEF ParserInv
<1>2. /\ parserState = "headers" /\ LineEnd # 0 /\ Line = <<>> /\ TakeLine
      /\ message' = message /\ fed' = fed /\ headers' = headers /\ body' = body
      /\ CASE headers.chunked -> GoTo("body-chunk-size")
           [] ~headers.chunked /\ l \in {"none", "0"} -> Completed
           [] OTHER -> IF l = "nan" \/ Value(l) > MaxBodySize THEN Throw
                       ELSE GoTo("body-content-length")
  BY DEF TransitionToBody
<1>3. PICK i \in 0 .. n : InHead(i)
  BY <1>1, <1>2 DEF Located
<1>4. i = n
  <2> SUFFICES ASSUME i # n PROVE FALSE
    OBVIOUS
  <2> DEFINE s == HeaderName(m.headers[i + 1])
             k == HeaderAt(m, i)
  <2>1. IsLine(s) /\ s # <<>> /\ At(Text(m), k, s \o CRLF)
    BY HeadLine
  <2>2. Buffered(k)
    BY <1>3 DEF InHead
  <2> HIDE DEF s, k
  <2>3. Line = s
    BY <1>2, <2>1, <2>2, LineTaken
  <2> QED BY <1>2, <2>1, <2>3
<1>5. Leaves(BodyAt(m)) /\ BodyAt(m) \in Nat
  <2> DEFINE k == HeaderAt(m, n)
  <2>1. At(Text(m), k, <<>> \o CRLF)
    BY <1>3, <1>4, HeadLine
  <2>2. Buffered(k)
    BY <1>3, <1>4 DEF InHead
  <2>3. BodyAt(m) = k + 2
    BY DEF BodyAt
  <2> HIDE DEF k
  <2>4. Leaves(k + 0 + 2) /\ k + 0 + 2 \in Nat
    BY <1>2, <2>1, <2>2, EmptyLine, LineTaken
  <2>5. k \in Nat
    BY <2>1 DEF At
  <2>6. k + 0 + 2 = BodyAt(m)
    BY <2>3, <2>5
  <2> QED BY <2>4, <2>6
<1>6. /\ HeadFits(m) /\ (headers.chunked <=> Chunked(m)) /\ l = Length(m)
      /\ l \in {"none", "nan"} \union ToSet(Digits)
  BY <1>3, <1>4, HeadRead
<1>7. body' = <<>> /\ Len(body') = 0 /\ body = <<>>
  BY <1>2, <1>3, EmptySeq DEF InHead
<1>8. CASE Chunked(m)
  <2>1. GoTo("body-chunk-size")
    BY <1>2, <1>6, <1>8
  <2>2. parserState' = "body-chunk-size" /\ parsing' \in BOOLEAN /\ (~parsing' => Waits')
    BY <2>1, GoesTo
  <2>3. 0 \in 0 .. Len(m.chunks)
    BY <1>1, BodyPartsAre
  <2>4. Joined(m.chunks)[0] = <<>>
    BY <1>1, <2>3, ChunksFill
  <2>5. ChunksFit(m, 0)
    <3>1. Len(Joined(m.chunks)[0]) <= MaxBodySize
      BY <1>1, <1>7, <2>4
    <3> QED BY <1>6, <1>8, <3>1 DEF ChunksFit
  <2>6. ChunkAt(m, 0) = BodyAt(m)
    BY <1>1, <1>8, ChunksAre
  <2>7. BeforeChunk(0)'
    BY <1>2, <1>5, <1>7, <2>4, <2>5, <2>6 DEF BeforeChunk, Leaves, Buffered, ChunksFit
  <2>8. Located'
    BY <1>2, <2>2, <2>3, <2>7 DEF Located
  <2> QED BY <1>1, <1>2, <2>2, <2>8 DEF ParserInv
<1>9. CASE ~Chunked(m) /\ l \in {"none", "0"}
  <2>1. Completed
    BY <1>2, <1>6, <1>9
  <2>2. ~Wrong(m)
    <3>1. Value("0") = 0 /\ ~(0 > MaxBodySize)
      BY <1>1, DigitsAre
    <3> QED BY <1>1, <1>6, <1>9, <3>1, WrongIs
  <2>3. Meant(m) = <<>>
    <3>1. Value("0") = 0 /\ SubSeq(Content(m), 1, 0) = <<>>
      BY DigitsAre, SubSeqEmpty
    <3> QED BY <1>6, <1>9, <3>1 DEF Meant
  <2>4. Len(body') <= MaxBodySize
    BY <1>1, <1>7
  <2> QED BY <1>2, <1>7, <2>1, <2>2, <2>3, <2>4, Completes
<1>10. CASE ~Chunked(m) /\ l \notin {"none", "0"} /\ (l = "nan" \/ Value(l) > MaxBodySize)
  <2>1. Throw
    BY <1>2, <1>6, <1>10
  <2>2. Wrong(m)
    BY <1>1, <1>6, <1>10, WrongIs
  <2> QED BY <1>2, <2>1, <2>2, Refuses
<1>11. CASE ~Chunked(m) /\ l \notin {"none", "0"} /\ ~(l = "nan" \/ Value(l) > MaxBodySize)
  <2>1. GoTo("body-content-length")
    BY <1>2, <1>6, <1>11
  <2>2. /\ parserState' = "body-content-length" /\ parsing' \in BOOLEAN
        /\ (~parsing' => Waits')
    BY <2>1, GoesTo
  <2>3. l \in ToSet(Digits)
    BY <1>6, <1>11
  <2>4. PICK d \in 0 .. 4 : l = Digits[d + 1]
    BY <2>3, DigitsAre
  <2>5. Value(l) = d /\ d # 0
    BY <1>11, <2>4, DigitsAre
  <2>6. Len(body') < Value(l) /\ Value(l) <= MaxBodySize
    BY <1>1, <1>7, <1>11, <2>5
  <2>7. Content(m) \in Seq(Units)
    BY <1>1, BodyPartsAre
  <2>8. Len(Content(m)) \in Nat /\ SubSeq(Content(m), 1, 0) = <<>>
    BY <2>7, LenProperties, SubSeqEmpty
  <2>9. body' = SubSeq(Content(m), 1, Len(body')) /\ Len(body') \in 0 .. Len(Content(m))
    BY <1>7, <2>8
  <2>10. Buffered(BodyAt(m) + Len(body))'
    <3>1. BodyAt(m) + 0 = BodyAt(m)
      BY <1>5
    <3>2. Leaves(BodyAt(m) + Len(body'))
      BY <1>5, <1>7, <3>1
    <3> QED BY <1>2, <3>2 DEF Leaves, Buffered
  <2>11. InContent'
    BY <1>2, <1>6, <1>11, <2>3, <2>6, <2>9, <2>10 DEF InContent, HeadFits
  <2>12. Located'
    BY <2>2, <2>11 DEF Located
  <2> QED BY <1>1, <1>2, <2>2, <2>12 DEF ParserInv
<1> QED BY <1>8, <1>9, <1>10, <1>11

-----------------------------------------------------------------------------
(* A step that makes no progress.                                           *)
LEMMA Stays ==
    ASSUME ParserInv, parserState \notin {"complete", "error"}, parserState' = parserState,
           UNCHANGED <<message, fed, buffer, rawHeaders, headers, chunkSize, body>>,
           parsing' = FALSE, Waits'
    PROVE  ParserInv'
<1>1. message \in Messages /\ fed \in 0 .. Len(Text(message)) /\ Located
  BY DEF ParserInv
<1>2. \A p : Buffered(p) => p \in 0 .. fed' /\ buffer' = SubSeq(Text(message'), p + 1, fed')
  BY DEF Buffered
<1>3. AtStart => AtStart'
  BY <1>2 DEF AtStart, Buffered
<1>4. \A i : InHead(i) => InHead(i)'
  BY <1>2 DEF InHead, Buffered, Seen
<1>5. InContent => InContent'
  BY <1>2 DEF InContent, Buffered
<1>6. \A i : BeforeChunk(i) => BeforeChunk(i)'
  BY <1>2 DEF BeforeChunk, Buffered
<1>7. \A i, k : InChunk(i, k) => InChunk(i, k)'
  BY <1>2 DEF InChunk, Buffered
<1>8. \A i : BeforeTrailer(i) => BeforeTrailer(i)'
  BY <1>2 DEF BeforeTrailer, Buffered
<1>9. Located'
  BY <1>1, <1>3, <1>4, <1>5, <1>6, <1>7, <1>8 DEF Located
<1> QED BY <1>1, <1>9 DEF ParserInv

(* A head that is too long for what was written of it.                      *)
LEMMA HeadTooLong ==
    ASSUME ParserInv, parserState \in {"request-line", "headers"}, LineEnd = 0,
           Len(buffer) > MaxHeaderSize
    PROVE  Wrong(message) \/ message.padding + 1 >= MaxHeaderSize
<1> DEFINE m == message
           n == Len(m.headers)
           b == Len(buffer)
<1>1. IsMessage(m) /\ MaxHeaderSize \in Nat /\ Located /\ m.padding \in Nat /\ b > MaxHeaderSize
  BY MessageIs DEF ParserInv, IsMessage
<1>2. CASE parserState = "request-line"
  <2> DEFINE s == StartLine(m)
  <2>1. Buffered(0)
    BY <1>1, <1>2 DEF Located, AtStart
  <2>2. IsLine(s) /\ Len(s) = m.padding + 1 /\ At(Text(m), 0, s \o CRLF)
    BY <1>1, StartLineIs, HeadIs
  <2> HIDE DEF s
  <2>3. b \in Nat /\ b <= Len(s) + 1
    BY <2>1, <2>2, LineAwaited
  <2> HIDE DEF b
  <2>4. m.padding + 1 >= MaxHeaderSize
    BY <1>1, <2>2, <2>3
  <2> QED BY <2>4
<1>3. CASE parserState = "headers"
  <2>1. PICK i \in 0 .. n : InHead(i)
    BY <1>1, <1>3 DEF Located
  <2> DEFINE k == HeaderAt(m, i)
  <2>2. Buffered(k)
    BY <2>1 DEF InHead
  <2>3. CASE i = n
    <3>1. At(Text(m), k, <<>> \o CRLF)
      BY <2>3, HeadLine
    <3> HIDE DEF k
    <3>2. b \in Nat /\ b <= 0 + 1
      BY <2>2, <3>1, EmptyLine, LineAwaited
    <3> HIDE DEF b
    <3>3. m.padding + 1 >= MaxHeaderSize
      BY <1>1, <3>2
    <3> QED BY <3>3
  <2>4. CASE i # n
    <3> DEFINE s == HeaderName(m.headers[i + 1])
    <3>1. IsLine(s) /\ Len(s) \in Nat /\ At(Text(m), k, s \o CRLF) /\ i + 1 \in 1 .. n
      BY <2>4, HeadLine
    <3>2. i + 1 \in 0 .. n /\ i + 1 # 0 /\ (i + 1) - 1 = i
      BY <3>1, <1>1, PartsAre
    <3> DEFINE x == Len(Joined(HeadParts(m))[i])
               y == Len(Joined(HeadParts(m))[i + 1])
    <3>3. x \in Nat
      BY <1>1, HeadersFill
    <3>4. /\ y \in Nat /\ y <= Len(HeaderLines(m)) /\ Len(HeaderLines(m)) \in Nat
          /\ i + 1 # 0 => y = Len(Joined(HeadParts(m))[(i + 1) - 1]) + Len(HeaderName(m.headers[i + 1])) + 2
      BY <1>1, <3>2, HeadersFill
    <3>5. y = x + Len(s) + 2
      BY <3>2, <3>4
    <3> HIDE DEF k, s, x, y
    <3>6. b \in Nat /\ b <= Len(s) + 1
      BY <2>2, <3>1, LineAwaited
    <3> HIDE DEF b
    <3>7. Len(HeaderLines(m)) > MaxHeaderSize
      BY <1>1, <3>1, <3>3, <3>4, <3>5, <3>6
    <3> QED BY <3>7 DEF Wrong
  <2> QED BY <2>3, <2>4
<1> QED BY <1>2, <1>3

LEMMA LineWantedKeepsParserInv ==
    ASSUME ParserInv, LineWanted PROVE ParserInv'
<1>1. /\ parserState \in {"request-line", "headers", "body-chunk-size", "body-chunk-trailer"}
      /\ LineEnd = 0 /\ UNCHANGED <<message, fed, buffer, rawHeaders, headers, chunkSize, body>>
      /\ \/ /\ parserState \in {"request-line", "headers"} /\ Len(buffer) > MaxHeaderSize
            /\ Throw
         \/ parsing' = FALSE /\ parserState' = parserState
  BY DEF LineWanted, AwaitsLine
<1>2. CASE /\ parserState \in {"request-line", "headers"} /\ Len(buffer) > MaxHeaderSize
           /\ Throw
  BY <1>1, <1>2, HeadTooLong, Refuses
<1>3. CASE parsing' = FALSE /\ parserState' = parserState
  <2>1. LineEnd' = 0
    BY <1>1 DEF LineEnd
  <2>2. Waits'
    BY <1>1, <1>3, <2>1 DEF Waits
  <2> QED BY <1>1, <1>3, <2>2, Stays
<1> QED BY <1>1, <1>2, <1>3

-----------------------------------------------------------------------------
(* The body. What is taken of the buffer, when it is inside of s, is what   *)
(* comes next of s.                                                         *)
Taken(s, q, k, n) ==
    /\ n \in Nat /\ k + n \in 0 .. Len(s) /\ Leaves(q + (k + n))
    /\ body' = body \o SubSeq(buffer, 1, n) /\ SubSeq(buffer, 1, n) \in Seq(Units)
    /\ Len(SubSeq(buffer, 1, n)) = n
    /\ SubSeq(s, 1, k + n) = SubSeq(s, 1, k) \o SubSeq(buffer, 1, n)

LEMMA Consumes ==
    ASSUME ParserInv, NEW s \in Seq(Units), NEW q \in Nat, At(Text(message), q, s),
           NEW k \in 0 .. Len(s), Buffered(q + k), NEW w \in Nat, Consume(w),
           k + w <= Len(s) \/ fed <= q + Len(s), message' = message, fed' = fed
    PROVE  \E n \in 0 .. w : Taken(s, q, k, n)
<1> DEFINE t == Text(message)
           p == q + k
           b == buffer
           n == IF w < Len(b) THEN w ELSE Len(b)
           l == Len(s)
<1>1. t \in Seq(Units) /\ fed \in 0 .. Len(t) /\ Len(t) \in Nat
  BY MessageIs DEF ParserInv
<1>2. p \in 0 .. fed /\ b = SubSeq(t, p + 1, fed) /\ fed \in Nat
  BY <1>1 DEF Buffered
<1>3. body' = body \o SubSeq(b, 1, n) /\ buffer' = SubSeq(b, n + 1, Len(b))
  BY DEF Consume
<1>4. l \in Nat /\ k \in 0 .. l /\ (k + w <= l \/ fed <= q + l) /\ p = q + k
  BY LenProperties
<1>5. \A j \in 1 .. l : t[q + j] = s[j]
  BY DEF At
<1>6. t = Text(message') /\ fed' = fed
  OBVIOUS
<1> HIDE DEF t, b
<1>7. b \in Seq(Units) /\ Len(b) = fed - p /\ \A j \in 1 .. fed - p : b[j] = t[p + j]
  <2> HIDE DEF p
  <2> QED BY <1>1, <1>2, BufferIs
<1>8. n \in Nat /\ n <= w /\ n <= fed - p /\ n <= Len(b)
  <2> DEFINE c == Len(b)
  <2>1. c \in Nat /\ c = fed - p
    BY <1>2, <1>7, LenProperties
  <2>2. n = IF w < c THEN w ELSE c
    OBVIOUS
  <2> HIDE DEF p, c, n
  <2>3. n \in Nat /\ n <= w /\ n <= c
    BY <2>1, <2>2
  <2> QED BY <2>1, <2>3 DEF c
<1> HIDE DEF n, l
<1>9. k + n \in 0 .. l /\ k \in 0 .. k + n /\ q + (k + n) \in 0 .. fed /\ q + (k + n) = p + n
      /\ n \in 0 .. fed - p
  BY <1>2, <1>4, <1>8
<1> HIDE DEF p
<1>10. buffer' = SubSeq(t, (p + n) + 1, fed)
  BY <1>1, <1>2, <1>3, <1>9, BufferLeft
<1>11. Leaves(q + (k + n))
  BY <1>6, <1>9, <1>10 DEF Leaves
<1> DEFINE c == SubSeq(b, 0 + 1, n)
           d == SubSeq(s, k + 1, k + n)
<1>12. c \in Seq(Units) /\ Len(c) = n /\ \A j \in 1 .. n : c[j] = b[j]
  <2>1. n \in 0 .. Len(b) /\ 0 \in 0 .. n /\ n - 0 = n /\ \A j \in 1 .. n : 0 + j = j
    BY <1>7, <1>8, <1>9
  <2>2. c = SubSeq(b, 0 + 1, n)
    OBVIOUS
  <2> HIDE DEF c
  <2>3. c \in Seq(Units) /\ Len(c) = n - 0 /\ \A j \in 1 .. n - 0 : c[j] = b[0 + j]
    BY <1>7, <2>1, <2>2, BufferIs
  <2> QED BY <2>1, <2>3
<1>13. d \in Seq(Units) /\ Len(d) = n /\ \A j \in 1 .. n : d[j] = s[k + j]
  <2> DEFINE g == k + n
  <2>1. g \in 0 .. Len(s) /\ k \in 0 .. g /\ g - k = n
    BY <1>4, <1>8, <1>9 DEF l
  <2>2. d = SubSeq(s, k + 1, g)
    OBVIOUS
  <2> HIDE DEF g, d
  <2>3. d \in Seq(Units) /\ Len(d) = g - k /\ \A j \in 1 .. g - k : d[j] = s[k + j]
    BY <2>1, <2>2, BufferIs
  <2> QED BY <2>1, <2>3
<1> HIDE DEF c, d
<1>14. \A j \in 1 .. Len(c) : c[j] = d[j]
  <2> TAKE j \in 1 .. Len(c)
  <2>1. j \in 1 .. n /\ j \in 1 .. fed - p /\ k + j \in 1 .. l /\ p + j = q + (k + j)
    BY <1>2, <1>4, <1>8, <1>9, <1>12
  <2>2. c[j] = b[j] /\ b[j] = t[p + j] /\ t[q + (k + j)] = s[k + j] /\ d[j] = s[k + j]
    BY <1>5, <1>7, <1>12, <1>13, <2>1
  <2> QED BY <2>1, <2>2
<1>15. c = d
  BY <1>12, <1>13, <1>14, SeqEqual
<1>16. c = SubSeq(b, 1, n)
  <2>1. 0 + 1 = 1
    OBVIOUS
  <2> QED BY <2>1 DEF c
<1>17. SubSeq(s, 1, k) \o d = SubSeq(s, 1, k + n)
  <2> DEFINE g == k + n
  <2>1. 1 \in 1 .. Len(s) + 1 /\ k \in 1 - 1 .. Len(s) /\ g \in k .. Len(s)
    BY <1>4, <1>8, <1>9 DEF l
  <2>2. d = SubSeq(s, k + 1, g)
    BY DEF d
  <2> HIDE DEF g
  <2>3. SubSeq(s, 1, k) \o SubSeq(s, k + 1, g) = SubSeq(s, 1, g)
    BY <2>1, ConcatAdjacentSubSeq
  <2> QED BY <2>2, <2>3 DEF g
<1>18. Taken(s, q, k, n)
  BY <1>3, <1>8, <1>9, <1>11, <1>12, <1>15, <1>16, <1>17 DEF Taken, l, b
<1> QED BY <1>8, <1>18

LEMMA ContentKeepsParserInv ==
    ASSUME ParserInv, ParseBodyContentLength PROVE ParserInv'
<1> DEFINE m == message
           s == Content(m)
           v == Value(headers.length)
           k == Len(body)
           q == BodyAt(m)
<1>1. /\ IsMessage(m) /\ m \in Messages /\ Located /\ fed \in 0 .. Len(Text(m))
      /\ Len(Text(m)) \in Nat /\ MaxHeaderSize \in Nat /\ MaxBodySize \in Nat
  BY MessageIs DEF ParserInv
<1>2. /\ parserState = "body-content-length" /\ message' = message /\ fed' = fed
      /\ headers' = headers /\ Consume(v - k)
      /\ IF Len(body') = v THEN Completed ELSE GoTo("body-content-length")
  BY DEF ParseBodyContentLength
<1>3. InContent
  BY <1>1, <1>2 DEF Located
<1>4. /\ HeadFits(m) /\ ~Chunked(m) /\ headers.length = Length(m) /\ headers.length \in ToSet(Digits)
      /\ v <= MaxBodySize /\ k < v /\ k \in 0 .. Len(s) /\ body = SubSeq(s, 1, k) /\ Buffered(q + k)
  BY <1>3 DEF InContent
<1>5. PICK d \in 0 .. 4 : headers.length = Digits[d + 1] /\ v = d
  BY <1>4, DigitsAre
<1>6. s \in Seq(Units) /\ Len(s) \in Nat /\ q \in Nat /\ At(Text(m), q, s) /\ Len(Text(m)) = q + Len(s)
  <2>1. s \in Seq(Units)
    BY <1>1, BodyPartsAre
  <2>2. Body(m) = s
    BY <1>4 DEF Body
  <2> QED BY <1>1, <2>1, <2>2, HeadIs, LenProperties
<1>7. k \in Nat
  BY <1>4, <1>6
<1>8. k \in 0 .. Len(s) /\ v - k \in Nat /\ fed <= q + Len(s) /\ v \in Nat
  BY <1>1, <1>4, <1>5, <1>6, <1>7
<1>9. PICK n \in 0 .. v - k : Taken(s, q, k, n)
  <2> DEFINE w == v - k
  <2>1. w \in Nat /\ Consume(w)
    BY <1>2, <1>8
  <2> HIDE DEF w, s, q, v, k
  <2>2. \E n \in 0 .. w : Taken(s, q, k, n)
    BY <1>2, <1>4, <1>6, <1>8, <2>1, Consumes DEF m
  <2> QED BY <2>2 DEF w
<1>10. /\ k + n \in 0 .. Len(s) /\ Leaves(q + (k + n)) /\ body' = SubSeq(s, 1, k + n)
       /\ n \in Nat
  BY <1>4, <1>9 DEF Taken
<1>11. Len(body') = k + n
  <2> DEFINE g == k + n
             c == SubSeq(s, 0 + 1, g)
  <2>1. g \in 0 .. Len(s) /\ 0 \in 0 .. g /\ g - 0 = g
    BY <1>10
  <2>2. 0 + 1 = 1
    OBVIOUS
  <2>3. body' = c
    BY <1>10, <2>2
  <2>4. c = SubSeq(s, 0 + 1, g)
    OBVIOUS
  <2> HIDE DEF g, c, s
  <2>5. Len(c) = g - 0
    BY <1>6, <2>1, <2>4, BufferIs
  <2> QED BY <2>1, <2>3, <2>5 DEF g
<1>12. k + n <= v
  BY <1>7, <1>8, <1>10
<1> HIDE DEF k, v, s, q
<1>13. CASE k + n = v
  <2>1. Completed
    BY <1>2, <1>11, <1>13
  <2>2. ~Wrong(m)
    <3>1. headers.length # "nan" /\ ~(v > MaxBodySize)
      <4>1. headers.length # "nan"
        BY <1>5 DEF Digits
      <4> QED BY <1>1, <1>4, <1>8, <4>1
    <3> QED BY <1>1, <1>4, <3>1, WrongIs DEF v
  <2>3. body' = Meant(m)
    <3>1. headers.length # "none"
      BY <1>5 DEF Digits
    <3> QED BY <1>4, <1>10, <1>13, <3>1 DEF Meant, v, s
  <2>4. Len(body') <= MaxBodySize
    BY <1>4, <1>11, <1>13
  <2> QED BY <1>2, <2>1, <2>2, <2>3, <2>4, Completes
<1>14. CASE k + n # v
  <2>1. GoTo("body-content-length")
    BY <1>2, <1>11, <1>14
  <2>2. /\ parserState' = "body-content-length" /\ parsing' \in BOOLEAN
        /\ (~parsing' => Waits')
    BY <2>1, GoesTo
  <2>3. Len(body') < v /\ Len(body') \in 0 .. Len(s) /\ body' = SubSeq(s, 1, Len(body'))
    BY <1>6, <1>7, <1>8, <1>10, <1>11, <1>12, <1>14
  <2>4. Buffered(q + Len(body))'
    <3>1. Leaves(q + Len(body'))
      BY <1>10, <1>11
    <3> QED BY <1>2, <3>1 DEF Leaves, Buffered, q
  <2>5. InContent'
    BY <1>2, <1>4, <2>3, <2>4 DEF InContent, HeadFits, v, s, q
  <2>6. Located'
    BY <2>2, <2>5 DEF Located
  <2> QED BY <1>1, <1>2, <2>2, <2>6 DEF ParserInv
<1> QED BY <1>13, <1>14

(* The line of a length.                                                    *)
LEMMA SizeLine ==
    ASSUME NEW d \in 0 .. 4
    PROVE  /\ IsLine(<<Digits[d + 1]>>) /\ Len(<<Digits[d + 1]>>) = 1
           /\ <<Digits[d + 1]>>[1] = Digits[d + 1]
           /\ Digits[d + 1] \in ToSet(Digits) /\ Value(Digits[d + 1]) = d
           /\ Digits[d + 1] \notin {"cr", "lf"}
<1> DEFINE u == Digits[d + 1]
<1>1. u \in Units /\ u \notin {"cr", "lf"} /\ u \in ToSet(Digits) /\ Value(u) = d
  BY DigitsAre
<1> HIDE DEF u
<1> DEFINE s == <<u>>
<1>2. s \in Seq(Units) /\ Len(s) = 1 /\ s[1] = u
  BY <1>1
<1> HIDE DEF s
<1>3. \A j \in 1 .. Len(s) : s[j] # "lf"
  <2> TAKE j \in 1 .. Len(s)
  <2>1. j = 1
    BY <1>2
  <2> QED BY <1>1, <1>2, <2>1
<1>4. IsLine(s)
  BY <1>2, <1>3 DEF IsLine
<1> QED BY <1>1, <1>2, <1>4 DEF s, u

LEMMA ChunkSizeKeepsParserInv ==
    ASSUME ParserInv, ParseChunkSize PROVE ParserInv'
<1> DEFINE m == message
           c == Len(m.chunks)
<1>1. /\ IsMessage(m) /\ m \in Messages /\ Located /\ fed \in 0 .. Len(Text(m))
      /\ MaxHeaderSize \in Nat /\ MaxBodySize \in Nat
  BY MessageIs DEF ParserInv
<1>2. /\ parserState = "body-chunk-size" /\ LineEnd # 0 /\ TakeLine
      /\ message' = message /\ fed' = fed /\ headers' = headers /\ body' = body
      /\ IF Len(Line) # 1 \/ Line[1] \notin ToSet(Digits)
         THEN Throw /\ UNCHANGED chunkSize
         ELSE /\ chunkSize' = Value(Line[1])
              /\ IF Len(body) + chunkSize' > MaxBodySize THEN Throw
                 ELSE GoTo(IF chunkSize' = 0 THEN "body-chunk-trailer" ELSE "body-chunk-data")
  BY DEF ParseChunkSize
<1>3. PICK i \in 0 .. c : BeforeChunk(i)
  BY <1>1, <1>2 DEF Located
<1> DEFINE k == ChunkAt(m, i)
<1>4. /\ Buffered(k) /\ HeadFits(m) /\ Chunked(m) /\ Len(Joined(m.chunks)[i]) <= MaxBodySize
      /\ (i # 0 => m.ending = CRLF) /\ body = Joined(m.chunks)[i]
  BY <1>3 DEF BeforeChunk, ChunksFit
<1>5. c \in Nat
  BY <1>1, BodyPartsAre
<1>6. /\ body \in Seq(Units) /\ Len(body) \in Nat /\ Len(body) <= MaxBodySize
      /\ Len(Content(m)) \in Nat
  BY <1>1, <1>4, ChunksFill
<1>7. k \in Nat
  BY <1>1, <1>4, ChunksAre
<1>8. ASSUME NEW d \in 0 .. 4, At(Text(m), k, <<Digits[d + 1]>> \o CRLF)
      PROVE  /\ chunkSize' = d /\ Leaves(k + 3)
             /\ IF Len(body) + d > MaxBodySize THEN Throw
                ELSE GoTo(IF d = 0 THEN "body-chunk-trailer" ELSE "body-chunk-data")
  <2> DEFINE s == <<Digits[d + 1]>>
  <2>1. IsLine(s) /\ Len(s) = 1 /\ s[1] \in ToSet(Digits) /\ Value(s[1]) = d
    BY SizeLine
  <2>2. At(Text(m), k, s \o CRLF)
    BY <1>8
  <2> HIDE DEF s, k
  <2>6. LineEnd # 0 /\ TakeLine /\ message' = message /\ fed' = fed /\ Buffered(k)
    BY <1>2, <1>4
  <2>3. Line = s /\ Leaves(k + Len(s) + 2)
    <3>1. IsLine(s)
      BY <2>1
    <3> HIDE DEF m
    <3> QED BY <2>2, <2>6, <3>1, LineTaken DEF m
  <2>4. k + Len(s) + 2 = k + 3
    BY <1>7, <2>1
  <2>5. chunkSize' = d
    BY <1>2, <2>1, <2>3
  <2> QED BY <1>2, <2>1, <2>3, <2>4, <2>5
<1>9. CASE i = c
  <2>1. At(Text(m), k, <<"0">> \o CRLF) /\ TrailerAt(m, 0) = k + 3
    BY <1>1, <1>4, <1>9, ChunksAre
  <2>2. At(Text(m), k, <<Digits[0 + 1]>> \o CRLF)
    BY <2>1, DigitsAre
  <2> HIDE DEF k
  <2>3. /\ chunkSize' = 0 /\ Leaves(k + 3)
        /\ IF Len(body) + 0 > MaxBodySize THEN Throw
           ELSE GoTo(IF 0 = 0 THEN "body-chunk-trailer" ELSE "body-chunk-data")
    <3>1. 0 \in 0 .. 4
      OBVIOUS
    <3> QED BY <1>8, <2>2, <3>1
  <2>4. GoTo("body-chunk-trailer")
    <3>1. ~(Len(body) + 0 > MaxBodySize)
      BY <1>1, <1>6
    <3> QED BY <2>3, <3>1
  <2>5. parserState' = "body-chunk-trailer" /\ parsing' \in BOOLEAN /\ (~parsing' => Waits')
    BY <2>4, GoesTo
  <2>6. Buffered(TrailerAt(m, 0))'
    BY <1>2, <2>1, <2>3 DEF Leaves, Buffered
  <2>7. body = Content(m)
    BY <1>1, <1>4, <1>9, BodyPartsAre
  <2>8. BeforeTrailer(0)'
    BY <1>2, <1>4, <1>9, <2>6, <2>7 DEF BeforeTrailer, ChunksFit, HeadFits
  <2>9. 0 \in 0 .. message'.trailers
    BY <1>1, <1>2 DEF IsMessage
  <2>10. Located'
    BY <2>5, <2>8, <2>9 DEF Located
  <2> QED BY <1>1, <1>2, <2>5, <2>10 DEF ParserInv
<1>10. CASE i # c
  <2> DEFINE j == i + 1
             d == Len(m.chunks[j])
  <2>1. j \in 1 .. c /\ j \in 0 .. c /\ j # 0 /\ j - 1 = i
    BY <1>5, <1>10
  <2>2. d \in 0 .. 4 /\ d # 0
    <3>1. d \in 1 .. 4
      BY <1>1, <2>1, ChunkIs
    <3> HIDE DEF d
    <3> QED BY <3>1
  <2> HIDE DEF j, d
  <2>3. At(Text(m), k, <<Digits[d + 1]>> \o CRLF)
    <3>1. At(Text(m), ChunkAt(m, j - 1), <<Digits[Len(m.chunks[j]) + 1]>> \o CRLF)
      BY <1>1, <1>4, <2>1, ChunksAre
    <3> QED BY <2>1, <3>1 DEF d
  <2>4. /\ chunkSize' = d /\ Leaves(k + 3)
        /\ IF Len(body) + d > MaxBodySize THEN Throw
           ELSE GoTo(IF d = 0 THEN "body-chunk-trailer" ELSE "body-chunk-data")
    <3> HIDE DEF k
    <3> QED BY <1>8, <2>2, <2>3
  <2>5. /\ Len(Joined(m.chunks)[j]) \in Nat /\ Len(Joined(m.chunks)[j]) <= Len(Content(m))
        /\ Len(Joined(m.chunks)[j]) = Len(body) + d
    <3>1. Len(Joined(m.chunks)[j]) \in Nat /\ Len(Joined(m.chunks)[j]) <= Len(Content(m))
      BY <1>1, <2>1, ChunksFill
    <3>2. Len(Joined(m.chunks)[j]) = Len(Joined(m.chunks)[j - 1]) + Len(m.chunks[j])
      BY <1>1, <2>1, ChunksFill
    <3> QED BY <1>4, <2>1, <3>1, <3>2 DEF d
  <2>6. CASE Len(body) + d > MaxBodySize
    <3>1. Throw
      BY <2>4, <2>6
    <3>2. Len(Content(m)) > MaxBodySize
      BY <1>1, <1>6, <2>5, <2>6
    <3>3. Wrong(m)
      BY <1>4, <3>2 DEF Wrong
    <3> QED BY <1>2, <3>1, <3>3, Refuses
  <2>7. CASE ~(Len(body) + d > MaxBodySize)
    <3>1. GoTo("body-chunk-data")
      BY <2>2, <2>4, <2>7
    <3>2. parserState' = "body-chunk-data" /\ parsing' \in BOOLEAN /\ (~parsing' => Waits')
      BY <3>1, GoesTo
    <3>3. Len(Joined(m.chunks)[j]) <= MaxBodySize
      BY <1>1, <1>6, <2>5, <2>7
    <3>4. Buffered(ChunkAt(m, j - 1) + 3 + 0)'
      <4>1. k + 3 + 0 = k + 3
        BY <1>7
      <4> QED BY <1>2, <2>1, <2>4, <4>1 DEF Leaves, Buffered
    <3>5. body' = Joined(m.chunks)[j - 1] \o SubSeq(m.chunks[j], 1, 0)
      <4>1. SubSeq(m.chunks[j], 1, 0) = <<>>
        BY SubSeqEmpty
      <4>2. body \o <<>> = body
        BY <1>6, ConcatEmptySeq
      <4> QED BY <1>2, <1>4, <2>1, <4>1, <4>2
    <3>6. chunkSize' = Len(m.chunks[j]) - 0
      BY <2>2, <2>4 DEF d
    <3>7. ChunksFit(m, j - 1)
      BY <1>3, <2>1 DEF BeforeChunk
    <3>8. InChunk(j, 0)'
      BY <1>2, <3>3, <3>4, <3>5, <3>6, <3>7 DEF InChunk, ChunksFit, HeadFits
    <3>9. 0 \in 0 .. Len(m.chunks[j])
      BY <2>2 DEF d
    <3>10. Located'
      BY <1>2, <2>1, <3>2, <3>8, <3>9 DEF Located
    <3> QED BY <1>1, <1>2, <3>2, <3>10 DEF ParserInv
  <2> QED BY <2>6, <2>7
<1> QED BY <1>9, <1>10

LEMMA ChunkDataKeepsParserInv ==
    ASSUME ParserInv, ParseChunkData PROVE ParserInv'
<1> DEFINE m == message
           c == Len(m.chunks)
<1>1. /\ IsMessage(m) /\ m \in Messages /\ Located /\ fed \in 0 .. Len(Text(m))
      /\ MaxHeaderSize \in Nat /\ MaxBodySize \in Nat
  BY MessageIs DEF ParserInv
<1>2. /\ parserState = "body-chunk-data" /\ chunkSize # 0 /\ Consume(chunkSize)
      /\ chunkSize' = chunkSize - (Len(body') - Len(body)) /\ GoTo("body-chunk-data")
      /\ message' = message /\ fed' = fed
  BY DEF ParseChunkData
<1>3. PICK i \in 1 .. c : \E k \in 0 .. Len(m.chunks[i]) : InChunk(i, k)
  BY <1>1, <1>2 DEF Located
<1> DEFINE s == m.chunks[i]
           q == ChunkAt(m, i - 1) + 3
           f == Joined(m.chunks)[i - 1]
<1>4. PICK k \in 0 .. Len(s) : InChunk(i, k)
  BY <1>3
<1>5. /\ Buffered(q + k) /\ ChunksFit(m, i - 1) /\ Len(Joined(m.chunks)[i]) <= MaxBodySize
      /\ chunkSize = Len(s) - k /\ body = f \o SubSeq(s, 1, k)
  BY <1>4 DEF InChunk
<1>6. /\ s \in Seq(Units) /\ Len(s) \in Nat /\ q \in Nat /\ At(Text(m), q, s) /\ f \in Seq(Units)
  <2>1. Chunked(m)
    BY <1>5 DEF ChunksFit
  <2>2. s \in Seq(Units) /\ Len(s) \in 1 .. 4
    BY <1>1, ChunkIs
  <2>3. i - 1 \in 0 .. c /\ c \in Nat
    BY <1>1, BodyPartsAre
  <2>4. ChunkAt(m, i - 1) \in Nat /\ At(Text(m), q, s)
    BY <1>1, <2>1, <2>3, ChunksAre
  <2>5. f \in Seq(Units)
    BY <1>1, <2>3, ChunksFill
  <2>6. Len(s) \in Nat /\ q \in Nat
    BY <2>2, <2>4
  <2> QED BY <2>2, <2>4, <2>5, <2>6
<1>7. parserState' = "body-chunk-data" /\ parsing' \in BOOLEAN /\ (~parsing' => Waits')
  BY <1>2, GoesTo
<1>8. PICK n \in 0 .. chunkSize : Taken(s, q, k, n)
  <2> DEFINE w == chunkSize
  <2>1. w \in Nat /\ k + w <= Len(s) /\ Consume(w)
    BY <1>2, <1>5, <1>6
  <2>2. message' = message /\ fed' = fed /\ Buffered(q + k)
    BY <1>2, <1>5
  <2> HIDE DEF w, s, q
  <2>3. \E n \in 0 .. w : Taken(s, q, k, n)
    <3> HIDE DEF m
    <3> QED BY <1>6, <2>1, <2>2, Consumes DEF m
  <2> QED BY <2>3 DEF w
<1> DEFINE x == SubSeq(s, 1, k)
           b == SubSeq(buffer, 1, n)
<1>9. /\ n \in Nat /\ k + n \in 0 .. Len(s) /\ Leaves(q + (k + n)) /\ body' = body \o b
      /\ b \in Seq(Units) /\ Len(b) = n /\ SubSeq(s, 1, k + n) = x \o b
  BY <1>8 DEF Taken
<1>10. x \in Seq(Units)
  <2> DEFINE y == SubSeq(s, 0 + 1, k)
  <2>1. k \in 0 .. Len(s) /\ 0 \in 0 .. k /\ 0 + 1 = 1
    OBVIOUS
  <2>2. y = SubSeq(s, 0 + 1, k) /\ x = y
    BY <2>1
  <2> HIDE DEF y, s, x
  <2>3. y \in Seq(Units)
    BY <1>6, <2>1, <2>2, BufferIs
  <2> QED BY <2>2, <2>3
<1>11. body' = f \o SubSeq(s, 1, k + n)
  <2>1. body = f \o x
    BY <1>5
  <2> HIDE DEF f, x, b, s
  <2>2. AreSeqs(Units, f, x, b)
    BY <1>6, <1>9, <1>10 DEF AreSeqs
  <2>3. Associate(f, x, b)
    BY <2>2, Associates
  <2>4. body' = (f \o x) \o b /\ SubSeq(s, 1, k + n) = x \o b
    BY <1>9, <2>1
  <2>5. (f \o x) \o b = f \o (x \o b)
    BY <2>3 DEF Associate
  <2> QED BY Zenon, <2>4, <2>5
<1>12. chunkSize' = Len(s) - (k + n)
  <2> DEFINE u == Len(body)
  <2>1. body \in Seq(Units)
    <3>1. body = f \o x
      BY <1>5
    <3> HIDE DEF f, x
    <3> QED BY <1>6, <1>10, <3>1, ConcatIs
  <2>2. Len(body') = u + n /\ u \in Nat
    <3>1. body' = body \o b
      BY <1>9
    <3> HIDE DEF b
    <3> QED BY <1>9, <2>1, <3>1, ConcatIs
  <2> HIDE DEF u
  <2>3. chunkSize' = chunkSize - ((u + n) - u)
    BY <1>2, <2>2 DEF u
  <2> DEFINE l == Len(s)
  <2>4. chunkSize = l - k /\ l \in Nat
    BY <1>5, <1>6
  <2> HIDE DEF l
  <2>5. chunkSize' = l - (k + n)
    BY <1>9, <2>2, <2>3, <2>4
  <2> QED BY <2>5 DEF l
<1>13. Buffered(ChunkAt(message, i - 1) + 3 + (k + n))'
  BY <1>2, <1>9 DEF Leaves, Buffered
<1>14. InChunk(i, k + n)'
  BY <1>2, <1>5, <1>11, <1>12, <1>13 DEF InChunk, ChunksFit, HeadFits
<1>15. Located'
  BY <1>2, <1>7, <1>9, <1>14 DEF Located
<1> QED BY <1>1, <1>2, <1>7, <1>15 DEF ParserInv

(* What follows the last byte of a chunk is its end, or does not begin with *)
(* a line end: the next line, at the latest, begins with a length.          *)
LEMMA EndFollows ==
    ASSUME ParserInv, NEW i \in 1 .. Len(message.chunks), Chunked(message),
           Buffered(ChunkAt(message, i - 1) + 3 + Len(message.chunks[i])), Len(buffer) >= 2
    PROVE  /\ SubSeq(buffer, 1, 2) = CRLF <=> message.ending = CRLF
           /\ message.ending = CRLF =>
                 /\ ChunkAt(message, i) \in 0 .. fed
                 /\ SubSeq(buffer, 3, Len(buffer))
                       = SubSeq(Text(message), ChunkAt(message, i) + 1, fed)
<1> DEFINE m == message
           t == Text(m)
           c == Len(m.chunks)
           e == m.ending
           q == ChunkAt(m, i - 1) + 3 + Len(m.chunks[i])
           r == ChunkAt(m, i)
           b == buffer
           l == Len(e)
<1>1. /\ IsMessage(m) /\ fed \in 0 .. Len(t) /\ t \in Seq(Units) /\ Len(t) \in Nat
  BY MessageIs DEF ParserInv
<1>2. e \in Seq(Units) /\ l \in Nat /\ (e = CRLF \/ l < 2 \/ SubSeq(e, 1, 2) # CRLF)
  <2>1. e \in Seq(Units) /\ l \in Nat
    BY <1>1, ChunkIs
  <2> QED BY <1>1, <2>1 DEF IsMessage
<1>3. c \in Nat /\ i - 1 \in 0 .. c /\ i \in 0 .. c
  BY <1>1, BodyPartsAre
<1>4. q \in Nat /\ At(t, q, e) /\ r = q + l
  <2>1. Len(m.chunks[i]) \in 1 .. 4
    BY <1>1, ChunkIs
  <2>2. ChunkAt(m, i - 1) \in Nat
    BY <1>1, <1>3, ChunksAre
  <2>3. At(t, q, e) /\ r = ChunkAt(m, i - 1) + 3 + Len(m.chunks[i]) + Len(e)
    BY <1>1, ChunksAre
  <2> QED BY <2>1, <2>2, <2>3
<1>5. \E d \in 0 .. 4 : At(t, r, <<Digits[d + 1]>> \o CRLF)
  <2>1. CASE i = c
    <3>1. At(t, r, <<Digits[0 + 1]>> \o CRLF)
      BY <1>1, <2>1, ChunksAre, DigitsAre
    <3>2. 0 \in 0 .. 4
      OBVIOUS
    <3> QED BY <3>1, <3>2
  <2>2. CASE i # c
    <3> DEFINE j == i + 1
    <3>1. j \in 1 .. c /\ j - 1 = i
      BY <1>3, <2>2
    <3> HIDE DEF j
    <3>2. At(t, ChunkAt(m, j - 1), <<Digits[Len(m.chunks[j]) + 1]>> \o CRLF)
      BY <1>1, <3>1, ChunksAre
    <3> DEFINE d == Len(m.chunks[j])
    <3>3. d \in 1 .. 4
      BY <1>1, <3>1, ChunkIs
    <3>5. At(t, r, <<Digits[d + 1]>> \o CRLF)
      BY <3>1, <3>2
    <3> HIDE DEF d
    <3>4. d \in 0 .. 4
      BY <3>3
    <3> QED BY <3>4, <3>5
  <2> QED BY <2>1, <2>2
<1>6. t[r + 1] \notin {"cr", "lf"}
  <2>1. PICK d \in 0 .. 4 : At(t, r, <<Digits[d + 1]>> \o CRLF)
    BY <1>5
  <2> DEFINE s == <<Digits[d + 1]>>
             k == CRLF
  <2>2. /\ s \in Seq(Units) /\ Len(s) = 1 /\ s[1] \notin {"cr", "lf"} /\ k \in Seq(Units)
        /\ At(t, r, s \o k)
    BY <2>1, SizeLine, CrlfIs DEF IsLine
  <2> HIDE DEF s, k, t, r
  <2>3. At(t, r, s)
    BY <1>1, <2>2, AtConcat
  <2>4. t[r + 1] = s[1]
    BY <2>2, <2>3 DEF At
  <2> QED BY <2>2, <2>4
<1>7. q \in 0 .. fed /\ b = SubSeq(t, q + 1, fed)
  BY DEF Buffered
<1>8. Len(b) >= 2
  OBVIOUS
<1> HIDE DEF t, q, r, b, e
<1>9. b \in Seq(Units) /\ Len(b) = fed - q /\ \A j \in 1 .. fed - q : b[j] = t[q + j]
  BY <1>1, <1>7, BufferIs
<1>10. b[1] = t[q + 1] /\ b[2] = t[q + 2] /\ 1 \in 1 .. Len(b) - 1 /\ 1 + 1 = 2
       /\ 2 \in 0 .. fed - q
  <2>1. fed \in Nat
    BY <1>1
  <2>2. 1 \in 1 .. fed - q /\ 2 \in 1 .. fed - q /\ 2 \in 0 .. fed - q
    BY <1>4, <1>8, <1>9, <2>1
  <2>3. 1 \in 1 .. Len(b) - 1
    BY <1>4, <1>8, <1>9, <2>1
  <2> QED BY <1>9, <2>2, <2>3
<1>11. SubSeq(b, 1, 2) = CRLF <=> b[1] = "cr" /\ b[2] = "lf"
  <2>1. SubSeq(b, 1, 1 + 1) = CRLF <=> b[1] = "cr" /\ b[1 + 1] = "lf"
    BY <1>9, <1>10, PairIs
  <2> QED BY <1>10, <2>1
<1>12. \A j \in 1 .. l : t[q + j] = e[j]
  BY <1>4 DEF At
<1> HIDE DEF l
<1>13. CASE e = CRLF
  <2>1. l = 2 /\ e[1] = "cr" /\ e[2] = "lf"
    BY <1>13, CrlfIs DEF l
  <2>2. t[q + 1] = e[1] /\ t[q + 2] = e[2]
    BY <1>12, <2>1
  <2>3. SubSeq(b, 1, 2) = CRLF
    BY <1>10, <1>11, <2>1, <2>2
  <2>4. r = q + 2 /\ r \in 0 .. fed
    <3>1. r = q + 2
      BY <1>4, <2>1
    <3>2. fed \in Nat
      BY <1>1
    <3> QED BY <1>4, <1>10, <3>1, <3>2
  <2>5. SubSeq(b, 2 + 1, Len(b)) = SubSeq(t, (q + 2) + 1, fed)
    <3>1. t \in Seq(Units) /\ fed \in 0 .. Len(t) /\ q \in 0 .. fed
      BY <1>1, <1>7
    <3>2. b = SubSeq(t, q + 1, fed) /\ 2 \in 0 .. fed - q
      BY <1>7, <1>10
    <3> QED BY <3>1, <3>2, BufferLeft
  <2>6. 2 + 1 = 3
    OBVIOUS
  <2>7. SubSeq(b, 3, Len(b)) = SubSeq(t, r + 1, fed)
    BY <2>4, <2>5, <2>6
  <2> QED BY <1>13, <2>3, <2>4, <2>7 DEF b, r, t, e
<1>14. CASE e # CRLF
  <2>1. ~(b[1] = "cr" /\ b[2] = "lf")
    <3>1. CASE l = 0
      <4>1. r + 1 = q + 1
        BY <1>4, <3>1
      <4> QED BY <1>6, <1>10, <4>1
    <3>2. CASE l = 1
      <4>1. r + 1 = q + 2
        BY <1>4, <3>2
      <4> QED BY <1>6, <1>10, <4>1
    <3>3. CASE l >= 2
      <4>1. 1 \in 1 .. l /\ 2 \in 1 .. l /\ 1 \in 1 .. l - 1 /\ 1 + 1 = 2 /\ ~(l < 2)
        BY <1>2, <3>3
      <4>2. t[q + 1] = e[1] /\ t[q + 2] = e[2]
        BY <1>12, <4>1
      <4>3. SubSeq(e, 1, 1 + 1) = CRLF <=> e[1] = "cr" /\ e[1 + 1] = "lf"
        BY <1>2, <4>1, PairIs DEF l
      <4>4. SubSeq(e, 1, 2) # CRLF
        BY <1>2, <1>14, <4>1
      <4> QED BY <1>10, <4>1, <4>2, <4>3, <4>4
    <3> QED BY <1>2, <3>1, <3>2, <3>3
  <2> QED BY <1>11, <1>14, <2>1 DEF b, e
<1> QED BY <1>13, <1>14

LEMMA ChunkEndKeepsParserInv ==
    ASSUME ParserInv, ParseChunkEnd PROVE ParserInv'
<1> DEFINE m == message
           c == Len(m.chunks)
<1>1. /\ IsMessage(m) /\ m \in Messages /\ Located /\ fed \in 0 .. Len(Text(m))
      /\ MaxHeaderSize \in Nat /\ MaxBodySize \in Nat /\ Text(m) \in Seq(Units)
  BY MessageIs DEF ParserInv
<1>2. /\ parserState = "body-chunk-data" /\ chunkSize = 0
      /\ UNCHANGED <<message, fed, rawHeaders, headers, chunkSize, body>>
      /\ IF Len(buffer) < 2
         THEN parsing' = FALSE /\ UNCHANGED <<buffer, parserState>>
         ELSE IF SubSeq(buffer, 1, 2) # CRLF THEN Throw /\ UNCHANGED buffer
         ELSE /\ buffer' = SubSeq(buffer, 3, Len(buffer))
              /\ GoTo("body-chunk-size")
  BY DEF ParseChunkEnd
<1>3. PICK i \in 1 .. c : \E k \in 0 .. Len(m.chunks[i]) : InChunk(i, k)
  BY <1>1, <1>2 DEF Located
<1> DEFINE s == m.chunks[i]
           f == Joined(m.chunks)[i - 1]
<1>4. PICK k \in 0 .. Len(s) : InChunk(i, k)
  BY <1>3
<1>5. s \in Seq(Units) /\ Len(s) \in Nat
  <2>1. s \in Seq(Units) /\ Len(s) \in 1 .. 4
    BY <1>1, ChunkIs
  <2> QED BY <2>1
<1>6. k = Len(s)
  <2>1. chunkSize = Len(s) - k
    BY <1>4 DEF InChunk
  <2> QED BY <1>2, <1>5, <2>1
<1>7. /\ Buffered(ChunkAt(m, i - 1) + 3 + Len(s)) /\ HeadFits(m) /\ Chunked(m)
      /\ Len(Joined(m.chunks)[i]) <= MaxBodySize
      /\ body = f \o SubSeq(s, 1, Len(s))
  BY <1>4, <1>6 DEF InChunk, ChunksFit
<1>8. body = Joined(m.chunks)[i] /\ c \in Nat
  <2>1. SubSeq(s, 1, Len(s)) = s
    BY <1>5, SubSeqFull
  <2>2. i \in 0 .. c /\ i # 0 /\ c \in Nat
    BY <1>1, BodyPartsAre
  <2>3. Joined(m.chunks)[i] = f \o s
    BY <1>1, <2>2, ChunksFill
  <2> QED BY <1>7, <2>1, <2>2, <2>3
<1>9. CASE Len(buffer) < 2
  <2>1. parsing' = FALSE /\ UNCHANGED <<buffer, parserState>>
    BY <1>2, <1>9
  <2>2. Waits'
    BY <1>2, <1>9, <2>1 DEF Waits
  <2> QED BY <1>2, <2>1, <2>2, Stays
<1>10. CASE ~(Len(buffer) < 2)
  <2>1. Len(buffer) >= 2
    <3>1. Len(buffer) \in Nat
      <4>1. buffer = SubSeq(Text(m), (ChunkAt(m, i - 1) + 3 + Len(s)) + 1, fed)
            /\ ChunkAt(m, i - 1) + 3 + Len(s) \in 0 .. fed
        BY <1>7 DEF Buffered
      <4> DEFINE t == Text(m)
                 p == ChunkAt(m, i - 1) + 3 + Len(s)
      <4>2. buffer = SubSeq(t, p + 1, fed) /\ p \in 0 .. fed /\ t \in Seq(Units) /\ fed \in 0 .. Len(t)
        BY <1>1, <4>1
      <4> HIDE DEF t, p
      <4>3. buffer \in Seq(Units)
        BY <4>2, BufferIs
      <4> QED BY <4>3, LenProperties
    <3> QED BY <1>10, <3>1
  <2>2. /\ SubSeq(buffer, 1, 2) = CRLF <=> m.ending = CRLF
        /\ m.ending = CRLF =>
              /\ ChunkAt(m, i) \in 0 .. fed
              /\ SubSeq(buffer, 3, Len(buffer)) = SubSeq(Text(m), ChunkAt(m, i) + 1, fed)
    BY <1>7, <2>1, EndFollows
  <2>3. CASE m.ending # CRLF
    <3>1. Throw
      BY <1>2, <1>10, <2>2, <2>3
    <3>2. m.chunks # <<>>
      <4>1. c # 0
        BY <1>8
      <4> QED BY <4>1, EmptySeq
    <3>3. Wrong(m)
      BY <1>7, <2>3, <3>2 DEF Wrong
    <3> QED BY <1>2, <3>1, <3>3, Refuses
  <2>4. CASE m.ending = CRLF
    <3>1. buffer' = SubSeq(buffer, 3, Len(buffer)) /\ GoTo("body-chunk-size")
      BY <1>2, <1>10, <2>2, <2>4
    <3>2. /\ parserState' = "body-chunk-size" /\ parsing' \in BOOLEAN
          /\ (~parsing' => Waits')
      BY <3>1, GoesTo
    <3>3. Buffered(ChunkAt(m, i))'
      BY <1>2, <2>2, <2>4, <3>1 DEF Buffered
    <3>4. BeforeChunk(i)'
      BY <1>2, <1>7, <1>8, <2>4, <3>3 DEF BeforeChunk, ChunksFit, HeadFits
    <3>5. i \in 0 .. Len(message'.chunks)
      BY <1>2, <1>8
    <3>6. Located'
      BY <3>2, <3>4, <3>5 DEF Located
    <3> QED BY <1>1, <1>2, <3>2, <3>6 DEF ParserInv
  <2> QED BY <2>3, <2>4
<1> QED BY <1>9, <1>10

LEMMA TrailerKeepsParserInv ==
    ASSUME ParserInv, ParseChunkTrailer PROVE ParserInv'
<1> DEFINE m == message
           n == m.trailers
           h == HeaderName("plain")
<1>1. /\ IsMessage(m) /\ m \in Messages /\ Located /\ fed \in 0 .. Len(Text(m))
      /\ MaxHeaderSize \in Nat /\ MaxBodySize \in Nat /\ n \in Nat
  BY MessageIs DEF ParserInv, IsMessage
<1>2. /\ parserState = "body-chunk-trailer" /\ LineEnd # 0 /\ TakeLine
      /\ message' = message /\ fed' = fed /\ body' = body
      /\ IF Line = <<>> THEN Completed ELSE GoTo("body-chunk-trailer")
  BY DEF ParseChunkTrailer
<1>3. PICK i \in 0 .. n : BeforeTrailer(i)
  BY <1>1, <1>2 DEF Located
<1> DEFINE k == TrailerAt(m, i)
           c == Len(m.chunks)
<1>4. /\ Buffered(k) /\ HeadFits(m) /\ Chunked(m) /\ Len(Joined(m.chunks)[c]) <= MaxBodySize
      /\ (c # 0 => m.ending = CRLF) /\ body = Content(m)
  BY <1>3 DEF BeforeTrailer, ChunksFit
<1>5. k \in Nat
  BY <1>1, <1>4, ChunksAre
<1>6. CASE i = n
  <2>1. At(Text(m), k, <<>> \o CRLF)
    BY <1>1, <1>4, <1>6, ChunksAre, EmptyLine
  <2>2. LineEnd # 0 /\ TakeLine /\ message' = message /\ fed' = fed /\ Buffered(k)
    BY <1>2, <1>4
  <2>3. Line = <<>>
    <3> HIDE DEF k
    <3> QED BY <2>1, <2>2, EmptyLine, LineTaken
  <2>4. Completed
    BY <1>2, <2>3
  <2>5. Content(m) = Joined(m.chunks)[c] /\ c \in Nat /\ m.chunks \in Seq(Seq(Units))
    BY <1>1, BodyPartsAre
  <2>6. Len(Content(m)) \in Nat
    <3>1. c \in 0 .. c
      BY <2>5
    <3> QED BY <1>1, <3>1, ChunksFill
  <2>7. ~(Len(Content(m)) > MaxBodySize)
    BY <1>1, <1>4, <2>5, <2>6
  <2>8. m.chunks # <<>> => m.ending = CRLF
    BY <1>4, <2>5, EmptySeq
  <2>9. ~Wrong(m)
    BY <1>1, <1>4, <2>7, <2>8, WrongIs
  <2>10. body' = Meant(m)
    BY <1>2, <1>4 DEF Meant
  <2>11. Len(body') <= MaxBodySize
    BY <1>2, <1>4, <2>5
  <2> QED BY <1>2, <2>4, <2>9, <2>10, <2>11, Completes
<1>7. CASE i # n
  <2> DEFINE j == i + 1
  <2>1. j \in 1 .. n /\ j \in 0 .. n /\ j - 1 = i
    BY <1>1, <1>7
  <2> HIDE DEF j
  <2>2. /\ At(Text(m), TrailerAt(m, j - 1), h \o CRLF) /\ TrailerAt(m, j) = TrailerAt(m, j - 1) + 3
    BY <1>1, <1>4, <2>1, ChunksAre
  <2>3. IsLine(h) /\ Len(h) = 1 /\ h # <<>>
    <3>1. "plain" \in HeaderKinds
      BY DEF HeaderKinds, Other
    <3>2. IsLine(h) /\ Len(h) = 1
      BY <3>1, HeaderLineIs
    <3>3. h # <<>>
      <4> HIDE DEF h
      <4> QED BY <3>2, EmptyLine
    <3> QED BY <3>2, <3>3
  <2>4. LineEnd # 0 /\ TakeLine /\ message' = message /\ fed' = fed /\ Buffered(k)
    BY <1>2, <1>4
  <2>5. At(Text(m), k, h \o CRLF)
    BY <2>1, <2>2
  <2>6. Line = h /\ Leaves(k + Len(h) + 2)
    <3> HIDE DEF k, h
    <3>1. IsLine(h)
      BY <2>3
    <3> HIDE DEF m
    <3> QED BY <2>4, <2>5, <3>1, LineTaken DEF m
  <2>7. GoTo("body-chunk-trailer")
    BY <1>2, <2>3, <2>6
  <2>8. parserState' = "body-chunk-trailer" /\ parsing' \in BOOLEAN /\ (~parsing' => Waits')
    BY <2>7, GoesTo
  <2>9. Leaves(TrailerAt(m, j))
    <3>1. k + Len(h) + 2 = TrailerAt(m, j)
      <4> DEFINE x == Len(h)
      <4>1. x = 1 /\ TrailerAt(m, j) = k + 3
        BY <2>1, <2>2, <2>3
      <4> HIDE DEF x, k
      <4>2. k + x + 2 = TrailerAt(m, j)
        BY <1>5, <4>1
      <4> QED BY <4>2 DEF x
    <3> QED BY <2>6, <3>1
  <2>10. Buffered(TrailerAt(m, j))'
    BY <1>2, <2>9 DEF Leaves, Buffered
  <2>11. BeforeTrailer(j)'
    BY <1>2, <1>4, <2>10 DEF BeforeTrailer, ChunksFit, HeadFits
  <2>12. Located'
    BY <1>2, <2>1, <2>8, <2>11 DEF Located
  <2> QED BY <1>1, <1>2, <2>8, <2>12 DEF ParserInv
<1> QED BY <1>6, <1>7

-----------------------------------------------------------------------------
LEMMA StutterKeepsParserInv ==
    ASSUME ParserInv, parsing' = parsing,
           UNCHANGED <<message, fed, parserState, buffer, rawHeaders, headers, chunkSize, body>>
    PROVE  ParserInv'
<1>1. /\ message \in Messages /\ fed \in 0 .. Len(Text(message)) /\ Located /\ parsing \in BOOLEAN
      /\ (~parsing => Waits)
  BY DEF ParserInv
<1>2. \A p : Buffered(p) => p \in 0 .. fed' /\ buffer' = SubSeq(Text(message'), p + 1, fed')
  BY DEF Buffered
<1>3. AtStart => AtStart'
  BY <1>2 DEF AtStart, Buffered
<1>4. \A i : InHead(i) => InHead(i)'
  BY <1>2 DEF InHead, Buffered, Seen
<1>5. InContent => InContent'
  BY <1>2 DEF InContent, Buffered
<1>6. \A i : BeforeChunk(i) => BeforeChunk(i)'
  BY <1>2 DEF BeforeChunk, Buffered
<1>7. \A i, k : InChunk(i, k) => InChunk(i, k)'
  BY <1>2 DEF InChunk, Buffered
<1>8. \A i : BeforeTrailer(i) => BeforeTrailer(i)'
  BY <1>2 DEF BeforeTrailer, Buffered
<1>9. (TakenAsMeant => TakenAsMeant') /\ (Refused => Refused')
  BY DEF TakenAsMeant, Refused
<1>10. Located'
  BY <1>1, <1>3, <1>4, <1>5, <1>6, <1>7, <1>8, <1>9 DEF Located
<1>11. LineEnd' = LineEnd
  BY DEF LineEnd
<1>12. ~parsing' => Waits'
  BY <1>1, <1>11 DEF Waits
<1> QED BY <1>1, <1>10, <1>12 DEF ParserInv

(* When all of a message was written, no part of it is awaited.             *)
LEMMA NothingAwaited ==
    ASSUME ParserInv, NEW p, Buffered(p), NEW s, IsLine(s), At(Text(message), p, s \o CRLF),
           buffer = <<>> \/ LineEnd = 0
    PROVE  fed # Len(Text(message))
<1> DEFINE t == Text(message)
           c == CRLF
<1>1. t \in Seq(Units) /\ fed \in 0 .. Len(t) /\ Len(t) \in Nat
  BY MessageIs DEF ParserInv
<1>2. s \in Seq(Units) /\ c \in Seq(Units) /\ Len(c) = 2 /\ At(t, p, s \o c)
  BY CrlfIs DEF IsLine
<1> HIDE DEF t, c
<1>3. Len(s \o c) = Len(s) + 2 /\ Len(s) \in Nat
  BY <1>2, ConcatIs
<1>4. p \in Nat /\ p + Len(s \o c) <= Len(t)
  BY <1>2 DEF At
<1>5. fed < p + Len(s) + 2
  <2>1. CASE LineEnd = 0
    BY <2>1, LineAwaited
  <2>2. CASE buffer = <<>>
    <3>1. p \in 0 .. fed /\ buffer = SubSeq(t, p + 1, fed)
      BY DEF Buffered, t
    <3>2. Len(buffer) = fed - p
      BY <1>1, <3>1, BufferIs
    <3>3. fed - p = 0 /\ fed \in Nat
      BY <1>1, <2>2, <3>2, EmptyLine
    <3> QED BY <1>3, <1>4, <3>3
  <2> QED BY <2>1, <2>2
<1> DEFINE x == Len(s)
           y == Len(t)
<1>6. p + (x + 2) <= y /\ x \in Nat /\ y \in Nat /\ fed < p + x + 2 /\ fed \in 0 .. y
  BY <1>1, <1>3, <1>4, <1>5
<1> HIDE DEF x, y
<1>7. fed # y
  BY <1>4, <1>6
<1> QED BY <1>7 DEF y, t

LEMMA ParserInvImplies == ParserInv => ParsedAsWritten
<1> SUFFICES ASSUME ParserInv, ~parsing PROVE ParsedAsWritten
  BY DEF ParsedAsWritten
<1> DEFINE m == message
           t == Text(m)
           n == Len(m.headers)
           c == Len(m.chunks)
<1>1. /\ IsMessage(m) /\ m \in Messages /\ fed \in 0 .. Len(t) /\ Located /\ Waits
      /\ MaxHeaderSize \in Nat /\ MaxBodySize \in Nat /\ t \in Seq(Units) /\ Len(t) \in Nat
  BY MessageIs DEF ParserInv
<1>2. parserState = "complete" => ~Wrong(m) /\ body = Meant(m) /\ Len(body) <= MaxBodySize
  BY <1>1 DEF Located, TakenAsMeant
<1>3. parserState = "error" => Wrong(m) \/ m.padding + 1 >= MaxHeaderSize
  BY <1>1 DEF Located, Refused
<1>4. ASSUME fed = Len(t)
      PROVE  \/ parserState = "complete" \/ parserState = "error"
             \/ parserState = "body-content-length" /\ Len(Content(m)) < Value(Length(m))
  <2>1. CASE parserState = "request-line"
    <3> DEFINE s == StartLine(m)
    <3>1. Buffered(0) /\ (buffer = <<>> \/ LineEnd = 0)
      BY <1>1, <2>1 DEF Located, AtStart, Waits
    <3>2. IsLine(s) /\ At(t, 0, s \o CRLF)
      BY <1>1, StartLineIs, HeadIs
    <3> HIDE DEF s
    <3>3. fed # Len(t)
      BY <3>1, <3>2, NothingAwaited
    <3> QED BY <1>4, <3>3
  <2>2. CASE parserState = "headers"
    <3>1. PICK i \in 0 .. n : InHead(i)
      BY <1>1, <2>2 DEF Located
    <3> DEFINE k == HeaderAt(m, i)
    <3>2. Buffered(k) /\ (buffer = <<>> \/ LineEnd = 0)
      BY <1>1, <2>2, <3>1 DEF InHead, Waits
    <3>3. \E s : IsLine(s) /\ At(t, k, s \o CRLF)
      <4>1. CASE i = n
        BY <4>1, HeadLine, EmptyLine
      <4>2. CASE i # n
        BY <4>2, HeadLine
      <4> QED BY <4>1, <4>2
    <3>4. PICK s : IsLine(s) /\ At(t, k, s \o CRLF)
      BY <3>3
    <3> HIDE DEF k
    <3>5. fed # Len(t)
      BY <3>2, <3>4, NothingAwaited
    <3> QED BY <1>4, <3>5
  <2>3. CASE parserState = "body-content-length"
    <3> DEFINE s == Content(m)
               q == BodyAt(m)
               b == Len(body)
    <3>1. InContent /\ buffer = <<>>
      BY <1>1, <2>3 DEF Located, Waits
    <3>2. /\ ~Chunked(m) /\ headers.length = Length(m) /\ b < Value(headers.length)
          /\ b \in 0 .. Len(s) /\ Buffered(q + b) /\ headers.length \in ToSet(Digits)
      BY <3>1 DEF InContent
    <3>3. q \in Nat /\ Len(t) = q + Len(s)
      <4>1. Body(m) = s
        BY <3>2 DEF Body
      <4> QED BY <1>1, <4>1, HeadIs
    <3>4. q + b \in 0 .. fed /\ buffer = SubSeq(t, (q + b) + 1, fed)
      BY <3>2 DEF Buffered
    <3>5. fed - (q + b) = 0
      <4> DEFINE p == q + b
      <4>1. p \in 0 .. fed /\ buffer = SubSeq(t, p + 1, fed)
        BY <3>4
      <4> HIDE DEF p, t
      <4>2. Len(buffer) = fed - p
        BY <1>1, <4>1, BufferIs
      <4>3. fed - p = 0
        BY <3>1, <4>2, EmptyLine
      <4> QED BY <4>3 DEF p
    <3>6. Len(s) \in Nat
      <4>1. s \in Seq(Units)
        BY <1>1, BodyPartsAre
      <4> HIDE DEF s
      <4> QED BY <4>1, LenProperties
    <3> DEFINE x == Len(s)
               y == Len(t)
    <3>7. /\ x \in Nat /\ y = q + x /\ fed = y /\ q \in Nat /\ b \in 0 .. x /\ fed - (q + b) = 0
      BY <1>4, <3>2, <3>3, <3>5, <3>6
    <3> HIDE DEF x, y, b, q
    <3>8. b = x
      BY <3>7
    <3> QED BY <2>3, <3>2, <3>8 DEF x
  <2>4. CASE parserState = "body-chunk-size"
    <3>1. PICK i \in 0 .. c : BeforeChunk(i)
      BY <1>1, <2>4 DEF Located
    <3> DEFINE k == ChunkAt(m, i)
    <3>2. Buffered(k) /\ Chunked(m) /\ (buffer = <<>> \/ LineEnd = 0)
      BY <1>1, <2>4, <3>1 DEF BeforeChunk, ChunksFit, Waits
    <3>3. \E d \in 0 .. 4 : At(t, k, <<Digits[d + 1]>> \o CRLF)
      <4>1. CASE i = c
        <5>1. At(t, k, <<Digits[0 + 1]>> \o CRLF)
          BY <1>1, <3>2, <4>1, ChunksAre, DigitsAre
        <5>2. 0 \in 0 .. 4
          OBVIOUS
        <5> QED BY <5>1, <5>2
      <4>2. CASE i # c
        <5> DEFINE j == i + 1
                   d == Len(m.chunks[j])
        <5>1. j \in 1 .. c /\ j - 1 = i
          <6>1. c \in Nat
            BY <1>1, BodyPartsAre
          <6> QED BY <4>2, <6>1
        <5> HIDE DEF j
        <5>2. At(t, ChunkAt(m, j - 1), <<Digits[Len(m.chunks[j]) + 1]>> \o CRLF)
          BY <1>1, <3>2, <5>1, ChunksAre
        <5>3. d \in 1 .. 4
          BY <1>1, <5>1, ChunkIs
        <5>4. At(t, k, <<Digits[d + 1]>> \o CRLF)
          BY <5>1, <5>2
        <5> HIDE DEF d
        <5>5. d \in 0 .. 4
          BY <5>3
        <5> QED BY <5>4, <5>5
      <4> QED BY <4>1, <4>2
    <3>4. PICK d \in 0 .. 4 : At(t, k, <<Digits[d + 1]>> \o CRLF)
      BY <3>3
    <3> DEFINE s == <<Digits[d + 1]>>
    <3>5. IsLine(s) /\ At(t, k, s \o CRLF)
      BY <3>4, SizeLine
    <3> HIDE DEF k, s
    <3>6. fed # Len(t)
      BY <3>2, <3>5, NothingAwaited
    <3> QED BY <1>4, <3>6
  <2>5. CASE parserState = "body-chunk-data"
    <3>1. PICK i \in 1 .. c : \E k \in 0 .. Len(m.chunks[i]) : InChunk(i, k)
      BY <1>1, <2>5 DEF Located
    <3> DEFINE l == Len(m.chunks[i])
               a == ChunkAt(m, i - 1)
               b == ChunkAt(m, i)
               e == Len(m.ending)
    <3>2. PICK k \in 0 .. l : InChunk(i, k)
      BY <3>1
    <3>3. /\ Buffered(a + 3 + k) /\ Chunked(m) /\ chunkSize = l - k
          /\ buffer = <<>> \/ (chunkSize = 0 /\ Len(buffer) < 2)
      BY <1>1, <2>5, <3>2 DEF InChunk, ChunksFit, Waits
    <3>4. l \in 1 .. 4 /\ e \in Nat
      BY <1>1, ChunkIs
    <3>5. c \in Nat /\ i \in 0 .. c /\ i - 1 \in 0 .. c
      BY <1>1, BodyPartsAre
    <3>6. /\ a \in Nat /\ b = a + 3 + l + e
      BY <1>1, <3>3, <3>5, ChunksAre
    <3>7. b + 3 <= Len(t)
      <4>1. \E d \in 0 .. 4 : At(t, b, <<Digits[d + 1]>> \o CRLF)
        <5>1. CASE i = c
          <6>1. At(t, b, <<Digits[0 + 1]>> \o CRLF)
            BY <1>1, <3>3, <5>1, ChunksAre, DigitsAre
          <6>2. 0 \in 0 .. 4
            OBVIOUS
          <6> QED BY <6>1, <6>2
        <5>2. CASE i # c
          <6> DEFINE j == i + 1
                     d == Len(m.chunks[j])
          <6>1. j \in 1 .. c /\ j - 1 = i
            BY <3>5, <5>2
          <6> HIDE DEF j
          <6>2. At(t, ChunkAt(m, j - 1), <<Digits[Len(m.chunks[j]) + 1]>> \o CRLF)
            BY <1>1, <3>3, <6>1, ChunksAre
          <6>3. d \in 1 .. 4
            BY <1>1, <6>1, ChunkIs
          <6>4. At(t, b, <<Digits[d + 1]>> \o CRLF)
            BY <6>1, <6>2
          <6> HIDE DEF d
          <6>5. d \in 0 .. 4
            BY <6>3
          <6> QED BY <6>4, <6>5
        <5> QED BY <5>1, <5>2
      <4>2. PICK d \in 0 .. 4 : At(t, b, <<Digits[d + 1]>> \o CRLF)
        BY <4>1
      <4> DEFINE s == <<Digits[d + 1]>>
                 z == CRLF
      <4>3. s \in Seq(Units) /\ Len(s) = 1 /\ z \in Seq(Units) /\ Len(z) = 2 /\ At(t, b, s \o z)
        BY <4>2, SizeLine, CrlfIs DEF IsLine
      <4> HIDE DEF s, z, b, t
      <4>4. Len(s \o z) = Len(s) + Len(z)
        BY <4>3, ConcatIs
      <4>5. b + Len(s \o z) <= Len(t)
        BY <4>3 DEF At
      <4> QED BY <4>3, <4>4, <4>5
    <3>8. /\ a + 3 + k \in 0 .. fed /\ Len(buffer) = fed - (a + 3 + k)
      <4> DEFINE p == a + 3 + k
      <4>1. p \in 0 .. fed /\ buffer = SubSeq(t, p + 1, fed)
        BY <3>3 DEF Buffered
      <4> HIDE DEF p, t
      <4>2. Len(buffer) = fed - p
        BY <1>1, <4>1, BufferIs
      <4> QED BY <4>1, <4>2 DEF p
    <3>9. \/ fed - (a + 3 + k) = 0
          \/ l - k = 0 /\ fed - (a + 3 + k) < 2
      BY <3>3, <3>8, EmptyLine
    <3> DEFINE y == Len(t)
    <3>10. y = fed /\ b + 3 <= y /\ fed \in Nat
      BY <1>1, <1>4, <3>7
    <3> HIDE DEF a, b, l, e, y
    <3>11. FALSE
      <4>1. k \in Nat /\ k <= l /\ l \in Nat
        BY <3>4
      <4> QED BY <3>4, <3>6, <3>9, <3>10, <4>1
    <3> QED BY <3>11
  <2>6. CASE parserState = "body-chunk-trailer"
    <3>1. PICK i \in 0 .. m.trailers : BeforeTrailer(i)
      BY <1>1, <2>6 DEF Located
    <3> DEFINE k == TrailerAt(m, i)
    <3>2. Buffered(k) /\ Chunked(m) /\ (buffer = <<>> \/ LineEnd = 0)
      BY <1>1, <2>6, <3>1 DEF BeforeTrailer, ChunksFit, Waits
    <3>3. \E s : IsLine(s) /\ At(t, k, s \o CRLF)
      <4>1. CASE i = m.trailers
        BY <1>1, <3>2, <4>1, ChunksAre, EmptyLine
      <4>2. CASE i # m.trailers
        <5> DEFINE j == i + 1
        <5>1. j \in 1 .. m.trailers /\ j - 1 = i
          <6>1. m.trailers \in Nat
            BY <1>1 DEF IsMessage
          <6> QED BY <4>2, <6>1
        <5> HIDE DEF j
        <5>2. At(t, TrailerAt(m, j - 1), HeaderName("plain") \o CRLF)
          BY <1>1, <3>2, <5>1, ChunksAre
        <5>3. "plain" \in HeaderKinds
          BY DEF HeaderKinds, Other
        <5>4. IsLine(HeaderName("plain"))
          BY <5>3, HeaderLineIs
        <5> QED BY <5>1, <5>2, <5>4
      <4> QED BY <4>1, <4>2
    <3>4. PICK s : IsLine(s) /\ At(t, k, s \o CRLF)
      BY <3>3
    <3> HIDE DEF k
    <3>5. fed # Len(t)
      BY <3>2, <3>4, NothingAwaited
    <3> QED BY <1>4, <3>5
  <2> QED BY <1>1, <2>1, <2>2, <2>3, <2>4, <2>5, <2>6 DEF Located
<1>5. ASSUME fed = Len(t)
      PROVE  \/ parserState = (IF Wrong(m) THEN "error" ELSE "complete")
             \/ parserState = "error" /\ m.padding + 1 >= MaxHeaderSize
             \/ parserState = "body-content-length" /\ Len(Content(m)) < Value(Length(m))
  BY <1>2, <1>3, <1>4, <1>5
<1> QED BY <1>2, <1>3, <1>5 DEF ParsedAsWritten

-----------------------------------------------------------------------------
(* However a message is cut into pieces, it is taken for what was meant, or *)
(* refused for a reason, and nothing of it is awaited after its end.        *)
THEOREM MessagesAreParsed == ParserSpec => []ParsedAsWritten
<1>1. ParserInit => ParserInv
  BY StartIsLocated DEF ParserInit
<1>2. ParserInv /\ [ParserNext]_parserVars => ParserInv'
  <2> SUFFICES ASSUME ParserInv, [ParserNext]_parserVars PROVE ParserInv'
    OBVIOUS
  <2>1. CASE ParserWrite
    BY <2>1, WriteKeepsParserInv
  <2>2. CASE NextMessage
    BY <2>2, NextMessageKeepsParserInv
  <2>3. CASE LineWanted
    BY <2>3, LineWantedKeepsParserInv
  <2>4. CASE ParseRequestLine
    BY <2>4, RequestLineKeepsParserInv
  <2>5. CASE ParseHeader
    BY <2>5, HeaderKeepsParserInv
  <2>6. CASE TransitionToBody
    BY <2>6, TransitionKeepsParserInv
  <2>7. CASE ParseBodyContentLength
    BY <2>7, ContentKeepsParserInv
  <2>8. CASE ParseChunkSize
    BY <2>8, ChunkSizeKeepsParserInv
  <2>9. CASE ParseChunkData
    BY <2>9, ChunkDataKeepsParserInv
  <2>10. CASE ParseChunkEnd
    BY <2>10, ChunkEndKeepsParserInv
  <2>11. CASE ParseChunkTrailer
    BY <2>11, TrailerKeepsParserInv
  <2>12. CASE UNCHANGED parserVars
    <3>1. /\ UNCHANGED <<message, fed, parserState, buffer, rawHeaders, headers, chunkSize, body>>
          /\ parsing' = parsing
      BY <2>12 DEF parserVars
    <3> QED BY <3>1, StutterKeepsParserInv
  <2> QED BY <2>1, <2>2, <2>3, <2>4, <2>5, <2>6, <2>7, <2>8, <2>9, <2>10, <2>11, <2>12
      DEF ParserNext
<1> QED BY <1>1, <1>2, ParserInvImplies, PTL DEF ParserSpec

(****************************************************************************)
(* A session of MitmInterceptor.                                            *)
(****************************************************************************)
Replies == {"bad_request", "forbidden", "limited", "response", "gateway_error", "timeout"}

(* Nothing is processed yet, or its answer has not begun.                   *)
Unanswered == ~processing \/ stage \in {"limiter", "connecting", "waiting"}

(* What is left to write: to a session that was ended nothing, and to one   *)
(* that was not, the answer of the one request that it serves.              *)
SessionInv ==
    /\ SessionTypeOK
    /\ replies \in Seq(Replies)
    /\ stage # "none" => processing
    /\ ended => Len(replies) <= 1
    /\ ~ended /\ Unanswered => replies = <<>>
    /\ ~ended /\ stage = "body" => Len(replies) <= 1
    /\ ~ended => \A i \in DOMAIN replies : replies[i] # "timeout"

LEMMA LenIs ==
    ASSUME NEW s \in Seq(Replies)
    PROVE  /\ Len(s) \in Nat /\ DOMAIN s = 1..Len(s)
           /\ s = <<>> <=> Len(s) = 0
BY EmptySeq, LenProperties

LEMMA InitSession == SessionInit => SessionInv
<1> SUFFICES ASSUME SessionInit PROVE SessionInv
  OBVIOUS
<1>1. replies \in Seq(Replies) /\ replies = <<>>
  BY EmptySeq DEF SessionInit
<1>2. /\ Len(replies) <= 1 /\ Len(replies) <= 2
      /\ DOMAIN replies = {}
  <2>1. Len(replies) = 0 /\ DOMAIN replies = 1..Len(replies)
    BY <1>1, LenIs
  <2> QED BY <2>1
<1>3. parts \in 0..MaxParts /\ sent \in 0..MaxSent
  BY SessionAssumption DEF SessionInit
<1> QED BY <1>1, <1>2, <1>3 DEF SessionInit, SessionInv, SessionTypeOK

(* An answer adds itself, if it is written at all.                          *)
LEMMA ReplyAdds ==
    ASSUME SessionInv, NEW r \in Replies, Reply(r)
    PROVE  /\ replies' \in Seq(Replies)
           /\ Len(replies) \in Nat /\ Len(replies') \in Nat
           /\ Len(replies') <= Len(replies) + 1
           /\ ended => replies' = replies
           /\ \A i \in DOMAIN replies' :
                 \/ replies'[i] = r
                 \/ i \in DOMAIN replies /\ replies'[i] = replies[i]
<1>1. replies \in Seq(Replies)
  BY DEF SessionInv
<1> Len(replies) \in Nat
  BY <1>1, LenIs
<1>2. CASE client = "open" /\ ~ended
  <2>1. replies' = Append(replies, r)
    BY <1>2 DEF Reply
  <2>2. /\ replies' \in Seq(Replies) /\ Len(replies') = Len(replies) + 1
        /\ \A i \in 1..Len(replies) : replies'[i] = replies[i]
        /\ replies'[Len(replies) + 1] = r
    BY <1>1, <2>1, AppendProperties
  <2>3. \A i \in 1..Len(replies) + 1 : i = Len(replies) + 1 \/ i \in 1..Len(replies)
    BY <1>1, LenIs
  <2>4. DOMAIN replies' = 1..Len(replies) + 1 /\ DOMAIN replies = 1..Len(replies)
    BY <1>1, <2>2, LenIs
  <2> QED BY <1>2, <2>2, <2>3, <2>4
<1>3. CASE ~(client = "open" /\ ~ended)
  BY <1>1, <1>3 DEF Reply
<1> QED BY <1>2, <1>3

(* Whatever writes nothing.                                                 *)
LEMMA SilentStepKeeps ==
    ASSUME SessionInv,
           PartArrives \/ Drips \/ RequestDropped \/ UpstreamConnects \/ BodyEnds \/ ClientLeaves
    PROVE  SessionInv'
<1> USE SessionAssumption DEF SessionInv, SessionTypeOK, Unanswered, Fed
<1>1. CASE PartArrives
  BY <1>1 DEF PartArrives, Fits
<1>2. CASE Drips
  BY <1>2 DEF Drips
<1>3. CASE RequestDropped
  BY <1>3 DEF RequestDropped
<1>4. CASE UpstreamConnects
  BY <1>4 DEF UpstreamConnects
<1>5. CASE BodyEnds
  BY <1>5 DEF BodyEnds, PrepareForNextRequest
<1>6. CASE ClientLeaves
  BY <1>6 DEF ClientLeaves
<1> QED BY <1>1, <1>2, <1>3, <1>4, <1>5, <1>6

(* Parse errors and timeouts end the session: nothing is processed, so      *)
(* nothing was answered, unless the session had ended before.               *)
LEMMA EndingKeeps ==
    ASSUME SessionInv, ParseError \/ RequestTimeout
    PROVE  SessionInv'
<1>1. ~processing /\ ended' = TRUE
  BY DEF SessionInv, SessionTypeOK, ParseError, RequestTimeout, Fed
<1>2. PICK r \in {"bad_request", "timeout"} : Reply(r)
  BY DEF ParseError, RequestTimeout
<1>3. r \in Replies
  BY DEF Replies
<1>4. replies' \in Seq(Replies) /\ Len(replies') <= 1
  <2>1. CASE ended
    <3>1. replies' = replies
      BY <1>2, <1>3, <2>1, ReplyAdds
    <3> QED BY <2>1, <3>1 DEF SessionInv
  <2>2. CASE ~ended
    <3>1. Len(replies) = 0
      BY <1>1, <2>2, LenIs DEF SessionInv, Unanswered
    <3>2. /\ replies' \in Seq(Replies) /\ Len(replies') \in Nat
          /\ Len(replies') <= Len(replies) + 1
      BY <1>2, <1>3, ReplyAdds
    <3> QED BY <3>1, <3>2
  <2> QED BY <2>1, <2>2
<1>5. \A i \in DOMAIN replies' : replies'[i] = "timeout" => Len(replies') = 1
  <2>1. Len(replies') \in Nat /\ DOMAIN replies' = 1..Len(replies')
    BY <1>4, LenIs
  <2>2. ASSUME NEW i \in 1..Len(replies') PROVE Len(replies') = 1
    BY <1>4, <2>1, <2>2
  <2> QED BY <2>1, <2>2
<1>6. /\ client' = client /\ parts' = parts /\ processing' = processing /\ stage' = stage
      /\ sent' = sent /\ dripping' = dripping /\ timers' = timers \ {"request"}
      /\ parser' \in {parser, "error"}
  BY DEF ParseError, RequestTimeout
<1>7. stage' = "none" /\ ~processing'
  BY <1>1, <1>6 DEF SessionInv
<1>8. Len(replies') <= 2
  <2>1. Len(replies') \in Nat
    BY <1>4, LenIs
  <2> QED BY <1>4, <2>1
<1>9. SessionTypeOK'
  BY <1>1, <1>5, <1>6, <1>8 DEF SessionInv, SessionTypeOK
<1> QED BY <1>1, <1>4, <1>7, <1>9 DEF SessionInv

(* The other answers: the one request of a session that was not ended gets  *)
(* one, and an error behind a response that failed.                         *)
LEMMA AnswerKeeps ==
    ASSUME SessionInv, RequestCompletes \/ LimiterDecides \/ UpstreamResponds \/ UpstreamFails
    PROVE  SessionInv'
<1> USE DEF RequestCompletes, LimiterDecides, UpstreamResponds, UpstreamFails,
            PrepareForNextRequest, BeginsProcessing, Fed
<1>0. replies \in Seq(Replies)
  BY DEF SessionInv
<1>1. /\ client' = client /\ ended' = ended /\ dripping' = dripping
      /\ processing' = TRUE /\ "request" \notin timers'
      /\ timers' \subseteq {"request", "connect", "response"}
  BY DEF SessionInv, SessionTypeOK
<1>2. /\ parser' \in {"reading", "complete", "error"} /\ parts' \in 0..MaxParts
      /\ stage' \in {"none", "limiter", "connecting", "waiting", "body"}
      /\ sent' \in 0..MaxSent
  <2>1. parts \in 0..MaxParts /\ 0 \in 0..MaxParts /\ parts' \in {parts, 0}
    BY SessionAssumption DEF SessionInv, SessionTypeOK
  <2>2. sent' \in 0..MaxSent
    BY SessionAssumption DEF SessionInv, SessionTypeOK
  <2>3. parser' \in {"reading", "complete", "error"}
    BY DEF SessionInv, SessionTypeOK
  <2> QED BY <2>1, <2>2, <2>3
<1>3. CASE UNCHANGED replies
  <2>1. Unanswered' => Unanswered
    BY <1>1 DEF Unanswered
  <2>2. ~ended /\ stage' = "body" => Len(replies) <= 1
    <3>1. stage' = "body" => Unanswered
      BY DEF Unanswered
    <3>2. ~ended /\ Unanswered => Len(replies) = 0
      BY <1>0, LenIs DEF SessionInv
    <3> QED BY <3>1, <3>2
  <2>3. SessionTypeOK'
    BY <1>1, <1>2, <1>3 DEF SessionInv, SessionTypeOK
  <2> QED BY <1>1, <1>3, <2>1, <2>2, <2>3 DEF SessionInv
<1>4. ASSUME NEW r \in {"forbidden", "limited", "response", "gateway_error"}, Reply(r),
             ~ended => Len(replies) <= IF stage' = "body" THEN 0 ELSE 1,
             stage' \in {"none", "body"}
      PROVE  SessionInv'
  <2>1. r \in Replies /\ r # "timeout"
    BY <1>4 DEF Replies
  <2>2. replies' \in Seq(Replies)
    BY <1>4, <2>1, ReplyAdds
  <2>3. CASE ended
    <3>1. replies' = replies
      BY <1>4, <2>3 DEF Reply
    <3> QED BY <1>1, <1>2, <1>4, <2>2, <2>3, <3>1 DEF SessionInv, SessionTypeOK, Unanswered
  <2>4. CASE ~ended
    <3>1. /\ Len(replies) \in Nat /\ Len(replies') \in Nat
          /\ Len(replies') <= Len(replies) + 1
      BY <1>4, <2>1, ReplyAdds
    <3>2. Len(replies') <= 2 /\ (stage' = "body" => Len(replies') <= 1)
      BY <1>4, <2>4, <3>1
    <3>3. \A i \in DOMAIN replies' : replies'[i] # "timeout"
      BY <1>4, <2>1, <2>4, ReplyAdds DEF SessionInv
    <3>4. SessionTypeOK'
      <4>1. client' \in {"open", "closed"} /\ ended' \in BOOLEAN /\ dripping' \in BOOLEAN
        BY <1>1 DEF SessionInv, SessionTypeOK
      <4> QED BY <1>1, <1>2, <3>2, <3>3, <4>1 DEF SessionTypeOK
    <3>5. ~Unanswered'
      BY <1>1, <1>4 DEF Unanswered
    <3> QED BY <1>1, <2>2, <2>4, <3>2, <3>3, <3>4, <3>5 DEF SessionInv
  <2> QED BY <2>3, <2>4
<1>5. CASE RequestCompletes
  <2>1. ~ended => Len(replies) = 0
    BY <1>5, LenIs DEF SessionInv, Unanswered
  <2> QED BY <1>3, <1>4, <1>5, <2>1
<1>6. CASE LimiterDecides
  <2>1. ~ended => Len(replies) = 0
    BY <1>6, LenIs DEF SessionInv, Unanswered
  <2> QED BY <1>3, <1>4, <1>6, <2>1
<1>7. CASE UpstreamResponds
  <2>1. ~ended => Len(replies) = 0
    BY <1>7, LenIs DEF SessionInv, Unanswered
  <2> QED BY <1>4, <1>7, <2>1
<1>8. CASE UpstreamFails
  <2>1. ~ended => Len(replies) <= 1
    <3>1. CASE stage = "body"
      BY <3>1 DEF SessionInv
    <3>2. CASE stage # "body"
      <4>1. ~ended => Len(replies) = 0
        BY <1>8, <3>2, LenIs DEF SessionInv, Unanswered
      <4> QED BY <4>1
    <3> QED BY <3>1, <3>2
  <2> QED BY <1>4, <1>8, <2>1
<1> QED BY <1>5, <1>6, <1>7, <1>8

LEMMA NextKeepsSession == SessionInv /\ [SessionNext]_sessionVars => SessionInv'
<1> SUFFICES ASSUME SessionInv, [SessionNext]_sessionVars PROVE SessionInv'
  OBVIOUS
<1>1. CASE UNCHANGED sessionVars
  BY <1>1 DEF sessionVars, SessionInv, SessionTypeOK, Unanswered
<1> QED BY <1>1, SilentStepKeeps, EndingKeeps, AnswerKeeps DEF SessionNext, Upstream

(* interceptor.ts: isProcessing and the request timer exclude each other, so*)
(* that a request in service is never answered by a timeout; what the parser*)
(* holds is bounded; and a client reads two answers at most, the second one *)
(* behind a response that failed.                                           *)
THEOREM SessionTypes == SessionSpec => []SessionTypeOK
<1>1. SessionInv => SessionTypeOK
  BY DEF SessionInv
<1> QED BY InitSession, NextKeepsSession, <1>1, PTL DEF SessionSpec

(****************************************************************************)
(* The ranges of addresses.                                                 *)
(****************************************************************************)
(* An address has a bit.                                                    *)
LEMMA WidthIs == Width \in Nat \ {0} /\ OctetBits <= Width
BY RangesAssumption DEF Width

(* Pow2 holds the powers of two.                                            *)
LEMMA PowersAre ==
    /\ Pow2[0] = 1
    /\ \A n \in 0 .. Width : Pow2[n] \in Nat \ {0}
    /\ \A n \in 1 .. Width : Pow2[n] = 2 * Pow2[n - 1]
<1> DEFINE G == [i \in 1 .. Width |-> [x \in Nat |-> 2 * x]]
           X == [i \in 0 .. Width |-> Nat \ {0}]
           K(f) == f = [n \in 0 .. Width |-> IF n = 0 THEN 1 ELSE 2 * f[n - 1]]
<1>0. Width \in Nat
  BY WidthIs
<1>1. \E f : K(f)
  <2>1. PICK f : IsRun(f, Width, 1, G)
    BY <1>0, Iterates
  <2>2. \A i \in 0 .. Width : f[i] = IF i = 0 THEN 1 ELSE G[i][f[i - 1]]
    BY <2>1 DEF IsRun
  <2>3. ASSUME NEW i \in 1 .. Width, f[i - 1] \in Nat \ {0}
        PROVE  f[i] = 2 * f[i - 1] /\ f[i] \in Nat \ {0}
    <3>1. f[i] = G[i][f[i - 1]]
      <4>1. i \in 0 .. Width /\ i # 0
        BY <1>0
      <4> HIDE DEF G
      <4> QED BY <2>2, <4>1
    <3>2. G[i][f[i - 1]] = 2 * f[i - 1]
      BY <2>3
    <3> QED BY <2>3, <3>1, <3>2
  <2>4. f[0] = 1
    <3>1. 0 \in 0 .. Width
      BY <1>0
    <3> HIDE DEF G
    <3> QED BY <2>2, <3>1
  <2>5. \A i \in 0 .. Width : f[i] \in X[i]
    <3>1. f[0] \in X[0]
      BY <1>0, <2>4
    <3>2. \A i \in 1 .. Width : f[i - 1] \in X[i - 1] => f[i] \in X[i]
      BY <1>0, <2>3
    <3> HIDE DEF X
    <3> QED BY <1>0, <3>1, <3>2, Inherits
  <2>6. \A i \in 0 .. Width : f[i] = IF i = 0 THEN 1 ELSE 2 * f[i - 1]
    <3> TAKE i \in 0 .. Width
    <3>1. CASE i = 0
      BY <2>4, <3>1
    <3>2. CASE i # 0
      <4>1. i \in 1 .. Width /\ i - 1 \in 0 .. Width
        BY <1>0, <3>2
      <4>2. f[i - 1] \in Nat \ {0}
        BY <2>5, <4>1
      <4> QED BY <2>3, <3>2, <4>1, <4>2
    <3> QED BY <3>1, <3>2
  <2>7. f = [i \in 0 .. Width |-> f[i]]
    BY <2>1 DEF IsRun
  <2> QED BY <2>6, <2>7
<1>2. K(Pow2)
  <2> DEFINE k == CHOOSE f : K(f)
  <2>1. K(k)
    BY <1>1
  <2>2. Pow2 = k
    BY DEF Pow2
  <2> QED BY <2>1, <2>2
<1>3. \A i \in 0 .. Width : Pow2[i] = IF i = 0 THEN 1 ELSE 2 * Pow2[i - 1]
  BY <1>2
<1>4. Pow2[0] = 1 /\ \A i \in 1 .. Width : Pow2[i] = 2 * Pow2[i - 1]
  BY <1>0, <1>3
<1>5. \A i \in 0 .. Width : Pow2[i] \in X[i]
  <2>1. Pow2[0] \in X[0]
    BY <1>0, <1>4
  <2>2. \A i \in 1 .. Width : Pow2[i - 1] \in X[i - 1] => Pow2[i] \in X[i]
    <3>1. \A i \in 1 .. Width : X[i - 1] = Nat \ {0} /\ X[i] = Nat \ {0}
      BY <1>0
    <3> HIDE DEF X
    <3> QED BY <1>4, <3>1
  <2> HIDE DEF X
  <2> QED BY <1>0, <2>1, <2>2, Inherits
<1> QED BY <1>4, <1>5

(* The product of powers.                                                   *)
LEMMA PowersMultiply ==
    \A b \in Nat : \A a \in Nat : a + b <= Width => Pow2[a + b] = Pow2[a] * Pow2[b]
<1> DEFINE T == {b \in Nat : \A a \in Nat : a + b <= Width => Pow2[a + b] = Pow2[a] * Pow2[b]}
<1>0. Width \in Nat
  BY WidthIs
<1>1. 0 \in T
  BY <1>0, PowersAre
<1>2. ASSUME NEW b \in Nat, b \in T PROVE b + 1 \in T
  <2> SUFFICES ASSUME NEW a \in Nat, a + (b + 1) <= Width
               PROVE  Pow2[a + (b + 1)] = Pow2[a] * Pow2[b + 1]
    OBVIOUS
  <2>1. Pow2[a + b] = Pow2[a] * Pow2[b]
    BY <1>0, <1>2
  <2>2. Pow2[a + (b + 1)] = 2 * Pow2[a + b]
    <3>1. a + (b + 1) \in 1 .. Width /\ (a + (b + 1)) - 1 = a + b
      BY <1>0
    <3> QED BY <3>1, PowersAre
  <2>3. Pow2[b + 1] = 2 * Pow2[b]
    <3>1. b + 1 \in 1 .. Width /\ (b + 1) - 1 = b
      BY <1>0
    <3> QED BY <3>1, PowersAre
  <2>4. Pow2[a] \in Nat /\ Pow2[b] \in Nat
    <3>1. a \in 0 .. Width /\ b \in 0 .. Width
      BY <1>0
    <3> QED BY <3>1, PowersAre
  <2> QED BY <2>1, <2>2, <2>3, <2>4
<1>3. Nat \subseteq T
  <2> HIDE DEF T
  <2> QED BY <1>1, <1>2, InductionOnNat
<1> QED BY <1>3

(* The bits of a prefix.                                                    *)
LEMMA MaskIs ==
    ASSUME NEW p \in 0 .. Width
    PROVE  Mask(p) = Pow2[Width] - Pow2[Width - p]
<1>0. Width \in Nat \ {0} /\ Width - p \in 0 .. Width /\ p \in Nat /\ Width - p \in Nat
  BY WidthIs
<1>1. Pow2[0] = 1 /\ Pow2[Width] \in Nat /\ Pow2[Width - p] \in Nat \ {0} /\ Pow2[p] \in Nat \ {0}
  BY <1>0, PowersAre
<1>2. CASE p = 0
  <2>1. Mask(p) = 0 /\ Width - p = Width
    BY <1>0, <1>2 DEF Mask
  <2> QED BY <2>1, <1>1
<1>3. CASE p = Width
  <2>1. Mask(p) = Pow2[Width] - 1 /\ Width - p = 0
    BY <1>0, <1>3 DEF Mask
  <2> QED BY <2>1, <1>1
<1>4. CASE p # 0 /\ p # Width
  <2>1. Mask(p) = ((Pow2[Width] - 1) * Pow2[(Width - p) % Width]) % Pow2[Width]
    BY <1>4 DEF Mask, ShiftLeft
  <2>2. (Width - p) % Width = Width - p
    BY <1>0, <1>4
  <2>3. Pow2[Width] = Pow2[p] * Pow2[Width - p]
    <3>1. p + (Width - p) = Width
      BY <1>0
    <3> QED BY <3>1, <1>0, PowersMultiply
  <2> DEFINE w == Pow2[Width]
             d == Pow2[Width - p]
             r == w - d
             q == d - 1
  <2>4. w \in Nat \ {0} /\ d \in Nat \ {0} /\ Pow2[p] \in Nat \ {0} /\ w = Pow2[p] * d
    BY <1>0, <1>1, <2>3, PowersAre
  <2>5. Mask(p) = ((w - 1) * d) % w
    BY <2>1, <2>2
  <2> HIDE DEF w, d
  <2>6. d <= w
    BY <2>4
  <2>7. r \in Nat /\ r < w /\ q \in Nat
    BY <2>4, <2>6
  <2>8. (w - 1) * d = w * q + r
    BY <2>4
  <2> HIDE DEF q, r
  <2>9. (w * q + r) % w = r
    BY <2>4, <2>7, DivisionIsUnique
  <2> QED BY <2>5, <2>8, <2>9 DEF r, w, d
<1> QED BY <1>2, <1>3, <1>4

-----------------------------------------------------------------------------
(* And, bit by bit.                                                         *)
LEMMA AndIs ==
    \A n \in 0 .. Width :
        /\ And[n] \in [Nat -> [Nat -> Nat]]
        /\ \A x, y \in Nat :
              And[n][x][y] = IF n = 0 THEN 0
                             ELSE 2 * And[n - 1][x \div 2][y \div 2] + (x % 2) * (y % 2)
<1> DEFINE F == [Nat -> [Nat -> Nat]]
           Zero == [x \in Nat |-> [y \in Nat |-> 0]]
           Of(h) == [x \in Nat |-> [y \in Nat |-> 2 * h[x \div 2][y \div 2] + (x % 2) * (y % 2)]]
           G == [i \in 1 .. Width |-> [h \in F |-> Of(h)]]
           X == [i \in 0 .. Width |-> F]
           Cell(f, n) == [x \in Nat |-> [y \in Nat |->
                            IF n = 0 THEN 0
                            ELSE 2 * f[n - 1][x \div 2][y \div 2] + (x % 2) * (y % 2)]]
           K(f) == f = [n \in 0 .. Width |-> Cell(f, n)]
<1>0. Width \in Nat
  BY WidthIs
<1>1. Zero \in F
  OBVIOUS
<1>2. ASSUME NEW h \in F PROVE Of(h) \in F
  <2>1. \A x, y \in Nat : h[x \div 2][y \div 2] \in Nat
    <3>1. \A x \in Nat : x \div 2 \in Nat
      OBVIOUS
    <3>2. \A x, y \in Nat : h[x][y] \in Nat
      BY <1>2
    <3> QED BY <3>1, <3>2
  <2>2. \A x, y \in Nat : 2 * h[x \div 2][y \div 2] + (x % 2) * (y % 2) \in Nat
    <3> TAKE x, y \in Nat
    <3> DEFINE a == h[x \div 2][y \div 2]
               b == (x % 2) * (y % 2)
    <3>1. a \in Nat
      BY <2>1
    <3>3. b \in Nat
      <4> DEFINE u == x % 2
                 v == y % 2
      <4>1. u \in Nat /\ v \in Nat
        OBVIOUS
      <4> HIDE DEF u, v
      <4>2. u * v \in Nat
        BY <4>1
      <4> QED BY <4>2 DEF u, v
    <3> HIDE DEF a, b
    <3>2. 2 * a + b \in Nat
      BY <3>1, <3>3
    <3> QED BY <3>2 DEF a, b
  <2> QED BY <2>2
<1>3. \E f : K(f)
  <2>1. PICK f : IsRun(f, Width, Zero, G)
    BY <1>0, Iterates
  <2>2. \A i \in 0 .. Width : f[i] = IF i = 0 THEN Zero ELSE G[i][f[i - 1]]
    BY <2>1 DEF IsRun
  <2>3. ASSUME NEW i \in 1 .. Width, f[i - 1] \in F
        PROVE  f[i] = Of(f[i - 1]) /\ f[i] \in F
    <3>1. f[i] = G[i][f[i - 1]]
      <4>1. i \in 0 .. Width /\ i # 0
        BY <1>0
      <4> HIDE DEF G, Zero
      <4> QED BY <2>2, <4>1
    <3>2. G[i][f[i - 1]] = Of(f[i - 1])
      <4> HIDE DEF F, Of
      <4> QED BY <2>3
    <3> HIDE DEF G, Of, F
    <3> QED BY <1>2, <2>3, <3>1, <3>2
  <2>4. f[0] = Zero
    <3>1. 0 \in 0 .. Width
      BY <1>0
    <3> HIDE DEF G, Zero
    <3> QED BY <2>2, <3>1
  <2>5. \A i \in 0 .. Width : f[i] \in X[i]
    <3>1. \A i \in 0 .. Width : X[i] = F
      OBVIOUS
    <3>2. \A i \in 1 .. Width : i \in 0 .. Width /\ i - 1 \in 0 .. Width
      BY <1>0
    <3> HIDE DEF X, F, Zero, Of, G
    <3>3. f[0] \in X[0]
      <4>1. 0 \in 0 .. Width
        BY <1>0
      <4> QED BY <4>1, <3>1, <1>1, <2>4
    <3>4. \A i \in 1 .. Width : f[i - 1] \in X[i - 1] => f[i] \in X[i]
      BY <3>1, <3>2, <2>3
    <3> QED BY <1>0, <3>3, <3>4, Inherits
  <2>6. \A i \in 0 .. Width : f[i] = Cell(f, i)
    <3> TAKE i \in 0 .. Width
    <3>1. CASE i = 0
      BY <2>4, <3>1
    <3>2. CASE i # 0
      <4>1. i \in 1 .. Width /\ i - 1 \in 0 .. Width
        BY <1>0, <3>2
      <4>2. f[i - 1] \in F
        <5>1. X[i - 1] = F
          BY <4>1
        <5> HIDE DEF X, F
        <5> QED BY <2>5, <4>1, <5>1
      <4>3. f[i] = Of(f[i - 1])
        <5> HIDE DEF F, Of
        <5> QED BY <2>3, <4>1, <4>2
      <4> QED BY <3>2, <4>3
    <3> QED BY <3>1, <3>2
  <2>7. f = [i \in 0 .. Width |-> f[i]]
    BY <2>1 DEF IsRun
  <2> HIDE DEF Cell
  <2> QED BY <2>6, <2>7
<1>4. K(And)
  <2> DEFINE k == CHOOSE f : K(f)
  <2>1. K(k)
    BY <1>3
  <2>2. And = k
    BY Zenon DEF And
  <2> HIDE DEF K, k
  <2> QED BY <2>1, <2>2
<1>5. \A i \in 0 .. Width : And[i] = Cell(And, i)
  <2> HIDE DEF Cell
  <2> QED BY <1>4
<1>6. \A i \in 0 .. Width : And[i] \in X[i]
  <2>1. \A i \in 0 .. Width : X[i] = F
    OBVIOUS
  <2>2. \A i \in 1 .. Width : i \in 0 .. Width /\ i - 1 \in 0 .. Width /\ i # 0
    BY <1>0
  <2>3. And[0] = Zero
    BY <1>0, <1>5
  <2>4. \A i \in 1 .. Width : And[i] = Of(And[i - 1])
    <3> TAKE i \in 1 .. Width
    <3>1. And[i] = Cell(And, i) /\ i # 0
      <4> HIDE DEF Cell
      <4> QED BY <1>5, <2>2
    <3> QED BY <3>1
  <2> HIDE DEF X, F, Zero, Of
  <2>5. And[0] \in X[0]
    <3>1. 0 \in 0 .. Width
      BY <1>0
    <3> QED BY <3>1, <2>1, <1>1, <2>3
  <2>6. \A i \in 1 .. Width : And[i - 1] \in X[i - 1] => And[i] \in X[i]
    BY <2>1, <2>2, <2>4, <1>2
  <2> QED BY <1>0, <2>5, <2>6, Inherits
<1>7. \A i \in 0 .. Width : And[i] \in F
  <2>1. \A i \in 0 .. Width : X[i] = F
    OBVIOUS
  <2> HIDE DEF X, F
  <2> QED BY <1>6, <2>1
<1> TAKE n \in 0 .. Width
<1>8. And[n] \in F /\ And[n] = Cell(And, n)
  <2> HIDE DEF F, Cell
  <2> QED BY <1>5, <1>7
<1>9. \A x, y \in Nat : And[n][x][y] = IF n = 0 THEN 0
                                        ELSE 2 * And[n - 1][x \div 2][y \div 2] + (x % 2) * (y % 2)
  <2> TAKE x, y \in Nat
  <2>1. Cell(And, n)[x][y] = IF n = 0 THEN 0
                             ELSE 2 * And[n - 1][x \div 2][y \div 2] + (x % 2) * (y % 2)
    OBVIOUS
  <2> HIDE DEF Cell
  <2> QED BY <1>8, <2>1
<1> QED BY <1>8, <1>9

(* The and with a mask drops the last bits.                                 *)
LEMMA AndOfMask ==
    \A n \in Nat : \A k \in 0 .. n : \A x \in Nat :
        n <= Width /\ x < Pow2[n]
        => And[n][x][Pow2[n] - Pow2[k]] = (x \div Pow2[k]) * Pow2[k]
<1> DEFINE Claim(n, k, x) == And[n][x][Pow2[n] - Pow2[k]] = (x \div Pow2[k]) * Pow2[k]
           T == {n \in Nat : \A k \in 0 .. n : \A x \in Nat :
                                n <= Width /\ x < Pow2[n] => Claim(n, k, x)}
<1>0. Width \in Nat
  BY WidthIs
<1>1. 0 \in T
  <2> SUFFICES ASSUME NEW k \in 0 .. 0, NEW x \in Nat, x < Pow2[0] PROVE Claim(0, k, x)
    OBVIOUS
  <2>1. k = 0 /\ Pow2[0] = 1 /\ x = 0
    BY PowersAre
  <2>2. And[0][0][0] = 0
    <3>1. 0 \in 0 .. Width /\ 0 \in Nat
      BY <1>0
    <3> QED BY <3>1, AndIs
  <2> QED BY <2>1, <2>2
<1>2. ASSUME NEW n \in Nat, n \in T PROVE n + 1 \in T
  <2> SUFFICES ASSUME NEW k \in 0 .. n + 1, NEW x \in Nat, n + 1 <= Width, x < Pow2[n + 1]
               PROVE  Claim(n + 1, k, x)
    OBVIOUS
  <2>1. n \in 0 .. Width /\ n + 1 \in 0 .. Width /\ n + 1 \in 1 .. Width /\ (n + 1) - 1 = n /\ n + 1 # 0
    BY <1>0
  <2>2. Pow2[n + 1] = 2 * Pow2[n] /\ Pow2[n] \in Nat \ {0}
    BY <2>1, PowersAre
  <2> DEFINE h == x \div 2
             b == x % 2
             w == Pow2[n]
  <2>3. h \in Nat /\ b \in 0 .. 1 /\ x = 2 * h + b
    OBVIOUS
  <2>4. h < w
    <3> HIDE DEF h, b, w
    <3>1. w \in Nat /\ x < 2 * w
      BY <2>2 DEF w
    <3> QED BY <2>3, <3>1
  <2>5. \A y \in Nat : And[n + 1][x][y] = 2 * And[n][h][y \div 2] + b * (y % 2)
    <3> TAKE y \in Nat
    <3>1. And[n + 1][x][y] = IF n + 1 = 0 THEN 0
                             ELSE 2 * And[(n + 1) - 1][x \div 2][y \div 2] + (x % 2) * (y % 2)
      BY <2>1, AndIs
    <3> QED BY <2>1, <3>1
  <2>6. \A j \in 0 .. n : Claim(n, j, h)
    BY <1>2, <2>1, <2>3, <2>4
  <2>7. CASE k = 0
    <3>1. Pow2[k] = 1
      BY <2>7, PowersAre
    <3>2. And[n][h][w - 1] = h
      <4>1. 0 \in 0 .. n /\ Pow2[0] = 1
        BY PowersAre
      <4>2. h \div 1 = h /\ h * 1 = h
        BY <2>3
      <4>3. Claim(n, 0, h)
        BY <2>6, <4>1
      <4> HIDE DEF h
      <4> QED BY <4>1, <4>2, <4>3
    <3> DEFINE y == Pow2[n + 1] - Pow2[k]
    <3>3. y = 2 * (w - 1) + 1 /\ w - 1 \in Nat
      BY <2>2, <3>1
    <3> HIDE DEF y, w, h, b
    <3>4. y \in Nat /\ y \div 2 = w - 1 /\ y % 2 = 1
      BY <3>3
    <3>5. And[n + 1][x][y] = 2 * h + b
      <4>1. And[n + 1][x][y] = 2 * And[n][h][y \div 2] + b * (y % 2)
        BY <2>5, <3>4
      <4>2. And[n + 1][x][y] = 2 * h + b * 1
        BY <4>1, <3>2, <3>4
      <4> QED BY <4>2, <2>3
    <3>6. (x \div Pow2[k]) * Pow2[k] = x
      BY <3>1
    <3> QED BY <2>3, <3>5, <3>6 DEF y
  <2>8. CASE k # 0
    <3> DEFINE j == k - 1
    <3>1. j \in 0 .. n /\ j \in 0 .. Width /\ k \in 1 .. Width
      BY <1>0, <2>1, <2>8
    <3> DEFINE d == Pow2[j]
               y == Pow2[n + 1] - Pow2[k]
    <3>2. Pow2[k] = 2 * d /\ d \in Nat \ {0}
      BY <3>1, PowersAre
    <3>3. And[n][h][w - d] = (h \div d) * d
      BY <2>6, <3>1
    <3>4. d <= w
      <4>1. j + (n - j) = n /\ n - j \in Nat /\ j \in Nat /\ n <= Width /\ n - j \in 0 .. Width
        BY <1>0, <2>1, <3>1
      <4>2. w = d * Pow2[n - j] /\ Pow2[n - j] \in Nat \ {0}
        BY <4>1, PowersAre, PowersMultiply
      <4> DEFINE m == Pow2[n - j]
      <4>3. w = d * m /\ m \in Nat \ {0} /\ d \in Nat
        BY <3>2, <4>2
      <4> HIDE DEF w, d, m, j
      <4>4. d * 1 <= d * m
        BY <4>3
      <4> QED BY <4>3, <4>4
    <3>5. y = 2 * (w - d)
      BY <2>2, <3>2
    <3>6. h \div d = x \div (2 * d)
      <4>1. 2 \in Nat \ {0} /\ x \in Nat
        OBVIOUS
      <4> HIDE DEF d
      <4>2. (x \div 2) \div d = x \div (2 * d)
        BY <3>2, <4>1, DivisionTwice
      <4> QED BY <4>2
    <3> HIDE DEF w, d, y, h, b
    <3>7. w - d \in Nat
      BY <2>2, <3>2, <3>4 DEF w
    <3>8. y \in Nat /\ y \div 2 = w - d /\ y % 2 = 0
      BY <3>5, <3>7
    <3>9. And[n + 1][x][y] = 2 * ((h \div d) * d)
      <4>1. And[n + 1][x][y] = 2 * And[n][h][y \div 2] + b * (y % 2)
        BY <2>5, <3>8
      <4>2. And[n + 1][x][y] = 2 * ((h \div d) * d) + b * 0
        BY <4>1, <3>3, <3>8
      <4>3. h \div d \in Nat /\ (h \div d) * d \in Nat
        BY <2>3, <3>2
      <4> QED BY <4>2, <4>3, <2>3
    <3>10. (x \div Pow2[k]) * Pow2[k] = 2 * ((h \div d) * d)
      <4>1. h \div d \in Nat
        BY <2>3, <3>2
      <4> QED BY <3>2, <3>6, <4>1
    <3> QED BY <3>9, <3>10 DEF y
  <2> QED BY <2>7, <2>8
<1>3. Nat \subseteq T
  <2> HIDE DEF T
  <2> QED BY <1>1, <1>2, InductionOnNat
<1> QED BY <1>3

-----------------------------------------------------------------------------
(* The number that the first n octets of an address make.                   *)
IsAddress(a, ip) ==
    /\ a[0] = 0
    /\ \A n \in 1 .. Octets : a[n] = a[n - 1] * Pow2[OctetBits] + ip[n]
    /\ \A n \in 0 .. Octets : a[n] \in Nat /\ a[n] < Pow2[n * OctetBits]

(* The bits of the first n octets are some of the address.                  *)
LEMMA OctetsFit ==
    ASSUME NEW n \in 0 .. Octets
    PROVE  n * OctetBits \in 0 .. Width
<1>1. Octets \in Nat /\ OctetBits \in Nat /\ n \in Nat /\ n <= Octets
  BY RangesAssumption
<1>2. n * OctetBits <= Octets * OctetBits /\ n * OctetBits \in Nat /\ Octets * OctetBits \in Nat
  BY <1>1
<1> QED BY <1>2 DEF Width

(* ParseIp makes the number of all its octets.                              *)
LEMMA AddressIs ==
    ASSUME NEW ip \in Ips
    PROVE  \E a : IsAddress(a, ip) /\ ParseIp(ip) = a[Octets]
<1> DEFINE q == Pow2[OctetBits]
           G == [i \in 1 .. Octets |-> [x \in Nat |-> x * q + ip[i]]]
           X == [i \in 0 .. Octets |-> {x \in Nat : x < Pow2[i * OctetBits]}]
           Y == [i \in 0 .. Octets |-> Nat]
           K(f) == f = [n \in 0 .. Octets |-> IF n = 0 THEN 0 ELSE f[n - 1] * q + ip[n]]
<1>0. Octets \in Nat \ {0} /\ OctetBits \in Nat \ {0} /\ Width \in Nat
  BY RangesAssumption, WidthIs
<1>1. q \in Nat \ {0} /\ \A n \in 1 .. Octets : ip[n] \in Nat /\ ip[n] < q
  <2>1. q \in Nat \ {0}
    BY <1>0, WidthIs, PowersAre
  <2>2. \A n \in 1 .. Octets : ip[n] \in 0 .. (q - 1)
    BY DEF Ips
  <2> HIDE DEF q
  <2> QED BY <2>1, <2>2
<1> HIDE DEF q
<1>2. \A i \in 1 .. Octets : i \in 0 .. Octets /\ i - 1 \in 0 .. Octets /\ i # 0
  BY <1>0
<1>3. \E f : K(f)
  <2>1. PICK f : IsRun(f, Octets, 0, G)
    BY <1>0, Iterates
  <2>2. \A i \in 0 .. Octets : f[i] = IF i = 0 THEN 0 ELSE G[i][f[i - 1]]
    BY <2>1 DEF IsRun
  <2>3. ASSUME NEW i \in 1 .. Octets, f[i - 1] \in Nat
        PROVE  f[i] = f[i - 1] * q + ip[i] /\ f[i] \in Nat
    <3>1. f[i] = G[i][f[i - 1]]
      <4> HIDE DEF G
      <4> QED BY <1>2, <2>2
    <3>2. G[i][f[i - 1]] = f[i - 1] * q + ip[i]
      BY <2>3
    <3>3. f[i - 1] * q + ip[i] \in Nat
      BY <1>1, <2>3
    <3> QED BY <3>1, <3>2, <3>3
  <2>4. f[0] = 0
    <3>1. 0 \in 0 .. Octets
      BY <1>0
    <3> HIDE DEF G
    <3> QED BY <2>2, <3>1
  <2>5. \A i \in 0 .. Octets : f[i] \in Y[i]
    <3>1. \A i \in 0 .. Octets : Y[i] = Nat
      OBVIOUS
    <3> HIDE DEF Y
    <3>2. f[0] \in Y[0]
      BY <1>0, <2>4, <3>1
    <3>3. \A i \in 1 .. Octets : f[i - 1] \in Y[i - 1] => f[i] \in Y[i]
      BY <1>2, <2>3, <3>1
    <3> QED BY <1>0, <3>2, <3>3, Inherits
  <2>6. \A i \in 0 .. Octets : f[i] = IF i = 0 THEN 0 ELSE f[i - 1] * q + ip[i]
    <3> TAKE i \in 0 .. Octets
    <3>1. CASE i = 0
      BY <2>4, <3>1
    <3>2. CASE i # 0
      <4>1. i \in 1 .. Octets /\ i - 1 \in 0 .. Octets
        BY <1>0, <3>2
      <4> QED BY <2>3, <2>5, <3>2, <4>1
    <3> QED BY <3>1, <3>2
  <2>7. f = [i \in 0 .. Octets |-> f[i]]
    BY <2>1 DEF IsRun
  <2> QED BY <2>6, <2>7
<1> DEFINE a == CHOOSE f : K(f)
<1>4. K(a) /\ ParseIp(ip) = a[Octets]
  <2>1. K(a)
    BY <1>3
  <2>2. ParseIp(ip) = a[Octets]
    BY DEF ParseIp, q
  <2> QED BY <2>1, <2>2
<1> HIDE DEF a
<1>5. \A i \in 0 .. Octets : a[i] = IF i = 0 THEN 0 ELSE a[i - 1] * q + ip[i]
  BY <1>4
<1>6. a[0] = 0 /\ \A i \in 1 .. Octets : a[i] = a[i - 1] * q + ip[i]
  BY <1>0, <1>2, <1>5
<1>7. \A i \in 0 .. Octets : a[i] \in X[i]
  <2>1. \A i \in 0 .. Octets : X[i] = {x \in Nat : x < Pow2[i * OctetBits]}
    OBVIOUS
  <2> HIDE DEF X
  <2>2. a[0] \in X[0]
    <3>1. Pow2[0 * OctetBits] = 1 /\ 0 \in 0 .. Octets
      BY <1>0, PowersAre
    <3> QED BY <1>6, <2>1, <3>1
  <2>3. ASSUME NEW i \in 1 .. Octets, a[i - 1] \in X[i - 1] PROVE a[i] \in X[i]
    <3>1. a[i - 1] \in Nat /\ a[i - 1] < Pow2[(i - 1) * OctetBits]
      BY <1>2, <2>1, <2>3
    <3> DEFINE p == Pow2[(i - 1) * OctetBits]
               y == a[i - 1]
               z == ip[i]
    <3>2. Pow2[i * OctetBits] = p * q /\ p \in Nat
      <4>1. (i - 1) * OctetBits \in 0 .. Width /\ i * OctetBits \in 0 .. Width
        BY <1>2, OctetsFit
      <4>2. i * OctetBits = (i - 1) * OctetBits + OctetBits
        BY <1>0
      <4>3. Pow2[(i - 1) * OctetBits + OctetBits] = Pow2[(i - 1) * OctetBits] * Pow2[OctetBits]
        BY <1>0, <4>1, <4>2, PowersMultiply
      <4>4. Pow2[(i - 1) * OctetBits] \in Nat
        BY <4>1, PowersAre
      <4> QED BY <4>2, <4>3, <4>4 DEF q
    <3>3. a[i] = y * q + z /\ z \in Nat /\ z < q
      BY <1>1, <1>6
    <3>4. y \in Nat /\ y < p
      BY <3>1
    <3> HIDE DEF p, y, z
    <3>5. (y + 1) * q <= p * q /\ (y + 1) * q = y * q + q /\ y * q \in Nat /\ p * q \in Nat
      BY <1>1, <3>2, <3>4
    <3>6. a[i] \in Nat /\ a[i] < p * q
      BY <1>1, <3>3, <3>5
    <3> QED BY <1>2, <2>1, <3>2, <3>6
  <2> QED BY <1>0, <2>2, <2>3, Inherits
<1>8. \A i \in 0 .. Octets : a[i] \in Nat /\ a[i] < Pow2[i * OctetBits]
  BY <1>7
<1>9. IsAddress(a, ip)
  BY <1>6, <1>8 DEF IsAddress, q
<1> QED BY <1>4, <1>9

(* Without its last octets, an address is the number of the others.         *)
LEMMA AddressPrefix ==
    ASSUME NEW ip \in Ips, NEW a, IsAddress(a, ip)
    PROVE  \A d \in Nat : \A m \in Nat :
              m + d <= Octets => a[m + d] \div Pow2[d * OctetBits] = a[m]
<1> DEFINE q == Pow2[OctetBits]
           T == {d \in Nat : \A m \in Nat : m + d <= Octets
                                            => a[m + d] \div Pow2[d * OctetBits] = a[m]}
<1>0. Octets \in Nat \ {0} /\ OctetBits \in Nat \ {0} /\ Width \in Nat
  BY RangesAssumption, WidthIs
<1>1. q \in Nat \ {0} /\ \A n \in 1 .. Octets : ip[n] \in Nat /\ ip[n] < q
  <2>1. q \in Nat \ {0}
    BY <1>0, WidthIs, PowersAre
  <2>2. \A n \in 1 .. Octets : ip[n] \in 0 .. (q - 1)
    BY DEF Ips
  <2> HIDE DEF q
  <2> QED BY <2>1, <2>2
<1>2. 0 \in T
  <2> SUFFICES ASSUME NEW m \in Nat, m + 0 <= Octets
               PROVE  a[m + 0] \div Pow2[0 * OctetBits] = a[m]
    OBVIOUS
  <2>1. m + 0 = m /\ Pow2[0 * OctetBits] = 1 /\ a[m] \in Nat
    BY <1>0, PowersAre DEF IsAddress
  <2> QED BY <2>1
<1>3. ASSUME NEW d \in Nat, d \in T PROVE d + 1 \in T
  <2> SUFFICES ASSUME NEW m \in Nat, m + (d + 1) <= Octets
               PROVE  a[m + (d + 1)] \div Pow2[(d + 1) * OctetBits] = a[m]
    OBVIOUS
  <2> DEFINE n == m + (d + 1)
             x == a[n - 1]
             p == Pow2[d * OctetBits]
  <2>1. n \in 1 .. Octets /\ n - 1 = m + d /\ m + d <= Octets /\ d \in 0 .. Octets /\ d + 1 \in 0 .. Octets
        /\ n - 1 \in 0 .. Octets
    BY <1>0
  <2>2. a[n] = x * q + ip[n] /\ ip[n] \in Nat /\ ip[n] < q /\ x \in Nat
    BY <1>1, <2>1 DEF IsAddress
  <2>3. Pow2[(d + 1) * OctetBits] = q * p /\ p \in Nat \ {0}
    <3>1. d * OctetBits \in 0 .. Width /\ (d + 1) * OctetBits \in 0 .. Width
      BY <2>1, OctetsFit
    <3>2. (d + 1) * OctetBits = OctetBits + d * OctetBits
      BY <1>0
    <3>3. Pow2[OctetBits + d * OctetBits] = Pow2[OctetBits] * Pow2[d * OctetBits]
      BY <1>0, <3>1, <3>2, PowersMultiply
    <3>4. p \in Nat \ {0}
      BY <3>1, PowersAre
    <3> QED BY <3>2, <3>3, <3>4
  <2>4. x \div p = a[m]
    BY <1>3, <2>1
  <2>5. a[n] \div (q * p) = a[m]
    <3> HIDE DEF n, x, p, q
    <3>1. (q * x + ip[n]) \div q = x
      BY <1>1, <2>2, DivisionIsUnique
    <3>2. a[n] = q * x + ip[n] /\ a[n] \in Nat
      BY <1>1, <2>2
    <3>3. (a[n] \div q) \div p = a[n] \div (q * p)
      BY <1>1, <2>3, <3>2, DivisionTwice
    <3> QED BY <2>4, <3>1, <3>2, <3>3
  <2> QED BY <2>3, <2>5
<1>4. Nat \subseteq T
  <2> HIDE DEF T
  <2> QED BY <1>2, <1>3, InductionOnNat
<1> QED BY <1>4

(* The numbers are the same if and only if the octets are.                  *)
LEMMA SameOctets ==
    ASSUME NEW x \in Ips, NEW y \in Ips, NEW a, NEW b, IsAddress(a, x), IsAddress(b, y)
    PROVE  \A m \in Nat : m <= Octets => (a[m] = b[m] <=> \A n \in 1 .. m : x[n] = y[n])
<1> DEFINE q == Pow2[OctetBits]
           T == {m \in Nat : m <= Octets => (a[m] = b[m] <=> \A n \in 1 .. m : x[n] = y[n])}
<1>0. Octets \in Nat \ {0} /\ OctetBits \in Nat \ {0} /\ Width \in Nat
  BY RangesAssumption, WidthIs
<1>1. q \in Nat \ {0} /\ \A n \in 1 .. Octets : x[n] \in Nat /\ x[n] < q /\ y[n] \in Nat /\ y[n] < q
  <2>1. q \in Nat \ {0}
    BY <1>0, WidthIs, PowersAre
  <2>2. \A n \in 1 .. Octets : x[n] \in 0 .. (q - 1) /\ y[n] \in 0 .. (q - 1)
    BY DEF Ips
  <2> HIDE DEF q
  <2> QED BY <2>1, <2>2
<1>2. 0 \in T
  BY DEF IsAddress
<1>3. ASSUME NEW m \in Nat, m \in T PROVE m + 1 \in T
  <2> SUFFICES ASSUME m + 1 <= Octets
               PROVE  a[m + 1] = b[m + 1] <=> \A n \in 1 .. m + 1 : x[n] = y[n]
    OBVIOUS
  <2>1. m + 1 \in 1 .. Octets /\ (m + 1) - 1 = m /\ m \in 0 .. Octets /\ m <= Octets
    BY <1>0
  <2> DEFINE u == a[m]
             v == b[m]
             s == x[m + 1]
             t == y[m + 1]
  <2>2. /\ a[m + 1] = u * q + s /\ u \in Nat /\ s \in Nat /\ s < q
        /\ b[m + 1] = v * q + t /\ v \in Nat /\ t \in Nat /\ t < q
    BY <1>1, <2>1 DEF IsAddress
  <2>3. a[m + 1] = b[m + 1] <=> u = v /\ s = t
    <3> HIDE DEF u, v, s, t, q
    <3>1. /\ (q * u + s) \div q = u /\ (q * u + s) % q = s
          /\ (q * v + t) \div q = v /\ (q * v + t) % q = t
      BY <1>1, <2>2, DivisionIsUnique
    <3>2. u * q = q * u /\ v * q = q * v
      BY <1>1, <2>2
    <3> QED BY <2>2, <3>1, <3>2
  <2>4. u = v <=> \A n \in 1 .. m : x[n] = y[n]
    BY <1>3, <2>1
  <2>5. 1 .. m + 1 = (1 .. m) \cup {m + 1}
    OBVIOUS
  <2> QED BY <2>3, <2>4, <2>5
<1>4. Nat \subseteq T
  <2> HIDE DEF T
  <2> QED BY <1>2, <1>3, InductionOnNat
<1> QED BY <1>4

-----------------------------------------------------------------------------
(* The bits of a prefix are the same if and only if the numbers are, without*)
(* their other bits.                                                        *)
LEMMA MaskedIs ==
    ASSUME NEW ip \in Ips, NEW p \in 0 .. Width
    PROVE  /\ Pow2[Width - p] \in Nat \ {0} /\ ParseIp(ip) \in Nat
           /\ Masked(ip, p) = (ParseIp(ip) \div Pow2[Width - p]) * Pow2[Width - p]
<1>1. Width \in Nat /\ Width - p \in 0 .. Width /\ Width = Octets * OctetBits
  BY WidthIs DEF Width
<1>2. ParseIp(ip) \in Nat /\ ParseIp(ip) < Pow2[Width]
  <2>1. PICK a : IsAddress(a, ip) /\ ParseIp(ip) = a[Octets]
    BY AddressIs
  <2>2. Octets \in 0 .. Octets
    BY RangesAssumption
  <2> QED BY <1>1, <2>1, <2>2 DEF IsAddress
<1>3. And[Width][ParseIp(ip)][Pow2[Width] - Pow2[Width - p]]
      = (ParseIp(ip) \div Pow2[Width - p]) * Pow2[Width - p]
  BY <1>1, <1>2, AndOfMask
<1>4. Masked(ip, p) = And[Width][ParseIp(ip)][Pow2[Width] - Pow2[Width - p]]
  BY MaskIs DEF Masked
<1>5. Pow2[Width - p] \in Nat \ {0}
  BY <1>1, PowersAre
<1> QED BY <1>2, <1>3, <1>4, <1>5

(* Two addresses agree under a mask if they do without the other bits.      *)
LEMMA MaskedSame ==
    ASSUME NEW x \in Ips, NEW y \in Ips, NEW p \in 0 .. Width
    PROVE  Masked(x, p) = Masked(y, p)
           <=> ParseIp(x) \div Pow2[Width - p] = ParseIp(y) \div Pow2[Width - p]
<1> DEFINE d == Pow2[Width - p]
           u == ParseIp(x) \div d
           v == ParseIp(y) \div d
<1>1. /\ d \in Nat \ {0} /\ Masked(x, p) = u * d /\ Masked(y, p) = v * d
      /\ ParseIp(x) \in Nat /\ ParseIp(y) \in Nat
  BY MaskedIs
<1>2. u \in Nat /\ v \in Nat
  <2> HIDE DEF d
  <2> QED BY <1>1, DivisionIs
<1> HIDE DEF d, u, v
<1>3. u * d = v * d <=> u = v
  <2>1. (d * u + 0) \div d = u /\ (d * v + 0) \div d = v
    BY <1>1, <1>2, DivisionIsUnique
  <2>2. u * d = d * u + 0 /\ v * d = d * v + 0
    BY <1>1, <1>2
  <2> QED BY <2>1, <2>2
<1> QED BY <1>1, <1>3 DEF d, u, v

(* A range has its first whole octets in common, and if its prefix ends with*)
(* an octet, nothing else.                                                  *)
LEMMA OctetsCompared ==
    ASSUME NEW x \in Ips, NEW y \in Ips, NEW p \in 0 .. Width
    PROVE  LET size == Pow2[Width - p]
               same == ParseIp(x) \div size = ParseIp(y) \div size
               whole == \A n \in 1 .. (p \div OctetBits) : x[n] = y[n]
           IN  (same => whole) /\ (p % OctetBits = 0 => (whole => same))
<1> DEFINE m == p \div OctetBits
           r == p % OctetBits
           e == Octets - m
           size == Pow2[Width - p]
           rest == Pow2[e * OctetBits]
           more == Pow2[r]
<1>0. Octets \in Nat \ {0} /\ OctetBits \in Nat \ {0} /\ Width \in Nat /\ p \in Nat
      /\ p <= Width /\ Width = Octets * OctetBits
  BY RangesAssumption, WidthIs DEF Width
<1>1. m \in Nat /\ r \in Nat /\ r < OctetBits /\ p = m * OctetBits + r
  BY <1>0
<1>2. m <= Octets
  <2> HIDE DEF m, r
  <2> SUFFICES ASSUME Octets + 1 <= m PROVE FALSE
    BY <1>0, <1>1
  <2>1. (Octets + 1) * OctetBits <= m * OctetBits
    BY <1>0, <1>1
  <2> QED BY <2>1, <1>0, <1>1
<1>3. /\ e \in Nat /\ e \in 0 .. Octets /\ m + e = Octets
      /\ e * OctetBits = (Width - p) + r /\ Width - p \in Nat /\ r \in 0 .. Width /\ Width - p \in 0 .. Width
  <2> HIDE DEF m, r
  <2>1. e \in Nat /\ e \in 0 .. Octets /\ m + e = Octets
    BY <1>0, <1>1, <1>2
  <2>2. e * OctetBits = Octets * OctetBits - m * OctetBits
    BY <1>0, <1>1
  <2>3. m * OctetBits \in Nat
    BY <1>0, <1>1
  <2>4. OctetBits <= Width
    BY WidthIs
  <2> QED BY <2>1, <2>2, <2>3, <2>4, <1>0, <1>1
<1>4. rest = size * more /\ size \in Nat \ {0} /\ more \in Nat \ {0}
  <2> HIDE DEF m, r, e
  <2>1. e * OctetBits \in 0 .. Width
    BY <1>3, OctetsFit
  <2>2. (Width - p) + r <= Width
    BY <1>3, <2>1
  <2>3. Pow2[(Width - p) + r] = Pow2[Width - p] * Pow2[r]
    BY <1>1, <1>3, <2>2, PowersMultiply
  <2> QED BY <1>3, <2>3, PowersAre
<1>5. PICK a : IsAddress(a, x) /\ ParseIp(x) = a[Octets]
  BY AddressIs
<1>6. PICK b : IsAddress(b, y) /\ ParseIp(y) = b[Octets]
  BY AddressIs
<1>7. a[Octets] \in Nat /\ b[Octets] \in Nat
  BY <1>0, <1>5, <1>6 DEF IsAddress
<1>8. a[Octets] \div rest = a[m] /\ b[Octets] \div rest = b[m]
  <2> HIDE DEF m, e
  <2>1. a[m + e] \div Pow2[e * OctetBits] = a[m] /\ b[m + e] \div Pow2[e * OctetBits] = b[m]
    BY <1>1, <1>3, <1>5, <1>6, AddressPrefix
  <2> QED BY <1>3, <2>1
<1>9. a[m] = b[m] <=> \A n \in 1 .. m : x[n] = y[n]
  <2> HIDE DEF m
  <2> QED BY <1>1, <1>2, <1>5, <1>6, SameOctets
<1>10. /\ (a[Octets] \div size) \div more = a[Octets] \div rest
       /\ (b[Octets] \div size) \div more = b[Octets] \div rest
  <2> HIDE DEF m, e, r, size, more, rest
  <2> QED BY <1>4, <1>7, DivisionTwice
<1>11. r = 0 => rest = size
  <2> HIDE DEF m, e, r
  <2>1. r = 0 => (Width - p) + r = Width - p
    BY <1>0
  <2> QED BY <1>3, <2>1
<1> HIDE DEF m, e, rest, more
<1> QED BY <1>5, <1>6, <1>8, <1>9, <1>10, <1>11 DEF m

(* The masks of the rules, the octets of the administration and the ranges. *)
LEMMA MatchesAre ==
    ASSUME NEW ip \in Ips, NEW ranges \in AtMostOne
    PROVE  /\ Matches(ip, ranges) <=> Within(ip, ranges)
           /\ Within(ip, ranges) => IsIpAllowed(ip, ranges)
           /\ (\A r \in ranges : r.prefix % OctetBits = 0)
              => (IsIpAllowed(ip, ranges) => Within(ip, ranges))
<1>1. \A r \in ranges : r.ip \in Ips /\ r.prefix \in 0 .. Width
  BY DEF AtMostOne, Cidrs
<1> DEFINE InRange(r) == ParseIp(ip) \div Pow2[Width - r.prefix]
                         = ParseIp(r.ip) \div Pow2[Width - r.prefix]
           Whole(r) == \A n \in 1 .. (r.prefix \div OctetBits) : ip[n] = r.ip[n]
           Masks(r) == Masked(ip, r.prefix) = Masked(r.ip, r.prefix)
<1>2. \A r \in ranges : Masks(r) <=> InRange(r)
  BY <1>1, MaskedSame
<1>3. \A r \in ranges : (InRange(r) => Whole(r)) /\ (r.prefix % OctetBits = 0 => (Whole(r) => InRange(r)))
  BY <1>1, OctetsCompared
<1>4. /\ Matches(ip, ranges) <=> \E r \in ranges : Masks(r)
      /\ Within(ip, ranges) <=> \E r \in ranges : InRange(r)
      /\ IsIpAllowed(ip, ranges) <=> \E r \in ranges : Whole(r)
  BY DEF Matches, Within, IsIpAllowed
<1> HIDE DEF InRange, Whole, Masks
<1> QED BY <1>2, <1>3, <1>4

-----------------------------------------------------------------------------
(* The verdict is of the address that was asked for.                        *)
RangesInv ==
    /\ allowed \in AtMostOne /\ excluded \in AtMostOne
    /\ \A ip \in asked :
          /\ ip \in Ips
          /\ verdict = [rules |-> MatchesIpWithExclusion(ip, allowed, excluded),
                        admin |-> IsIpAllowed(ip, allowed)]

(* A verdict on the address that was asked for is exact.                    *)
LEMMA RangesInvImplies == RangesInv => RangesExact
<1> SUFFICES ASSUME RangesInv, NEW ip \in asked
             PROVE  /\ verdict.rules <=> (allowed = {} \/ Within(ip, allowed)) /\ ~Within(ip, excluded)
                    /\ Within(ip, allowed) => verdict.admin
                    /\ verdict.admin /\ (\A r \in allowed : r.prefix % OctetBits = 0)
                       => Within(ip, allowed)
  BY DEF RangesExact
<1>1. ip \in Ips /\ allowed \in AtMostOne /\ excluded \in AtMostOne
  BY DEF RangesInv
<1>2. /\ verdict.rules <=> MatchesIpWithExclusion(ip, allowed, excluded)
      /\ verdict.admin <=> IsIpAllowed(ip, allowed)
  BY DEF RangesInv
<1>3. excluded = {} => ~Within(ip, excluded)
  BY DEF Within
<1>4. /\ Matches(ip, allowed) <=> Within(ip, allowed)
      /\ Matches(ip, excluded) <=> Within(ip, excluded)
  BY <1>1, MatchesAre
<1>5. MatchesIpWithExclusion(ip, allowed, excluded)
      <=> (allowed = {} \/ Within(ip, allowed)) /\ ~Within(ip, excluded)
  BY <1>3, <1>4 DEF MatchesIpWithExclusion
<1> QED BY <1>1, <1>2, <1>5, MatchesAre

(* The rules and the administration decide of every address and every range *)
(* as its bits say: RangesExact.                                            *)
THEOREM RangesAreExact == RangesSpec => []RangesExact
<1>1. RangesInit => RangesInv
  BY DEF RangesInit, RangesInv
<1>2. RangesInv /\ [RangesNext]_rangesVars => RangesInv'
  <2> SUFFICES ASSUME RangesInv, [RangesNext]_rangesVars PROVE RangesInv'
    OBVIOUS
  <2>1. CASE UNCHANGED rangesVars
    BY <2>1 DEF rangesVars, RangesInv, MatchesIpWithExclusion, Matches, IsIpAllowed
  <2>2. ASSUME NEW ip \in Ips, Ask(ip) PROVE RangesInv'
    BY <2>2 DEF Ask, RangesInv
  <2> QED BY <2>1, <2>2 DEF RangesNext
<1> QED BY <1>1, <1>2, RangesInvImplies, PTL DEF RangesSpec

-----------------------------------------------------------------------------
(* Where detections are.                                                    *)
IsRange(d, n) == d.from \in 1 .. n /\ d.to \in 1 .. n /\ d.from <= d.to

LEMMA DetectionsAre ==
    ASSUME NEW S, NEW text \in Seq(S), NEW d \in Detections(text)
    PROVE  IsRange(d, Len(text))
<1> DEFINE n == Len(text)
<1>0. n \in Nat /\ DOMAIN text = 1 .. n
  BY LenProperties
<1>1. CASE d \in Keys(text)
  BY <1>0, <1>1 DEF Keys, IsRange
<1>2. CASE d \in Pairs(text)
  <2>1. PICK i \in 1 .. (n - 1) : d = [from |-> i, to |-> i + 1]
    BY <1>2 DEF Pairs
  <2> QED BY <1>0, <2>1 DEF IsRange
<1>3. CASE d \in Tokens(text)
  <2>1. PICK i \in DOMAIN text : d = [from |-> i, to |-> i]
    BY <1>3 DEF Tokens
  <2> QED BY <1>0, <2>1 DEF IsRange
<1> QED BY <1>1, <1>2, <1>3 DEF Detections

(* What a replacement makes of a text.                                      *)
LEMMA ReplaceIs ==
    ASSUME NEW S, Placeholder \in Seq(S), NEW t \in Seq(S), NEW d,
           d.from \in Nat, d.to \in Nat, 1 <= d.from, d.from <= d.to, d.from - 1 <= Len(t)
    PROVE  Replace(t, d) \in Seq(S) /\ Len(Replace(t, d)) >= d.from
<1> DEFINE l == SubSeq(t, 1, d.from - 1)
           r == SubSeq(t, d.to + 1, Len(t))
           m == l \o Placeholder
<1>0. Len(t) \in Nat /\ \A i \in 1 .. Len(t) : t[i] \in S
  BY LenProperties
<1>1. l \in Seq(S) /\ Len(l) = d.from - 1
  <2>1. 1 \in Int /\ d.from - 1 \in Int /\ \A i \in 1 .. d.from - 1 : t[i] \in S
    BY <1>0
  <2>2. l \in Seq(S) /\ Len(l) = IF 1 <= d.from - 1 THEN (d.from - 1) - 1 + 1 ELSE 0
    BY <2>1, SubSeqProperties
  <2> QED BY <2>2
<1>2. r \in Seq(S)
  <2>1. d.to + 1 \in Int /\ Len(t) \in Int /\ \A i \in d.to + 1 .. Len(t) : t[i] \in S
    BY <1>0
  <2> QED BY <2>1, SubSeqProperties
<1>3. Len(Placeholder) = 1
  BY DEF Placeholder
<1> HIDE DEF l, r, m
<1>4. m \in Seq(S) /\ Len(m) = Len(l) + Len(Placeholder)
  BY <1>1, ConcatProperties DEF m
<1>5. m \o r \in Seq(S) /\ Len(m \o r) = Len(m) + Len(r)
  BY <1>2, <1>4, ConcatProperties
<1>6. Replace(t, d) = m \o r /\ Len(r) \in Nat
  BY <1>2, LenProperties DEF Replace, l, m, r
<1> QED BY <1>1, <1>3, <1>4, <1>5, <1>6

(* Redact goes from the last position to the first.                         *)
Redacting(text, out) ==
    /\ out[0] = text
    /\ \A n \in 1 .. Len(text) :
          out[n] = ReplaceFrom(out[n - 1], Detections(text), Len(text) - n + 1)

LEMMA RedactIs ==
    ASSUME NEW S, Placeholder \in Seq(S), NEW text \in Seq(S)
    PROVE  \E out : Redacting(text, out) /\ Redact(text, Detections(text)) = out[Len(text)]
<1> DEFINE L == Len(text)
           ds == Detections(text)
           Step(t, n) == ReplaceFrom(t, ds, L - n + 1)
           G == [i \in 1 .. L |-> [t \in Seq(S) |-> Step(t, i)]]
           X == [i \in 0 .. L |-> {t \in Seq(S) : Len(t) >= L - i}]
           K(f) == f = [n \in 0 .. L |-> IF n = 0 THEN text ELSE Step(f[n - 1], n)]
<1>0. L \in Nat /\ \A i \in 1 .. L : i \in 0 .. L /\ i - 1 \in 0 .. L /\ i # 0
  BY LenProperties
<1>1. ASSUME NEW i \in 1 .. L, NEW t \in Seq(S), Len(t) >= L - (i - 1)
      PROVE  Step(t, i) \in Seq(S) /\ Len(Step(t, i)) >= L - i
  <2>0. Len(t) \in Nat
    BY LenProperties
  <2>1. CASE \E d \in ds : d.from = L - i + 1
    <3> DEFINE d == CHOOSE d \in ds : d.from = L - i + 1
    <3>1. d \in ds /\ d.from = L - i + 1
      BY <2>1
    <3>2. Step(t, i) = Replace(t, d)
      BY <2>1 DEF ReplaceFrom
    <3> HIDE DEF d
    <3>3. d.from \in 1 .. L /\ d.to \in 1 .. L /\ d.from <= d.to
      BY <3>1, DetectionsAre DEF IsRange
    <3>4. d.from \in Nat /\ d.to \in Nat /\ 1 <= d.from /\ d.from - 1 <= Len(t)
      BY <1>0, <1>1, <2>0, <3>1, <3>3
    <3>5. Replace(t, d) \in Seq(S) /\ Len(Replace(t, d)) >= d.from
      BY <3>3, <3>4, ReplaceIs
    <3>6. Len(Replace(t, d)) \in Nat
      BY <3>5, LenProperties
    <3> QED BY <1>0, <3>1, <3>2, <3>5, <3>6
  <2>2. CASE ~\E d \in ds : d.from = L - i + 1
    <3>1. Step(t, i) = t
      BY <2>2 DEF ReplaceFrom
    <3> QED BY <1>0, <1>1, <2>0, <3>1
  <2> QED BY <2>1, <2>2
<1> HIDE DEF Step
<1>2. PICK f : IsRunIn(f, L, text, G, X)
  <2>1. text \in X[0]
    BY <1>0
  <2>2. \A i \in 1 .. L : \A t \in X[i - 1] : G[i][t] \in X[i]
    <3> TAKE i \in 1 .. L
    <3> TAKE t \in X[i - 1]
    <3>1. t \in Seq(S) /\ Len(t) >= L - (i - 1)
      BY <1>0
    <3>2. G[i][t] = Step(t, i)
      BY <3>1
    <3>3. X[i] = {u \in Seq(S) : Len(u) >= L - i}
      BY <1>0
    <3> HIDE DEF G, X, L
    <3> QED BY <1>1, <3>1, <3>2, <3>3
  <2> HIDE DEF G, X, L
  <2> QED BY <1>0, <2>1, <2>2, IteratesIn
<1>3. /\ f = [i \in 0 .. L |-> f[i]]
      /\ f[0] = text /\ (\A i \in 1 .. L : f[i] = G[i][f[i - 1]]) /\ \A i \in 0 .. L : f[i] \in X[i]
  <2> HIDE DEF G, X, L
  <2> QED BY <1>2 DEF IsRunIn
<1>4. \A i \in 0 .. L : f[i] \in Seq(S)
  <2>1. \A i \in 0 .. L : X[i] \subseteq Seq(S)
    OBVIOUS
  <2> HIDE DEF X, L
  <2> QED BY <1>3, <2>1
<1>5. \A i \in 1 .. L : f[i] = Step(f[i - 1], i)
  <2> TAKE i \in 1 .. L
  <2>1. f[i - 1] \in Seq(S)
    BY <1>0, <1>4
  <2>2. G[i][f[i - 1]] = Step(f[i - 1], i)
    BY <2>1
  <2> HIDE DEF G, L
  <2> QED BY <1>3, <2>2
<1>6. K(f)
  <2>1. \A n \in 0 .. L : f[n] = IF n = 0 THEN text ELSE Step(f[n - 1], n)
    <3> TAKE n \in 0 .. L
    <3>1. n # 0 => n \in 1 .. L
      BY <1>0
    <3> HIDE DEF L
    <3> QED BY <1>3, <1>5, <3>1
  <2> HIDE DEF L
  <2> QED BY <1>3, <2>1
<1> DEFINE k == CHOOSE h : K(h)
<1>7. K(k)
  <2> HIDE DEF K
  <2> QED BY <1>6
<1>8. Redact(text, ds) = k[L]
  BY Zenon DEF Redact, Step
<1> HIDE DEF k
<1>9. \A n \in 0 .. L : k[n] = IF n = 0 THEN text ELSE Step(k[n - 1], n)
  <2> HIDE DEF L
  <2> QED BY <1>7
<1>10. k[0] = text /\ \A n \in 1 .. L : k[n] = Step(k[n - 1], n)
  <2>1. 0 \in 0 .. L
    BY <1>0
  <2> HIDE DEF L
  <2> QED BY <1>0, <1>9, <2>1
<1> QED BY <1>8, <1>10 DEF Step, Redacting

(* What Clean shows of a position.                                          *)
ShownAt(text, i) ==
    IF \E d \in Detections(text) : d.from = i THEN Placeholder
    ELSE IF \E d \in Detections(text) : d.from < i /\ i <= d.to THEN <<>>
    ELSE <<text[i]>>

LEMMA ShownIs ==
    ASSUME NEW S, Placeholder \in Seq(S), NEW text \in Seq(S), NEW i \in 1 .. Len(text)
    PROVE  ShownAt(text, i) \in Seq(S)
<1>1. text[i] \in S
  BY ElementOfSeq
<1>2. <<text[i]>> \in Seq(S) /\ <<>> \in Seq(S)
  BY <1>1
<1> QED BY <1>2 DEF ShownAt

(* Clean, from the last position to the first.                              *)
Cleaning(text, c, S) ==
    /\ c[0] = <<>>
    /\ \A n \in 1 .. Len(text) : c[n] = ShownAt(text, Len(text) - n + 1) \o c[n - 1]
    /\ \A n \in 0 .. Len(text) : c[n] \in Seq(S)

LEMMA CleanIs ==
    ASSUME NEW S, Placeholder \in Seq(S), NEW text \in Seq(S)
    PROVE  \E c : Cleaning(text, c, S) /\ Clean(text) = c[Len(text)]
<1> DEFINE L == Len(text)
           seqs == [i \in 1 .. L |-> ShownAt(text, i)]
           G == [i \in 1 .. L |-> [t \in Seq(S) |-> ShownAt(text, L - i + 1) \o t]]
           X == [i \in 0 .. L |-> Seq(S)]
<1>0. L \in Nat /\ DOMAIN text = 1 .. L
  BY LenProperties
<1>1. \A i \in 1 .. L : ShownAt(text, i) \in Seq(S) /\ L - i + 1 \in 1 .. L /\ i - 1 \in 0 .. L
  BY <1>0, ShownIs
<1>2. seqs \in Seq(Seq(S)) /\ Len(seqs) = L
  BY <1>0, <1>1
<1>3. Clean(text) = FlattenSeq(seqs)
  BY <1>0, Zenon DEF Clean, ShownAt
<1>4. \A i \in 1 .. L : seqs[i] = ShownAt(text, i)
  OBVIOUS
<1> HIDE DEF seqs
<1>5. PICK f : /\ f[0] = <<>> /\ \A i \in 1 .. L : f[i] = f[i - 1] \o seqs[i]
               /\ \A i \in 0 .. L : f[i] \in Seq(S)
               /\ FlattenSeq(seqs) = f[L]
  <2>1. PICK f : /\ f[0] = <<>> /\ \A i \in 1 .. Len(seqs) : f[i] = f[i - 1] \o seqs[i]
                 /\ \A i \in 0 .. Len(seqs) : f[i] \in Seq(S)
                 /\ FlattenSeq(seqs) = f[Len(seqs)]
    BY <1>2, FlattenSeqIs
  <2> HIDE DEF L
  <2> QED BY <1>2, <2>1
<1>6. <<>> \in Seq(S)
  BY EmptySeq
<1>7. PICK c : IsRunIn(c, L, <<>>, G, X)
  <2>1. <<>> \in X[0]
    BY <1>0, <1>6
  <2>2. \A i \in 1 .. L : \A t \in X[i - 1] : G[i][t] \in X[i]
    <3> TAKE i \in 1 .. L
    <3> TAKE t \in X[i - 1]
    <3>1. t \in Seq(S) /\ X[i] = Seq(S)
      BY <1>0
    <3>2. G[i][t] = ShownAt(text, L - i + 1) \o t
      BY <3>1
    <3>3. ShownAt(text, L - i + 1) \in Seq(S)
      BY <1>1
    <3> HIDE DEF G, X, L
    <3> QED BY <3>1, <3>2, <3>3, ConcatProperties
  <2> HIDE DEF G, X, L
  <2> QED BY <1>0, <2>1, <2>2, IteratesIn
<1>8. c[0] = <<>> /\ (\A i \in 1 .. L : c[i] = G[i][c[i - 1]]) /\ \A i \in 0 .. L : c[i] \in X[i]
  <2> HIDE DEF G, X, L
  <2> QED BY <1>7 DEF IsRunIn
<1>9. \A i \in 0 .. L : c[i] \in Seq(S)
  <2>1. \A i \in 0 .. L : X[i] = Seq(S)
    OBVIOUS
  <2> HIDE DEF X, L
  <2> QED BY <1>8, <2>1
<1>10. \A i \in 1 .. L : c[i] = ShownAt(text, L - i + 1) \o c[i - 1]
  <2> TAKE i \in 1 .. L
  <2>1. c[i - 1] \in Seq(S)
    BY <1>1, <1>9
  <2>2. G[i][c[i - 1]] = ShownAt(text, L - i + 1) \o c[i - 1]
    BY <2>1
  <2> HIDE DEF G, L
  <2> QED BY <1>8, <2>2
<1> DEFINE T == {n \in Nat : n <= L => f[L - n] \o c[n] = f[L]}
<1>11. 0 \in T
  <2>1. L - 0 = L /\ f[L] \in Seq(S)
    BY <1>0, <1>5
  <2>2. f[L] \o <<>> = f[L]
    BY <2>1, ConcatEmptySeq
  <2> HIDE DEF L
  <2> QED BY <1>8, <2>1, <2>2
<1>12. ASSUME NEW n \in Nat, n \in T PROVE n + 1 \in T
  <2> SUFFICES ASSUME n + 1 <= L PROVE f[L - (n + 1)] \o c[n + 1] = f[L]
    <3>1. n + 1 \in Nat
      OBVIOUS
    <3> HIDE DEF L
    <3> QED BY <1>0, <3>1
  <2> DEFINE i == L - n
             s == f[i - 1]
             t == seqs[i]
             u == c[n]
  <2>1. /\ i \in 1 .. L /\ i - 1 \in 0 .. L /\ n + 1 \in 1 .. L /\ n \in 0 .. L
        /\ (n + 1) - 1 = n /\ L - (n + 1) + 1 = i /\ L - (n + 1) = i - 1 /\ n <= L
    BY <1>0
  <2>2. c[n + 1] = t \o u
    <3> HIDE DEF L
    <3> QED BY <1>4, <1>10, <2>1
  <2>3. f[i] = s \o t /\ s \in Seq(S) /\ t \in Seq(S) /\ u \in Seq(S)
    <3> HIDE DEF L, i
    <3> QED BY <1>1, <1>4, <1>5, <1>9, <2>1
  <2>4. f[i] \o u = f[L]
    <3> HIDE DEF L
    <3> QED BY <1>12, <2>1
  <2> HIDE DEF i, s, t, u, L
  <2>5. (s \o t) \o u = s \o (t \o u)
    <3>1. AreSeqs(S, s, t, u)
      BY <2>3 DEF AreSeqs
    <3>2. Associate(s, t, u)
      BY <3>1, Associates
    <3> QED BY <3>2 DEF Associate
  <2>6. s \o c[n + 1] = f[i] \o u
    BY <2>2, <2>3, <2>5
  <2>7. s \o c[n + 1] = f[L]
    BY <2>4, <2>6
  <2> QED BY <2>1, <2>7 DEF s
<1>13. Nat \subseteq T
  <2> HIDE DEF T
  <2> QED BY <1>11, <1>12, InductionOnNat
<1>14. c[L] = f[L]
  <2> HIDE DEF L
  <2>1. L \in T /\ L - L = 0 /\ L \in 0 .. L /\ L <= L
    <3> HIDE DEF T
    <3> QED BY <1>0, <1>13
  <2>2. f[0] \o c[L] = f[L]
    BY <2>1
  <2>3. <<>> \o c[L] = c[L]
    BY <1>9, <2>1, ConcatEmptySeq
  <2> QED BY <1>5, <2>2, <2>3
<1> QED BY <1>3, <1>5, <1>8, <1>9, <1>10, <1>14 DEF Cleaning

(* How far the text is still there when the positions after p are done: to  *)
(* p, or to the end of the range that goes beyond it.                       *)
EndsAt(ds, p, m) ==
    \/ m = p /\ \A d \in ds : ~(d.from <= p /\ p < d.to)
    \/ \E d \in ds : d.from <= p /\ p < d.to /\ m = d.to

RemainsAsItIs(text, out, c) ==
    \A n \in Nat : \A m \in Nat :
       n <= Len(text) /\ EndsAt(Detections(text), Len(text) - n, m)
       => out[n] = SubSeq(text, 1, m) \o c[n]

LEMMA TextRemains ==
    ASSUME NEW S, Placeholder \in Seq(S), NEW text \in Seq(S), Disjoint(text),
           NEW out, Redacting(text, out), NEW c, Cleaning(text, c, S)
    PROVE  RemainsAsItIs(text, out, c)
<1> DEFINE L == Len(text)
           ds == Detections(text)
           T == {n \in Nat : n <= L => \A m \in Nat : EndsAt(ds, L - n, m)
                                                   => out[n] = SubSeq(text, 1, m) \o c[n]}
<1>0. L \in Nat
  BY LenProperties
<1>1. \A d \in ds : d.from \in 1 .. L /\ d.to \in 1 .. L /\ d.from <= d.to
  BY DetectionsAre DEF IsRange
<1>2. \A d, e \in ds : d = e \/ d.to < e.from \/ e.to < d.from
  BY DEF Disjoint
<1>3. /\ out[0] = text /\ c[0] = <<>>
      /\ \A n \in 1 .. L : out[n] = ReplaceFrom(out[n - 1], ds, L - n + 1)
                          /\ c[n] = ShownAt(text, L - n + 1) \o c[n - 1]
      /\ \A n \in 0 .. L : c[n] \in Seq(S)
  BY DEF Redacting, Cleaning
<1>4. \A m \in 0 .. L : SubSeq(text, 1, m) \in Seq(S) /\ Len(SubSeq(text, 1, m)) = m
  <2> TAKE m \in 0 .. L
  <2>1. 1 \in Int /\ m \in Int /\ \A i \in 1 .. m : text[i] \in S
    BY <1>0, ElementOfSeq
  <2>2. SubSeq(text, 1, m) \in Seq(S) /\ Len(SubSeq(text, 1, m)) = IF 1 <= m THEN m - 1 + 1 ELSE 0
    BY <2>1, SubSeqProperties
  <2> QED BY <1>0, <2>2
<1>5. \A i \in 1 .. L : SubSeq(text, 1, i) = SubSeq(text, 1, i - 1) \o <<text[i]>>
  <2> TAKE i \in 1 .. L
  <2>1. 1 \in 1 .. L /\ i \in 1 .. L
    BY <1>0
  <2> QED BY <2>1, SubSeqRecursiveSecond
<1>6. SubSeq(text, 1, L) = text
  BY SubSeqFull
<1>7. \A i \in 1 .. L :
         ShownAt(text, i) = IF \E d \in ds : d.from = i THEN Placeholder
                            ELSE IF \E d \in ds : d.from < i /\ i <= d.to THEN <<>>
                            ELSE <<text[i]>>
  BY DEF ShownAt
<1> HIDE DEF L, ds
<1>8. 0 \in T
  <2> SUFFICES ASSUME NEW m \in Nat, EndsAt(ds, L - 0, m)
               PROVE  out[0] = SubSeq(text, 1, m) \o c[0]
    OBVIOUS
  <2>1. m = L
    BY <1>0, <1>1 DEF EndsAt
  <2>2. text \o <<>> = text
    BY ConcatEmptySeq
  <2> QED BY <1>3, <1>6, <2>1, <2>2
<1>9. ASSUME NEW n \in Nat, n \in T PROVE n + 1 \in T
  <2>0. SUFFICES ASSUME n + 1 <= L, NEW m \in Nat, EndsAt(ds, L - (n + 1), m)
                 PROVE  out[n + 1] = SubSeq(text, 1, m) \o c[n + 1]
    <3>1. n + 1 \in Nat
      OBVIOUS
    <3> QED BY <1>0, <3>1
  <2> DEFINE p == L - n
             q == p - 1
  <2>1. /\ p \in 1 .. L /\ q \in 0 .. L /\ L - (n + 1) = q /\ L - (n + 1) + 1 = p
        /\ n + 1 \in 1 .. L /\ (n + 1) - 1 = n /\ n \in 0 .. L /\ n <= L
    BY <1>0, <2>0
  <2>2. /\ out[n + 1] = ReplaceFrom(out[n], ds, p)
        /\ c[n + 1] = ShownAt(text, p) \o c[n]
        /\ c[n] \in Seq(S)
    BY <1>3, <2>1
  <2>3. \A e \in Nat : EndsAt(ds, p, e) => out[n] = SubSeq(text, 1, e) \o c[n]
    BY <1>9, <2>1
  <2>4. EndsAt(ds, q, m)
    BY <2>0, <2>1
  <2> HIDE DEF p
  <2>5. p \in Nat /\ q = p - 1 /\ 1 <= p /\ p <= L
    BY <1>0, <2>1
  <2> HIDE DEF q
  <2>6. CASE \E d \in ds : d.from = p
    <3> DEFINE d == CHOOSE d \in ds : d.from = p
    <3>1. d \in ds /\ d.from = p
      BY <2>6
    <3>2. out[n + 1] = Replace(out[n], d)
      BY <2>2, <2>6 DEF ReplaceFrom
    <3> HIDE DEF d
    <3>3. d.to \in Nat /\ p <= d.to /\ d.to \in 0 .. L
      BY <1>0, <1>1, <2>5, <3>1
    <3>4. m = q
      <4>1. ASSUME NEW e \in ds, e.from <= q, q < e.to PROVE FALSE
        <5>1. e.from \in Nat /\ e.to \in Nat
          BY <1>1
        <5>2. d = e \/ d.to < e.from \/ e.to < d.from
          BY <1>2, <3>1
        <5> QED BY <2>5, <3>1, <3>3, <4>1, <5>1, <5>2
      <4> QED BY <2>4, <4>1 DEF EndsAt
    <3>5. EndsAt(ds, p, d.to)
      <4>1. CASE p < d.to
        BY <2>5, <3>1, <4>1 DEF EndsAt
      <4>2. CASE p = d.to
        BY <1>1, <1>2, <2>5, <3>1, <3>3, <4>2 DEF EndsAt
      <4> QED BY <2>5, <3>3, <4>1, <4>2
    <3> DEFINE t == out[n]
               r == c[n]
               k == d.to
    <3>6. t = SubSeq(text, 1, k) \o r
      BY <2>3, <3>3, <3>5
    <3>7. r \in Seq(S) /\ q \in Nat /\ k \in Nat /\ q <= k /\ k <= Len(text)
      BY <1>0, <2>1, <2>2, <2>5, <3>3 DEF L
    <3>8. Replace(t, d) = (SubSeq(t, 1, q) \o Placeholder) \o SubSeq(t, k + 1, Len(t))
      BY <2>5, <3>1 DEF Replace
    <3>9. c[n + 1] = Placeholder \o r
      BY <1>7, <2>1, <2>2, <2>6
    <3> HIDE DEF t, r, k
    <3>10. (SubSeq(t, 1, q) \o Placeholder) \o SubSeq(t, k + 1, Len(t))
           = SubSeq(text, 1, q) \o (Placeholder \o r)
      <4>1. Spliceable(S, text, Placeholder, r, q, k, t)
        BY <3>6, <3>7 DEF Spliceable
      <4>2. Spliced(text, Placeholder, r, q, k, t)
        BY <4>1, Splice
      <4> QED BY <4>2 DEF Spliced
    <3> QED BY <3>2, <3>4, <3>8, <3>9, <3>10 DEF t
  <2>7. CASE ~\E d \in ds : d.from = p
    <3>1. out[n + 1] = out[n]
      BY <2>2, <2>7 DEF ReplaceFrom
    <3>2. CASE \E d \in ds : d.from < p /\ p <= d.to
      <4>1. PICK d \in ds : d.from < p /\ p <= d.to
        BY <3>2
      <4>2. d.to \in Nat /\ d.from \in Nat /\ d.from <= q /\ q < d.to
        BY <1>0, <1>1, <2>5, <4>1
      <4>3. m = d.to
        <5>1. ASSUME NEW e \in ds, e.from <= q, q < e.to PROVE e = d
          <6>1. e.from \in Nat /\ e.to \in Nat
            BY <1>1
          <6>2. d = e \/ d.to < e.from \/ e.to < d.from
            BY <1>2
          <6> QED BY <2>5, <4>1, <4>2, <5>1, <6>1, <6>2
        <5> QED BY <2>4, <4>2, <5>1 DEF EndsAt
      <4>4. EndsAt(ds, p, d.to)
        <5>1. CASE p < d.to
          BY <2>5, <4>1, <4>2, <5>1 DEF EndsAt
        <5>2. CASE p = d.to
          BY <1>1, <1>2, <2>5, <4>1, <4>2, <5>2 DEF EndsAt
        <5> QED BY <2>5, <4>1, <4>2, <5>1, <5>2
      <4>5. out[n] = SubSeq(text, 1, m) \o c[n]
        BY <2>3, <4>2, <4>3, <4>4
      <4>6. c[n + 1] = <<>> \o c[n]
        BY <1>7, <2>1, <2>2, <2>7, <3>2
      <4>7. <<>> \o c[n] = c[n]
        BY <2>2, ConcatEmptySeq
      <4> QED BY <3>1, <4>5, <4>6, <4>7
    <3>3. CASE ~\E d \in ds : d.from < p /\ p <= d.to
      <4>1. m = q
        BY <1>1, <2>4, <2>5, <3>3 DEF EndsAt
      <4>2. EndsAt(ds, p, p)
        BY <1>1, <2>5, <2>7, <3>3 DEF EndsAt
      <4>3. out[n] = SubSeq(text, 1, p) \o c[n]
        BY <2>3, <2>5, <4>2
      <4>4. SubSeq(text, 1, p) = SubSeq(text, 1, q) \o <<text[p]>>
        BY <1>5, <2>1, <2>5
      <4>5. c[n + 1] = <<text[p]>> \o c[n]
        BY <1>7, <2>1, <2>2, <2>7, <3>3
      <4>6. SubSeq(text, 1, q) \in Seq(S) /\ <<text[p]>> \in Seq(S)
        <5>1. text[p] \in S
          BY <2>1, ElementOfSeq DEF L
        <5> QED BY <1>4, <2>1, <5>1
      <4>7. (SubSeq(text, 1, q) \o <<text[p]>>) \o c[n] = SubSeq(text, 1, q) \o (<<text[p]>> \o c[n])
        <5> DEFINE u == SubSeq(text, 1, q)
                   v == <<text[p]>>
                   w == c[n]
        <5>1. u \in Seq(S) /\ v \in Seq(S) /\ w \in Seq(S)
          BY <2>2, <4>6
        <5> HIDE DEF u, v, w
        <5>2. AreSeqs(S, u, v, w)
          BY <5>1 DEF AreSeqs
        <5>3. Associate(u, v, w)
          BY <5>2, Associates
        <5> QED BY <5>3 DEF Associate, u, v, w
      <4> QED BY <3>1, <4>1, <4>3, <4>4, <4>5, <4>7
    <3> QED BY <3>2, <3>3
  <2> QED BY <2>6, <2>7
<1>10. Nat \subseteq T
  <2> HIDE DEF T
  <2> QED BY <1>8, <1>9, InductionOnNat
<1> QED BY <1>10 DEF RemainsAsItIs, L, ds

(* With disjoint secrets, nothing but the secrets is replaced.              *)
LEMMA RedactCleans ==
    ASSUME NEW S, Placeholder \in Seq(S), NEW text \in Seq(S), Disjoint(text)
    PROVE  Redact(text, Detections(text)) = Clean(text)
<1>1. PICK out : Redacting(text, out) /\ Redact(text, Detections(text)) = out[Len(text)]
  BY RedactIs
<1>2. PICK c : Cleaning(text, c, S) /\ Clean(text) = c[Len(text)]
  BY CleanIs
<1>3. RemainsAsItIs(text, out, c)
  BY <1>1, <1>2, TextRemains
<1> DEFINE L == Len(text)
           ds == Detections(text)
<1>0. L \in Nat /\ \A d \in ds : IsRange(d, L)
  BY DetectionsAre, LenProperties
<1>4. EndsAt(ds, 0, 0)
  BY <1>0 DEF EndsAt, IsRange
<1> HIDE DEF L, ds
<1>8. \A n \in Nat : \A m \in Nat :
         n <= L /\ EndsAt(ds, L - n, m) => out[n] = SubSeq(text, 1, m) \o c[n]
  BY <1>3 DEF RemainsAsItIs, L, ds
<1>5. out[L] = SubSeq(text, 1, 0) \o c[L]
  <2>1. L - L = 0 /\ L <= L /\ 0 \in Nat
    BY <1>0
  <2> QED BY <1>0, <1>4, <1>8, <2>1
<1>6. SubSeq(text, 1, 0) = <<>>
  BY SubSeqEmpty
<1>7. <<>> \o c[L] = c[L]
  <2>1. L \in 0 .. L
    BY <1>0
  <2>2. c[L] \in Seq(S)
    BY <1>2, <2>1 DEF Cleaning, L
  <2> QED BY <2>2, ConcatEmptySeq
<1> QED BY <1>1, <1>2, <1>5, <1>6, <1>7 DEF L, ds

-----------------------------------------------------------------------------
(* What is logged of a request is scrubbed, and the request stays what it is*)
(* in the texts that may be logged.                                         *)
Requested ==
    request \in [text : Texts,
                 header : [name : {"authorization", "custom"}, value : Texts] \union {NoHeader}]

ScrubInv == Requested /\ EntryScrubbed

(* The characters of texts, and of the marks in their place.                *)
Characters == STRING \union {"redacted", "cut"}

LEMMA RequestIs ==
    ASSUME Requested
    PROVE  /\ request.text \in Seq(Characters)
           /\ request.header.value \in Seq(Characters)
           /\ request.header.name = "authorization" => request.header # NoHeader
<1>1. Texts \subseteq Seq(Characters)
  <2>1. ASSUME NEW t \in Seq(STRING) PROVE t \in Seq(Characters)
    <3>1. /\ Len(t) \in Nat /\ t = [i \in 1 .. Len(t) |-> t[i]]
          /\ \A i \in 1 .. Len(t) : t[i] \in Characters
      BY LenProperties, ElementOfSeq DEF Characters
    <3> QED BY <3>1, IsASeq
  <2> QED BY <2>1, ScrubAssumption
<1>2. request.text \in Texts
  BY DEF Requested
<1>3. CASE request.header = NoHeader
  <2>1. request.header.value = <<>> /\ request.header.name = "none"
    BY <1>3 DEF NoHeader
  <2>2. <<>> \in Seq(Characters)
    BY EmptySeq
  <2> QED BY <1>1, <1>2, <2>1, <2>2
<1>4. CASE request.header # NoHeader
  <2>1. request.header \in [name : {"authorization", "custom"}, value : Texts]
    BY <1>4 DEF Requested
  <2> QED BY <1>1, <1>2, <1>4, <2>1
<1> QED BY <1>3, <1>4

(* A text that is redacted at its own detections shows no secret.           *)
LEMMA RedactedIsScrubbed ==
    ASSUME NEW text \in Seq(Characters)
    PROVE  Scrubbed(Redact(text, Detections(text)), text)
<1>1. Placeholder \in Seq(Characters)
  BY DEF Placeholder, Characters
<1>2. CASE Disjoint(text)
  BY <1>1, <1>2, RedactCleans DEF Scrubbed
<1>3. CASE ~Disjoint(text)
  BY <1>3 DEF Scrubbed
<1> QED BY <1>2, <1>3

LEMMA StringIsScrubbed ==
    ASSUME NEW text \in Seq(Characters)
    PROVE  Scrubbed(ScrubSecretsInString(text, NoHeader), text)
<1>1. Combined(NoHeader, text) = text
  BY DEF Combined
<1>2. {d \in Detections(text) : d.from <= Len(text)} = Detections(text)
  <2>1. \A d \in Detections(text) : d.from <= Len(text)
    BY DetectionsAre, LenProperties DEF IsRange
  <2> QED BY <2>1
<1>3. ScrubSecretsInString(text, NoHeader) = Redact(text, Detections(text))
  BY <1>1, <1>2 DEF ScrubSecretsInString
<1> QED BY <1>3, RedactedIsScrubbed

LEMMA TruncatedIs ==
    ASSUME NEW text \in Seq(Characters) PROVE TruncateBody(text) \in Seq(Characters)
<1>1. CASE Len(text) <= MaxBodyLog
  BY <1>1 DEF TruncateBody
<1>2. CASE ~(Len(text) <= MaxBodyLog)
  <2>1. \A i \in 1 .. MaxBodyLog : text[i] \in Characters
    <3>1. Len(text) \in Nat /\ MaxBodyLog \in Nat
      BY LenProperties, ScrubAssumption
    <3> QED BY <1>2, <3>1, ElementOfSeq
  <2>2. SubSeq(text, 1, MaxBodyLog) \in Seq(Characters)
    <3>1. 1 \in Int /\ MaxBodyLog \in Int
      BY ScrubAssumption
    <3> QED BY <2>1, <3>1, SubSeqProperties
  <2>3. <<"cut">> \in Seq(Characters)
    BY DEF Characters
  <2>4. TruncateBody(text) = SubSeq(text, 1, MaxBodyLog) \o <<"cut">>
    BY <1>2 DEF TruncateBody
  <2> QED BY <2>2, <2>3, <2>4, ConcatProperties
<1> QED BY <1>1, <1>2

(* An entry without anything shows nothing.                                 *)
LEMMA NothingIsScrubbed ==
    ASSUME logged = NoEntry PROVE EntryScrubbed
<1>1. logged.path = <<>> /\ logged.body = <<>> /\ logged.header = <<>>
  BY DEF NoEntry
<1>2. \A text : Scrubbed(<<>>, text)
  BY DEF Scrubbed
<1> QED BY <1>1, <1>2 DEF EntryScrubbed

LEMMA InitScrub == ScrubInit => ScrubInv
<1> SUFFICES ASSUME ScrubInit PROVE ScrubInv
  OBVIOUS
<1>1. Requested
  BY DEF ScrubInit, Requested
<1>2. EntryScrubbed
  BY NothingIsScrubbed DEF ScrubInit
<1> QED BY <1>1, <1>2 DEF ScrubInv

LEMMA NextKeepsScrub == ScrubInv /\ [ScrubNext]_scrubVars => ScrubInv'
<1> SUFFICES ASSUME ScrubInv, [ScrubNext]_scrubVars PROVE ScrubInv'
  OBVIOUS
<1> DEFINE text == request.text
           header == request.header
<1>1. request' = request
  BY DEF ScrubNext, LogRequest, NotLogged, LogPath, SetLoggingLevel, scrubVars
<1>2. Requested /\ Requested'
  BY <1>1 DEF ScrubInv, Requested
<1>3. text \in Seq(Characters) /\ header.value \in Seq(Characters)
  BY <1>2, RequestIs
<1>4. CASE LogRequest
  <2> DEFINE path == ScrubSecretsInString(text, header)
             shown == ScrubSecretsInString(TruncateBody(text), header)
  <2>1. /\ logged'.path = path
        /\ logged'.body \in {<<>>, shown}
        /\ \/ logged'.header = <<>>
           \/ header # NoHeader /\ logged'.header = RedactedHeader(header)
    BY <1>4, Zenon DEF LogRequest
  <2>2. header = NoHeader => Scrubbed(path, text) /\ Scrubbed(shown, TruncateBody(text))
    BY <1>3, StringIsScrubbed, TruncatedIs
  <2>3. IF header.name = "authorization" THEN RedactedHeader(header) = Placeholder
        ELSE Scrubbed(RedactedHeader(header), header.value)
    BY <1>3, RedactedIsScrubbed DEF RedactedHeader
  <2>4. \A t : Scrubbed(<<>>, t)
    BY DEF Scrubbed
  <2> HIDE DEF path, shown
  <2>5. EntryScrubbed'
    BY <1>1, <2>1, <2>2, <2>3, <2>4 DEF EntryScrubbed
  <2> QED BY <1>2, <2>5 DEF ScrubInv
<1>5. CASE LogPath
  <2>1. logged'.path = ScrubSecretsInString(text, NoHeader)
        /\ logged'.header = <<>> /\ logged'.body = <<>>
    BY <1>5 DEF LogPath
  <2>2. Scrubbed(logged'.path, text)
    BY <1>3, <2>1, StringIsScrubbed
  <2>3. \A t : Scrubbed(<<>>, t)
    BY DEF Scrubbed
  <2>4. EntryScrubbed'
    BY <1>1, <2>1, <2>2, <2>3 DEF EntryScrubbed
  <2> QED BY <1>2, <2>4 DEF ScrubInv
<1>6. CASE NotLogged \/ \E l \in Levels : SetLoggingLevel(l)
  <2>1. logged' = NoEntry
    BY <1>6 DEF NotLogged, SetLoggingLevel
  <2>2. logged'.path = <<>> /\ logged'.body = <<>> /\ logged'.header = <<>>
    BY <2>1 DEF NoEntry
  <2>3. \A t : Scrubbed(<<>>, t)
    BY DEF Scrubbed
  <2>4. EntryScrubbed'
    BY <1>1, <2>2, <2>3 DEF EntryScrubbed
  <2> QED BY <1>2, <2>4 DEF ScrubInv
<1>7. CASE UNCHANGED scrubVars
  BY <1>1, <1>2, <1>7 DEF ScrubInv, EntryScrubbed, scrubVars
<1> QED BY <1>4, <1>5, <1>6, <1>7 DEF ScrubNext

(* Whatever is logged, at whatever level, of a request without headers shows*)
(* no secret of its path or body and all that is none; and of a header that *)
(* is logged nothing if it authorizes, and no secret if not (logRequest,    *)
(* scrubSecretsInString, redactHeaders) - unless secrets overlap.           *)
THEOREM EntryIsScrubbed == ScrubSpec => []EntryScrubbed
<1>1. ScrubInv => EntryScrubbed
  BY DEF ScrubInv
<1> QED BY InitScrub, NextKeepsScrub, <1>1, PTL DEF ScrubSpec
=============================================================================
