----------------------------- MODULE AuditStream -----------------------------
(****************************************************************************)
(* The audit streams of the admin server (admin/admin-server.ts): the ring  *)
(* buffer of recent entries, and the streams that replay from it and then   *)
(* subscribe, each with its handling of a client that reads slowly.         *)
(*                                                                          *)
(* Entries are numbered as they are logged. What a stream's filter          *)
(* (`include=blocks-only`) leaves out is not an entry here.                 *)
(****************************************************************************)
EXTENDS Naturals, Sequences, SequencesExt

CONSTANTS Streams,
          HistorySize, \* auditHistoryLimit
          MaxDrops,    \* MAX_DROPS_BEFORE_CLOSE
          HighWater    \* unread items from which on res.write returns false

ASSUME StreamAssumption ==
    HistorySize \in Nat /\ MaxDrops \in Nat \ {0} /\ HighWater \in Nat \ {0}

VARIABLES
    logged,    \* the number of the last entry
    history,   \* auditHistory
    phase,     \* "none", "live", "stuck" (the handler threw), "ended" or "gone"
    paused,    \* streams with `paused` set
    needDrain, \* streams whose socket will emit 'drain'
    dropped,   \* droppedWhilePaused
    unread,    \* items written to a stream that its socket still holds
    wire,      \* everything written to a stream
    first      \* history: the first entry a stream is to show

streamVars == <<history, phase, paused, needDrain, dropped, unread, wire, first>>

(* An item covers one entry, or the entries that it says were dropped.      *)
Data(n) == [entry |-> n, covers |-> 1]
Marker(n) == [entry |-> 0, covers |-> n]

StreamInit ==
    /\ logged = 0 /\ history = <<>>
    /\ phase = [s \in Streams |-> "none"]
    /\ paused = {} /\ needDrain = {}
    /\ dropped = [s \in Streams |-> 0]
    /\ unread = [s \in Streams |-> 0]
    /\ wire = [s \in Streams |-> <<>>]
    /\ first = [s \in Streams |-> 0]

-----------------------------------------------------------------------------
(* The ring buffer's own subscriber.                                        *)
Remember(n) ==
    history' = LET longer == Append(history, n)
               IN  IF Len(longer) > HistorySize THEN Tail(longer) ELSE longer

Hearing(s) == phase[s] = "live"
Sending == {s \in Streams : Hearing(s) /\ s \notin paused}

(* Variant of Overflows: a client that reads too slowly is given up one drop*)
(* late.                                                                    *)
OverflowsLate(drops) == drops > MaxDrops

(* `droppedWhilePaused >= MAX_DROPS_BEFORE_CLOSE`                           *)
Overflows(drops) == drops >= MaxDrops

(* `send` of every stream: the entry is written, or dropped while the stream*)
(* is paused. The drop that is one too many ends the stream.                *)
Publish ==
    LET n == logged + 1
        full == {s \in Sending : unread[s] + 1 >= HighWater}
        slow == {s \in Streams : Hearing(s) /\ s \in paused}
    IN  /\ logged' = n
        /\ Remember(n)
        /\ wire' = [s \in Streams |-> IF s \in Sending THEN Append(wire[s], Data(n)) ELSE wire[s]]
        /\ unread' = [s \in Streams |-> IF s \in Sending THEN unread[s] + 1 ELSE unread[s]]
        /\ paused' = paused \union full
        /\ needDrain' = needDrain \union full
        /\ dropped' = [s \in Streams |-> IF s \in slow THEN dropped[s] + 1 ELSE dropped[s]]
        /\ phase' = [s \in Streams |-> IF s \in slow /\ Overflows(dropped[s] + 1)
                                       THEN "ended" ELSE phase[s]]
        /\ UNCHANGED first

-----------------------------------------------------------------------------
(* Entries that are written before the stream pauses, after the line with   *)
(* the retry interval.                                                      *)
Room == IF HighWater > 2 THEN HighWater - 1 ELSE 1

(* handleAuditStream, with the last `count` entries of the ring buffer as   *)
(* what `since` asks for. A replay that drops too many calls `close` before *)
(* it is defined: the handler throws, nobody subscribes and nobody ends the *)
(* response.                                                                *)
Attach(s, count) ==
    /\ phase[s] = "none"
    /\ LET replay == SubSeq(history, Len(history) - count + 1, Len(history))
           sent == IF count < Room THEN count ELSE Room
           drops == count - sent
           throws == Overflows(drops)
       IN  /\ phase' = [phase EXCEPT ![s] = IF throws THEN "stuck" ELSE "live"]
           /\ wire' = [wire EXCEPT ![s] = [i \in 1..sent |-> Data(replay[i])]]
           /\ unread' = [unread EXCEPT ![s] = sent + 1]
           /\ paused' = IF count >= Room THEN paused \union {s} ELSE paused
           /\ needDrain' = IF sent + 1 >= HighWater THEN needDrain \union {s} ELSE needDrain
           /\ dropped' = [dropped EXCEPT ![s] = IF throws THEN MaxDrops ELSE drops]
           /\ first' = [first EXCEPT ![s] = IF count = 0 THEN logged + 1 ELSE replay[1]]
    /\ UNCHANGED <<logged, history>>

(* Variant of StreamDrains: the stream is resumed only if it dropped some.   *)
DrainDropped(s) ==
    /\ needDrain' = needDrain \ {s}
    /\ IF dropped[s] > 0
       THEN /\ paused' = paused \ {s}
            /\ wire' = [wire EXCEPT ![s] = Append(@, Marker(dropped[s]))]
            /\ unread' = [unread EXCEPT ![s] = 1]
            /\ dropped' = [dropped EXCEPT ![s] = 0]
       ELSE /\ unread' = [unread EXCEPT ![s] = 0]
            /\ UNCHANGED <<paused, wire, dropped>>

(* Variant of StreamDrains: the counter is not reset.                       *)
DrainCounting(s) ==
    /\ paused' = paused \ {s}
    /\ needDrain' = IF dropped[s] > 0 /\ HighWater = 1 THEN needDrain ELSE needDrain \ {s}
    /\ wire' = IF dropped[s] > 0
               THEN [wire EXCEPT ![s] = Append(@, Marker(dropped[s]))] ELSE wire
    /\ unread' = [unread EXCEPT ![s] = IF dropped[s] > 0 THEN 1 ELSE 0]
    /\ UNCHANGED dropped

(* 'drain': the stream goes on, after an item that tells what it left out.  *)
(* Whether that item fills the socket again is not looked at.               *)
StreamDrains(s) ==
    /\ paused' = paused \ {s}
    /\ needDrain' = IF dropped[s] > 0 /\ HighWater = 1 THEN needDrain ELSE needDrain \ {s}
    /\ wire' = IF dropped[s] > 0
               THEN [wire EXCEPT ![s] = Append(@, Marker(dropped[s]))] ELSE wire
    /\ unread' = [unread EXCEPT ![s] = IF dropped[s] > 0 THEN 1 ELSE 0]
    /\ dropped' = [dropped EXCEPT ![s] = 0]

(* The client reads. There is no 'drain' once the response has ended.       *)
Read(s) ==
    /\ phase[s] \in {"live", "stuck", "ended"} /\ unread[s] > 0
    /\ \E rest \in 0..(unread[s] - 1) :
          IF rest = 0 /\ s \in needDrain /\ phase[s] # "ended"
          THEN StreamDrains(s)
          ELSE /\ unread' = [unread EXCEPT ![s] = rest]
               /\ UNCHANGED <<paused, needDrain, wire, dropped>>
    /\ UNCHANGED <<logged, history, phase, first>>

(* Bound: at most one keepalive comment above the high-water mark. It is    *)
(* written whatever the socket holds, and pauses nothing.                   *)
Keepalive(s) ==
    /\ Hearing(s) /\ s \notin paused /\ unread[s] <= HighWater
    /\ unread' = [unread EXCEPT ![s] = @ + 1]
    /\ needDrain' = IF unread[s] + 1 >= HighWater THEN needDrain \union {s} ELSE needDrain
    /\ UNCHANGED <<logged, history, phase, paused, dropped, wire, first>>

(* 'close' of the request: unsubscribed, if it ever subscribed.             *)
Detach(s) ==
    /\ phase[s] \in {"live", "stuck", "ended"}
    /\ phase' = [phase EXCEPT ![s] = "gone"]
    /\ UNCHANGED <<logged, history, paused, needDrain, dropped, unread, wire, first>>

StreamNext ==
    \E s \in Streams : \/ \E count \in 0..Len(history) : Attach(s, count)
                       \/ Read(s) \/ Keepalive(s) \/ Detach(s)

-----------------------------------------------------------------------------
(* Types. A paused stream will hear a 'drain', and one that is live has not *)
(* dropped so many entries that it should have ended.                       *)
StreamTypeOK ==
    /\ logged \in Nat /\ history \in Seq(1..logged) /\ Len(history) <= HistorySize
    /\ phase \in [Streams -> {"none", "live", "stuck", "ended", "gone"}]
    /\ paused \subseteq needDrain /\ needDrain \subseteq Streams
    /\ dropped \in [Streams -> 0..MaxDrops]
    /\ \A s \in Streams : Hearing(s) => dropped[s] < MaxDrops
    /\ \A s \in Streams : unread[s] <= HighWater + 2
    /\ \A s \in needDrain : phase[s] \in {"live", "stuck"} => unread[s] > 0

(* How many entries the first n items cover together.                       *)
Covered(items, n) ==
    LET sum[i \in 0..Len(items)] == IF i = 0 THEN 0 ELSE sum[i - 1] + items[i].covers
    IN  sum[n]

(* A stream tells the truth about what it leaves out: whoever adds up the   *)
(* entries and the numbers of dropped ones knows at every entry which one it*)
(* is, and only what was dropped since is still to be told.                 *)
GapsAreMarked ==
    \A s \in Streams :
        /\ \A i \in DOMAIN wire[s] :
              wire[s][i].entry # 0 =>
                  wire[s][i].entry = first[s] + Covered(wire[s], i - 1)
        /\ Hearing(s) => first[s] + Covered(wire[s], Len(wire[s])) + dropped[s] = logged + 1

(* A paused stream whose client reads on is resumed, or it has ended.       *)
ReadersCatchUp == \A s \in Streams : (s \in paused) ~> (s \notin paused \/ ~Hearing(s))
=============================================================================
