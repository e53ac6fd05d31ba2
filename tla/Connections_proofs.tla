------------------------- MODULE Connections_proofs -------------------------
(***************************************************************************)
(* The four ways from a client to an upstream, for any number of tunnels,   *)
(* requests, sockets, streams and sessions.  Each has its inductive         *)
(* invariant; MCConnections, which runs one of them, has them all.          *)
(***************************************************************************)
EXTENDS MCConnections, FiniteSetTheorems, ProofLemmas

(***************************************************************************)
(* The tunnels.                                                             *)
(***************************************************************************)
Verdicts == {"allowed", "error"}

TunnelTypes ==
    /\ kind \in [Tunnels -> {"none", "connect", "websocket"}]
    /\ client \in [Tunnels -> {"open", "closed"}]
    /\ upstream \in [Tunnels -> {"none", "connecting", "waiting", "open", "closed"}]
    /\ timer \in [Tunnels -> {"none", "connect", "idle"}]
    /\ heard \subseteq Tunnels /\ settled \subseteq Tunnels /\ quiet \subseteq Tunnels
    /\ reply \in [Tunnels -> {"none", "200", "refused", "502"}]
    /\ audit \in [Tunnels -> Seq(Verdicts)]
    /\ active \in Nat

(* What the stage of a tunnel says of its timer and its promise. Only a     *)
(* CONNECT tunnel that nobody heard its client leave is dialled on after it *)
(* timed out.                                                               *)
Staged(t) ==
    /\ kind[t] = "none" <=> upstream[t] = "none"
    /\ upstream[t] = "none" => t \notin heard /\ t \notin settled
    /\ upstream[t] = "connecting" /\ t \in settled => kind[t] = "connect" /\ t \notin heard
    /\ upstream[t] = "waiting" => kind[t] = "websocket" /\ t \notin settled
    /\ upstream[t] = "open" => t \in settled
    /\ timer[t] = IF upstream[t] = "open" THEN "idle"
                  ELSE IF upstream[t] \in {"connecting", "waiting"} /\ t \notin settled THEN "connect"
                  ELSE "none"

(* What the books say of it: a pending promise has no record yet, and one   *)
(* that is dialled on has an error.                                         *)
Recorded(t) ==
    /\ upstream[t] = "none" => reply[t] = "none"
    /\ t \notin settled => audit[t] = <<>>
    /\ Len(audit[t]) <= IF upstream[t] = "connecting" THEN 1 ELSE 2
    /\ t \in heard => /\ client[t] = "open" <=> TunnelLive(t)
                      /\ audit[t] \in {<<>>, <<"allowed">>, <<"error">>}
                      /\ audit[t] = <<"allowed">> <=> reply[t] = "200"
                      /\ upstream[t] = "open" => audit[t] = <<"allowed">>

(* The WebSockets that may be counted: what nobody hears the client leave is*)
(* not counted down.                                                        *)
Countable == {t \in Tunnels : /\ kind[t] = "websocket"
                              /\ Connected(t) \/ (t \notin heard /\ upstream[t] = "closed")}

TunnelInv == /\ TunnelTypes
             /\ \A t \in Tunnels : Staged(t) /\ Recorded(t)
             /\ active <= Cardinality(Countable)

LEMMA OneMore ==
    ASSUME NEW S, NEW s \in Seq(S), NEW x \in S
    PROVE  Append(s, x) \in Seq(S) /\ Len(Append(s, x)) = Len(s) + 1 /\ Len(s) \in Nat
OBVIOUS

LEMMA RecordsAre ==
    /\ Append(<<>>, "error") = <<"error">> /\ Append(<<>>, "allowed") = <<"allowed">>
    /\ <<>> # <<"error">> /\ <<>> # <<"allowed">> /\ <<"error">> # <<"allowed">>
    /\ <<>> \in Seq(Verdicts) /\ <<"error">> \in Seq(Verdicts)
    /\ Len(<<>>) = 0 /\ Len(<<"error">>) = 1
    /\ \A s \in Seq(Verdicts), x \in Verdicts :
          /\ Append(s, x) \in Seq(Verdicts) /\ Len(Append(s, x)) = Len(s) + 1 /\ Len(s) \in Nat
<1>1. Append(<<>>, "error") = <<"error">> /\ Append(<<>>, "allowed") = <<"allowed">>
  OBVIOUS
<1>2. Len(<<>>) = 0 /\ Len(<<"error">>) = 1 /\ Len(<<"allowed">>) = 1
  OBVIOUS
<1>3. <<"error">> # <<"allowed">>
  <2>1. <<"error">>[1] = "error" /\ <<"allowed">>[1] = "allowed"
    OBVIOUS
  <2> QED BY <2>1
<1>4. <<>> # <<"error">> /\ <<>> # <<"allowed">>
  BY <1>2
<1>5. <<>> \in Seq(Verdicts)
  BY EmptySeq
<1>6. \A s \in Seq(Verdicts), x \in Verdicts :
         Append(s, x) \in Seq(Verdicts) /\ Len(Append(s, x)) = Len(s) + 1 /\ Len(s) \in Nat
  BY OneMore
<1>7. <<"error">> \in Seq(Verdicts)
  <2>1. "error" \in Verdicts
    BY DEF Verdicts
  <2> QED BY <1>1, <1>5, <1>6, <2>1
<1> QED BY <1>1, <1>2, <1>3, <1>4, <1>5, <1>6, <1>7

(* A step of a tunnel is no step of another one.                            *)
Aside(t) ==
    /\ kind' \in [Tunnels -> {"none", "connect", "websocket"}]
    /\ client' \in [Tunnels -> {"open", "closed"}]
    /\ upstream' \in [Tunnels -> {"none", "connecting", "waiting", "open", "closed"}]
    /\ timer' \in [Tunnels -> {"none", "connect", "idle"}]
    /\ heard' \subseteq Tunnels /\ settled' \subseteq Tunnels /\ quiet' \subseteq Tunnels
    /\ reply' \in [Tunnels -> {"none", "200", "refused", "502"}]
    /\ audit' \in [Tunnels -> Seq(Verdicts)]
    /\ \A u \in Tunnels \ {t} :
          /\ kind'[u] = kind[u] /\ client'[u] = client[u] /\ upstream'[u] = upstream[u]
          /\ timer'[u] = timer[u] /\ reply'[u] = reply[u] /\ audit'[u] = audit[u]
          /\ u \in heard' <=> u \in heard
          /\ u \in settled' <=> u \in settled

LEMMA OneTunnelMoves ==
    ASSUME TunnelInv, NEW t \in Tunnels, Aside(t), Staged(t)', Recorded(t)', active' \in Nat,
           \/ active' <= active /\ (t \in Countable => t \in Countable')
           \/ active' = active + 1 /\ t \notin Countable /\ t \in Countable'
           \/ active' <= active - 1
           \/ active' = 0
    PROVE  TunnelInv'
<1>1. TunnelTypes'
  BY DEF Aside, TunnelTypes
<1>2. ASSUME NEW u \in Tunnels PROVE Staged(u)' /\ Recorded(u)'
  <2>1. CASE u # t
    <3>0. /\ kind'[u] = kind[u] /\ client'[u] = client[u] /\ upstream'[u] = upstream[u]
          /\ timer'[u] = timer[u] /\ reply'[u] = reply[u] /\ audit'[u] = audit[u]
          /\ u \in heard' <=> u \in heard
          /\ u \in settled' <=> u \in settled
          /\ Staged(u) /\ Recorded(u)
      BY <2>1 DEF TunnelInv, Aside
    <3>1. Staged(u)'
      BY <3>0 DEF Staged
    <3>2. Recorded(u)'
      BY <3>0 DEF Recorded, TunnelLive
    <3> QED BY <3>1, <3>2
  <2> QED BY <2>1
<1>3. active' <= Cardinality(Countable')
  <2>1. \A u \in Tunnels \ {t} : u \in Countable' <=> u \in Countable
    BY DEF Aside, Countable, Connected
  <2>2. /\ IsFiniteSet(Countable) /\ IsFiniteSet(Countable')
        /\ Cardinality(Countable) \in Nat /\ Cardinality(Countable') \in Nat
    <3>1. Countable \subseteq Tunnels /\ Countable' \subseteq Tunnels
      BY DEF Countable
    <3> QED BY <3>1, TunnelAssumption, FS_Subset, FS_CardinalityType
  <2>3. active <= Cardinality(Countable) /\ active \in Nat
    BY DEF TunnelInv, TunnelTypes
  <2>4. Countable' \cup {t} = Countable \cup {t} /\ Countable' \subseteq Tunnels /\ Countable \subseteq Tunnels
    BY <2>1 DEF Countable
  <2>5. CASE t \in Countable <=> t \in Countable'
    <3>1. Countable' = Countable
      BY <2>4, <2>5
    <3> QED BY <2>2, <2>3, <2>5, <3>1
  <2>6. CASE t \in Countable /\ t \notin Countable'
    <3>1. Countable' = Countable \ {t}
      BY <2>4, <2>6
    <3>2. Cardinality(Countable') = Cardinality(Countable) - 1
      BY <2>2, <2>6, <3>1, FS_RemoveElement
    <3> QED BY <2>2, <2>3, <2>6, <3>2
  <2>7. CASE t \notin Countable /\ t \in Countable'
    <3>1. Countable' = Countable \cup {t}
      BY <2>4, <2>7
    <3>2. Cardinality(Countable') = Cardinality(Countable) + 1
      BY <2>2, <2>7, <3>1, FS_AddElement
    <3> QED BY <2>2, <2>3, <2>7, <3>2
  <2> QED BY <2>5, <2>6, <2>7
<1> QED BY <1>1, <1>2, <1>3 DEF TunnelInv

LEMMA InitTunnels == TunnelInit => TunnelInv
<1> SUFFICES ASSUME TunnelInit PROVE TunnelInv
  OBVIOUS
<1>1. TunnelTypes
  BY RecordsAre DEF TunnelInit, TunnelTypes
<1>2. \A t \in Tunnels : Staged(t) /\ Recorded(t)
  BY RecordsAre DEF TunnelInit, Staged, Recorded
<1>3. Countable = {} /\ active = 0
  BY DEF TunnelInit, Countable
<1> QED BY <1>1, <1>2, <1>3, FS_EmptySet DEF TunnelInv

(* What the parts of a step do to the tunnel.                               *)
LEMMA DialMoves ==
    ASSUME TunnelInv, NEW t \in Tunnels, NEW k \in {"connect", "websocket"}, Dial(t, k)
    PROVE  TunnelInv'
<1>1. Staged(t) /\ Recorded(t) /\ TunnelTypes
  BY DEF TunnelInv
<1>2. Aside(t)
  BY <1>1 DEF Dial, Aside, TunnelTypes
<1>3. /\ kind'[t] = k /\ upstream[t] = "none" /\ upstream'[t] = "connecting" /\ timer'[t] = "connect"
      /\ t \in heard' <=> client[t] = "open"
      /\ client' = client /\ reply' = reply /\ audit' = audit /\ settled' = settled
      /\ active' = active
  BY <1>1 DEF Dial, TunnelTypes, Staged
<1>4. Staged(t)'
  BY <1>1, <1>3 DEF Staged
<1>5. Recorded(t)'
  <2>1. audit'[t] = <<>> /\ reply'[t] = "none" /\ Len(audit'[t]) <= 1
    BY <1>1, <1>3, RecordsAre DEF Recorded, Staged
  <2>2. client'[t] = "open" <=> t \in heard'
    BY <1>3
  <2>3. upstream'[t] = "connecting"
    BY <1>3
  <2> QED BY <2>1, <2>2, <2>3, RecordsAre DEF Recorded, TunnelLive
<1>6. active' \in Nat /\ t \notin Countable
  BY <1>1, <1>3 DEF TunnelTypes, Countable, Connected, Staged
<1> QED BY <1>2, <1>3, <1>4, <1>5, <1>6, OneTunnelMoves

(* Both sockets are destroyed, and what was counted is counted down, or the *)
(* tunnel is one whose client left unheard.                                 *)
LEMMA DisconnectIs ==
    ASSUME TunnelInv, NEW t \in Tunnels, Disconnect(t), upstream[t] # "none",
           kind' = kind, heard' = heard
    PROVE  /\ upstream' \in [Tunnels -> {"none", "connecting", "waiting", "open", "closed"}]
           /\ client' \in [Tunnels -> {"open", "closed"}]
           /\ timer' \in [Tunnels -> {"none", "connect", "idle"}]
           /\ \A u \in Tunnels \ {t} : upstream'[u] = upstream[u] /\ client'[u] = client[u]
                                       /\ timer'[u] = timer[u]
           /\ upstream'[t] = "closed" /\ client'[t] = "closed" /\ timer'[t] = "none"
           /\ active' \in Nat
           /\ \/ active' <= active /\ (t \in Countable => t \in Countable')
              \/ active' <= active - 1
              \/ active' = 0
<1>1. TunnelTypes /\ Recorded(t) /\ Staged(t)
  BY DEF TunnelInv
<1>2. /\ upstream' \in [Tunnels -> {"none", "connecting", "waiting", "open", "closed"}]
      /\ client' \in [Tunnels -> {"open", "closed"}]
      /\ timer' \in [Tunnels -> {"none", "connect", "idle"}]
      /\ \A u \in Tunnels \ {t} : upstream'[u] = upstream[u] /\ client'[u] = client[u]
                                  /\ timer'[u] = timer[u]
      /\ upstream'[t] = "closed" /\ client'[t] = "closed" /\ timer'[t] = "none"
  BY <1>1 DEF Disconnect, TunnelTypes
<1>3. active \in Nat /\ active' = IF kind[t] = "websocket" /\ t \in heard /\ client[t] = "open" /\ active > 0
                                  THEN active - 1 ELSE active
  BY <1>1 DEF Disconnect, TunnelTypes
<1>4. CASE kind[t] = "websocket" /\ t \in heard /\ client[t] = "open"
  <2>1. CASE active > 0
    BY <1>2, <1>3, <1>4, <2>1
  <2>2. CASE active = 0
    BY <1>2, <1>3, <1>4, <2>2
  <2> QED BY <1>2, <1>3, <2>1, <2>2
<1>5. CASE t \notin heard
  <2>1. t \in Countable => t \in Countable'
    BY <1>2, <1>5 DEF Countable
  <2> QED BY <1>2, <1>3, <1>5, <2>1
<1>6. CASE t \in heard /\ kind[t] # "websocket"
  <2>1. t \notin Countable
    BY <1>6 DEF Countable
  <2> QED BY <1>2, <1>3, <1>6, <2>1
<1>7. CASE t \in heard /\ client[t] # "open"
  <2>1. t \notin Countable
    <3>1. ~TunnelLive(t)
      BY <1>1, <1>7 DEF Recorded
    <3> QED BY <1>7, <3>1 DEF Countable, Connected, TunnelLive
  <2> QED BY <1>2, <1>3, <1>7, <2>1
<1> QED BY <1>4, <1>5, <1>6, <1>7

LEMMA RejectIs ==
    ASSUME TunnelInv, NEW t \in Tunnels, Reject(t)
    PROVE  /\ audit' \in [Tunnels -> Seq(Verdicts)]
           /\ \A u \in Tunnels \ {t} : audit'[u] = audit[u]
           /\ audit'[t] = IF t \in settled THEN audit[t] ELSE <<"error">>
<1>1. TunnelTypes /\ (t \notin settled => audit[t] = <<>>)
  BY DEF TunnelInv, Recorded
<1>2. Append(<<>>, "error") = <<"error">> /\ <<"error">> \in Seq(Verdicts)
  BY RecordsAre
<1>3. CASE t \in settled
  BY <1>1, <1>3 DEF Reject, TunnelTypes
<1>4. CASE t \notin settled
  <2>1. audit' = [audit EXCEPT ![t] = <<"error">>]
    BY <1>1, <1>2, <1>4 DEF Reject, Record, TunnelTypes
  <2> QED BY <1>1, <1>2, <1>4, <2>1 DEF TunnelTypes
<1> QED BY <1>3, <1>4

LEMMA TunnelWriteIs ==
    ASSUME TunnelInv, NEW t \in Tunnels, NEW status \in {"200", "refused", "502"},
           TunnelWrite(t, status)
    PROVE  /\ reply' \in [Tunnels -> {"none", "200", "refused", "502"}]
           /\ \A u \in Tunnels \ {t} : reply'[u] = reply[u]
           /\ reply'[t] = IF client[t] = "open" THEN status ELSE reply[t]
<1>1. TunnelTypes
  BY DEF TunnelInv
<1> QED BY <1>1 DEF TunnelWrite, TunnelTypes

LEMMA AllowedIs ==
    ASSUME TunnelInv, NEW t \in Tunnels, Record(t, "allowed"), Len(audit[t]) <= 1
    PROVE  /\ audit' \in [Tunnels -> Seq(Verdicts)]
           /\ \A u \in Tunnels \ {t} : audit'[u] = audit[u]
           /\ Len(audit'[t]) <= 2 /\ (audit[t] = <<>> => audit'[t] = <<"allowed">>)
<1>1. TunnelTypes
  BY DEF TunnelInv
<1>2. /\ Append(audit[t], "allowed") \in Seq(Verdicts) /\ Len(Append(audit[t], "allowed")) <= 2
      /\ audit[t] = <<>> => Append(audit[t], "allowed") = <<"allowed">>
  <2>1. audit[t] \in Seq(Verdicts)
    BY <1>1 DEF TunnelTypes
  <2>2. "allowed" \in Verdicts
    BY DEF Verdicts
  <2>3. Append(audit[t], "allowed") \in Seq(Verdicts)
        /\ Len(Append(audit[t], "allowed")) = Len(audit[t]) + 1 /\ Len(audit[t]) \in Nat
    BY <2>1, <2>2, RecordsAre
  <2>4. audit[t] = <<>> => Append(audit[t], "allowed") = <<"allowed">>
    BY RecordsAre
  <2> QED BY <2>3, <2>4
<1> QED BY <1>1, <1>2 DEF Record, TunnelTypes

(* A step that disconnects: the tunnel is closed, and a promise that is     *)
(* settled now has its record.                                              *)
LEMMA EndMoves ==
    ASSUME TunnelInv, NEW t \in Tunnels, upstream[t] # "none", Disconnect(t),
           UNCHANGED <<kind, heard>>, quiet' \subseteq Tunnels,
           \/ UNCHANGED <<settled, audit>>
           \/ settled' = settled \union {t} /\ Reject(t),
           \/ UNCHANGED reply
           \/ t \notin settled /\ \E s \in {"refused", "502"} : TunnelWrite(t, s)
    PROVE  TunnelInv'
<1>1. TunnelTypes /\ Staged(t) /\ Recorded(t)
  BY DEF TunnelInv
<1>2. /\ upstream' \in [Tunnels -> {"none", "connecting", "waiting", "open", "closed"}]
      /\ client' \in [Tunnels -> {"open", "closed"}]
      /\ timer' \in [Tunnels -> {"none", "connect", "idle"}]
      /\ \A u \in Tunnels \ {t} : upstream'[u] = upstream[u] /\ client'[u] = client[u]
                                  /\ timer'[u] = timer[u]
      /\ upstream'[t] = "closed" /\ client'[t] = "closed" /\ timer'[t] = "none"
      /\ active' \in Nat
      /\ \/ active' <= active /\ (t \in Countable => t \in Countable')
         \/ active' <= active - 1
         \/ active' = 0
  BY DisconnectIs
<1>3. /\ audit' \in [Tunnels -> Seq(Verdicts)] /\ \A u \in Tunnels \ {t} : audit'[u] = audit[u]
      /\ settled' \subseteq Tunnels /\ \A u \in Tunnels \ {t} : u \in settled' <=> u \in settled
      /\ t \notin settled' => audit'[t] = <<>>
      /\ Len(audit'[t]) <= 2
      /\ audit'[t] = IF t \in settled' \ settled THEN <<"error">> ELSE audit[t]
      /\ t \notin settled => audit[t] = <<>>
  <2>0. Len(audit[t]) <= 2 /\ (t \notin settled => audit[t] = <<>>)
    BY <1>1, RecordsAre DEF Recorded, TunnelTypes
  <2>1. CASE UNCHANGED <<settled, audit>>
    BY <1>1, <2>0, <2>1 DEF TunnelTypes
  <2>2. CASE settled' = settled \union {t} /\ Reject(t)
    <3>1. /\ audit' \in [Tunnels -> Seq(Verdicts)]
          /\ \A u \in Tunnels \ {t} : audit'[u] = audit[u]
          /\ audit'[t] = IF t \in settled THEN audit[t] ELSE <<"error">>
      BY <2>2, RejectIs
    <3>2. Len(audit'[t]) <= 2
      BY <2>0, <3>1, RecordsAre
    <3>3. settled \subseteq Tunnels
      BY <1>1 DEF TunnelTypes
    <3> QED BY <2>0, <2>2, <3>1, <3>2, <3>3
  <2> QED BY <2>1, <2>2
<1>4. /\ reply' \in [Tunnels -> {"none", "200", "refused", "502"}]
      /\ \A u \in Tunnels \ {t} : reply'[u] = reply[u]
      /\ reply'[t] = reply[t] \/ (t \notin settled /\ reply'[t] \in {"refused", "502"})
  <2>1. CASE UNCHANGED reply
    BY <1>1, <2>1 DEF TunnelTypes
  <2>2. ASSUME t \notin settled, NEW s \in {"refused", "502"}, TunnelWrite(t, s)
        PROVE  /\ reply' \in [Tunnels -> {"none", "200", "refused", "502"}]
               /\ \A u \in Tunnels \ {t} : reply'[u] = reply[u]
               /\ reply'[t] = reply[t] \/ reply'[t] \in {"refused", "502"}
    BY <2>2, TunnelWriteIs
  <2> QED BY <2>1, <2>2
<1>5. Aside(t)
  BY <1>1, <1>2, <1>3, <1>4 DEF Aside, TunnelTypes
<1>6. Staged(t)'
  BY <1>1, <1>2 DEF Staged
<1>7. Recorded(t)'
  <2>1. ASSUME t \in heard
        PROVE  /\ audit'[t] \in {<<>>, <<"allowed">>, <<"error">>}
               /\ audit'[t] = <<"allowed">> <=> reply'[t] = "200"
    <3>1. /\ audit[t] \in {<<>>, <<"allowed">>, <<"error">>}
          /\ audit[t] = <<"allowed">> <=> reply[t] = "200"
      BY <1>1, <2>1 DEF Recorded
    <3>2. CASE reply'[t] = reply[t]
      <4>1. t \notin settled => reply[t] # "200"
        BY <1>1, <3>1, RecordsAre DEF Recorded
      <4> QED BY <1>3, <3>1, <3>2, <4>1, RecordsAre
    <3>3. CASE t \notin settled /\ reply'[t] \in {"refused", "502"}
      BY <1>3, <3>1, <3>3, RecordsAre
    <3> QED BY <1>4, <3>2, <3>3
  <2> QED BY <1>1, <1>2, <1>3, <2>1 DEF Recorded, TunnelLive
<1> QED BY <1>2, <1>5, <1>6, <1>7, OneTunnelMoves

LEMMA ConnectMoves ==
    ASSUME TunnelInv, NEW t \in Tunnels, Connect(t) \/ Upgraded(t)
    PROVE  TunnelInv'
<1>1. TunnelTypes /\ Staged(t) /\ Recorded(t)
  BY DEF TunnelInv
<1>2. /\ upstream[t] \in {"connecting", "waiting"}
      /\ upstream' = [upstream EXCEPT ![t] = "open"] /\ timer' = [timer EXCEPT ![t] = "idle"]
      /\ settled' = settled \union {t}
      /\ TunnelWrite(t, "200") /\ Record(t, "allowed")
      /\ UNCHANGED <<kind, client, heard, quiet, active>>
  BY DEF Connect, Upgraded
<1>3. Len(audit[t]) <= 1 /\ (t \in heard => t \notin settled /\ audit[t] = <<>>)
  BY <1>1, <1>2, RecordsAre DEF Staged, Recorded
<1>4. /\ audit' \in [Tunnels -> Seq(Verdicts)] /\ \A u \in Tunnels \ {t} : audit'[u] = audit[u]
      /\ Len(audit'[t]) <= 2 /\ (audit[t] = <<>> => audit'[t] = <<"allowed">>)
  BY <1>2, <1>3, AllowedIs
<1>5. /\ reply' \in [Tunnels -> {"none", "200", "refused", "502"}]
      /\ \A u \in Tunnels \ {t} : reply'[u] = reply[u]
      /\ reply'[t] = IF client[t] = "open" THEN "200" ELSE reply[t]
  BY <1>2, TunnelWriteIs
<1>6. upstream'[t] = "open" /\ timer'[t] = "idle" /\ t \in settled' /\ client'[t] = client[t]
      /\ kind'[t] = kind[t]
  BY <1>1, <1>2 DEF TunnelTypes
<1>7. Aside(t)
  BY <1>1, <1>2, <1>4, <1>5 DEF Aside, TunnelTypes
<1>8. Staged(t)'
  BY <1>1, <1>2, <1>6 DEF Staged
<1>9. Recorded(t)'
  <2>1. t \in heard => client[t] = "open"
    BY <1>1, <1>2 DEF Recorded, TunnelLive
  <2>2. t \in heard => audit'[t] = <<"allowed">> /\ reply'[t] = "200"
    BY <1>3, <1>4, <1>5, <2>1
  <2>3. t \in heard' <=> t \in heard
    BY <1>2
  <2>4. Len(audit'[t]) <= IF upstream'[t] = "connecting" THEN 1 ELSE 2
    BY <1>4, <1>6
  <2>5. ASSUME t \in heard'
        PROVE  /\ client'[t] = "open" <=> TunnelLive(t)'
               /\ audit'[t] \in {<<>>, <<"allowed">>, <<"error">>}
               /\ audit'[t] = <<"allowed">> <=> reply'[t] = "200"
               /\ upstream'[t] = "open" => audit'[t] = <<"allowed">>
    BY <1>6, <2>1, <2>2, <2>3, <2>5 DEF TunnelLive
  <2> QED BY <1>6, <2>4, <2>5 DEF Recorded
<1>10. active' = active /\ active' \in Nat /\ (t \in Countable => t \in Countable')
  BY <1>1, <1>2, <1>6 DEF TunnelTypes, Countable, Connected
<1> QED BY <1>7, <1>8, <1>9, <1>10, OneTunnelMoves

LEMMA ConnectWebSocketMoves ==
    ASSUME TunnelInv, NEW t \in Tunnels, ConnectWebSocket(t)
    PROVE  TunnelInv'
<1>1. TunnelTypes /\ Staged(t) /\ Recorded(t)
  BY DEF TunnelInv
<1>2. /\ upstream[t] = "connecting" /\ upstream'[t] = "waiting" /\ active' = active + 1
      /\ kind[t] = "websocket"
      /\ UNCHANGED <<kind, client, heard, timer, settled, quiet, reply, audit>>
  BY <1>1 DEF ConnectWebSocket, TunnelTypes
<1>3. Aside(t)
  BY <1>1 DEF Aside, TunnelTypes, ConnectWebSocket
<1>4. Staged(t)'
  BY <1>1, <1>2 DEF Staged
<1>5. Recorded(t)'
  <2>1. t \notin settled /\ audit[t] = <<>>
    BY <1>1, <1>2 DEF Staged, Recorded
  <2> QED BY <1>1, <1>2, <2>1, RecordsAre DEF Recorded, TunnelLive
<1>6. active' = active + 1 /\ active' \in Nat /\ t \notin Countable /\ t \in Countable'
  BY <1>1, <1>2 DEF TunnelTypes, Countable, Connected
<1> QED BY <1>3, <1>4, <1>5, <1>6, OneTunnelMoves

(* A timeout or an end that nobody hears leaves the upstream socket alone.  *)
LEMMA UnheardMoves ==
    ASSUME TunnelInv, NEW t \in Tunnels, t \notin heard,
           \/ TunnelTimeout(t) /\ UNCHANGED <<client, upstream, active>>
           \/ ClientCloses(t) /\ UNCHANGED <<upstream, timer, active>>
    PROVE  TunnelInv'
<1>1. TunnelTypes /\ Staged(t) /\ Recorded(t)
  BY DEF TunnelInv
<1>2. CASE TunnelTimeout(t) /\ UNCHANGED <<client, upstream, active>>
  <2>1. /\ Reject(t) /\ settled' = settled \union {t} /\ timer' = [timer EXCEPT ![t] = "none"]
        /\ timer[t] = "connect" /\ kind[t] = "connect"
        /\ UNCHANGED <<kind, heard, quiet, reply>>
    BY <1>2 DEF TunnelTimeout
  <2>2. upstream[t] = "connecting" /\ t \notin settled
    BY <1>1, <2>1 DEF Staged, TunnelTypes
  <2>3. /\ audit' \in [Tunnels -> Seq(Verdicts)] /\ audit'[t] = <<"error">>
        /\ \A u \in Tunnels \ {t} : audit'[u] = audit[u]
    BY <2>1, <2>2, RejectIs
  <2>4. Aside(t)
    BY <1>1, <1>2, <2>1, <2>3 DEF Aside, TunnelTypes
  <2>5. Staged(t)'
    BY <1>1, <1>2, <2>1, <2>2 DEF Staged, TunnelTypes
  <2>6. Recorded(t)'
    BY <1>1, <1>2, <2>1, <2>2, <2>3, RecordsAre DEF Recorded
  <2>7. active' = active /\ active' \in Nat /\ (t \in Countable => t \in Countable')
    BY <1>1, <1>2, <2>1 DEF TunnelTypes, Countable, Connected
  <2> QED BY <2>4, <2>5, <2>6, <2>7, OneTunnelMoves
<1>3. CASE ClientCloses(t) /\ UNCHANGED <<upstream, timer, active>>
  <2>1. /\ UNCHANGED <<kind, heard, settled, quiet, reply, audit>>
        /\ client' \in [Tunnels -> {"open", "closed"}]
        /\ \A u \in Tunnels \ {t} : client'[u] = client[u]
    BY <1>1, <1>3 DEF ClientCloses, Disconnect, TunnelTypes
  <2>2. Aside(t)
    BY <1>1, <1>3, <2>1 DEF Aside, TunnelTypes
  <2>3. Staged(t)'
    BY <1>1, <1>3, <2>1 DEF Staged
  <2>4. Recorded(t)'
    BY <1>1, <1>3, <2>1 DEF Recorded
  <2>5. active' = active /\ active' \in Nat /\ (t \in Countable => t \in Countable')
    BY <1>1, <1>3, <2>1 DEF TunnelTypes, Countable, Connected
  <2> QED BY <2>2, <2>3, <2>4, <2>5, OneTunnelMoves
<1> QED BY <1>2, <1>3

LEMMA TransferMoves ==
    ASSUME TunnelInv, NEW t \in Tunnels, TunnelTransfers(t)
    PROVE  TunnelInv'
<1>1. /\ UNCHANGED <<kind, client, upstream, heard, timer, settled, reply, audit, active>>
      /\ quiet' \subseteq Tunnels
  BY DEF TunnelTransfers, TunnelInv, TunnelTypes
<1> QED BY <1>1 DEF TunnelInv, TunnelTypes, Staged, Recorded, Countable, Connected, TunnelLive

LEMMA NextKeepsTunnels == TunnelInv /\ [TunnelNext]_tunnelVars => TunnelInv'
<1> SUFFICES ASSUME TunnelInv, [TunnelNext]_tunnelVars PROVE TunnelInv'
  OBVIOUS
<1>1. CASE UNCHANGED tunnelVars
  BY <1>1 DEF TunnelInv, TunnelTypes, Staged, Recorded, Countable, Connected, TunnelLive, tunnelVars
<1>2. ASSUME NEW t \in Tunnels, \E k \in {"connect", "websocket"} : Dial(t, k) PROVE TunnelInv'
  BY <1>2, DialMoves
<1>3. ASSUME NEW t \in Tunnels, Connect(t) \/ Upgraded(t) PROVE TunnelInv'
  BY <1>3, ConnectMoves
<1>4. ASSUME NEW t \in Tunnels, ConnectWebSocket(t) PROVE TunnelInv'
  BY <1>4, ConnectWebSocketMoves
<1>5. ASSUME NEW t \in Tunnels, TunnelTransfers(t) PROVE TunnelInv'
  BY <1>5, TransferMoves
<1>6. ASSUME NEW t \in Tunnels PROVE /\ TunnelTypes /\ Staged(t) /\ quiet \subseteq Tunnels
  BY DEF TunnelInv, TunnelTypes
<1>7. ASSUME NEW t \in Tunnels, TunnelFails(t) \/ UpstreamCloses(t) PROVE TunnelInv'
  <2>1. upstream[t] # "none"
    BY <1>7 DEF TunnelFails, UpstreamCloses, TunnelLive, Connected
  <2>2. CASE TunnelFails(t)
    BY <1>6, <2>1, <2>2, EndMoves DEF TunnelFails
  <2>3. CASE UpstreamCloses(t)
    BY <1>6, <2>1, <2>3, EndMoves DEF UpstreamCloses
  <2> QED BY <1>7, <2>2, <2>3
<1>8. ASSUME NEW t \in Tunnels, UpgradeRefused(t) PROVE TunnelInv'
  <2>1. upstream[t] # "none" /\ t \notin settled
    BY <1>6, <1>8 DEF UpgradeRefused, Staged
  <2> QED BY <1>6, <1>8, <2>1, EndMoves DEF UpgradeRefused
<1>9. ASSUME NEW t \in Tunnels, TunnelTimeout(t) PROVE TunnelInv'
  <2>1. upstream[t] # "none"
    BY <1>6, <1>9 DEF TunnelTimeout, Staged
  <2>2. CASE t \in heard /\ Disconnect(t)
    BY <1>6, <1>9, <2>1, <2>2, EndMoves DEF TunnelTimeout
  <2>3. CASE t \notin heard /\ UNCHANGED <<client, upstream, active>>
    BY <1>9, <2>3, UnheardMoves
  <2> QED BY <1>9, <2>2, <2>3 DEF TunnelTimeout
<1>10. ASSUME NEW t \in Tunnels, WebSocketTimeout(t) PROVE TunnelInv'
  <2>1. upstream[t] # "none" /\ t \notin settled
    BY <1>6, <1>10 DEF WebSocketTimeout, Staged
  <2> QED BY <1>6, <1>10, <2>1, EndMoves DEF WebSocketTimeout
<1>11. ASSUME NEW t \in Tunnels, IdleTimeout(t) PROVE TunnelInv'
  <2>1. upstream[t] # "none"
    BY <1>6, <1>11 DEF IdleTimeout, Staged
  <2> QED BY <1>6, <1>11, <2>1, EndMoves DEF IdleTimeout
<1>12. ASSUME NEW t \in Tunnels, ClientCloses(t) PROVE TunnelInv'
  <2>1. CASE t \in heard /\ Disconnect(t)
    <3>1. upstream[t] # "none"
      BY <1>6, <2>1 DEF Staged
    <3> QED BY <1>6, <1>12, <2>1, <3>1, EndMoves DEF ClientCloses
  <2>2. CASE t \notin heard /\ UNCHANGED <<upstream, timer, active>>
    BY <1>12, <2>2, UnheardMoves
  <2> QED BY <1>12, <2>1, <2>2 DEF ClientCloses
<1> QED BY <1>1, <1>2, <1>3, <1>4, <1>5, <1>7, <1>8, <1>9, <1>10, <1>11, <1>12
        DEF TunnelNext, Dialling, TunnelTimers

LEMMA TunnelInvSuffices ==
    TunnelInv => TunnelTypeOK /\ SocketsPaired /\ AuditAgrees /\ ActiveBounded
<1> SUFFICES ASSUME TunnelInv PROVE TunnelTypeOK /\ SocketsPaired /\ AuditAgrees /\ ActiveBounded
  OBVIOUS
<1>1. TunnelTypes /\ \A t \in Tunnels : Staged(t) /\ Recorded(t)
  BY DEF TunnelInv
<1>2. SocketsPaired /\ AuditAgrees
  BY <1>1 DEF SocketsPaired, AuditAgrees, TunnelTypes, Recorded
<1> DEFINE bound == {t \in Tunnels : kind[t] = "websocket" /\ (Connected(t) \/ t \notin heard)}
<1>3. active <= Cardinality(bound) /\ active \in 0 .. Cardinality(Tunnels)
  <2>1. Countable \subseteq bound /\ bound \subseteq Tunnels
    BY DEF Countable
  <2>2. IsFiniteSet(bound) /\ Cardinality(bound) <= Cardinality(Tunnels)
        /\ Cardinality(bound) \in Nat /\ Cardinality(Tunnels) \in Nat
    BY <2>1, TunnelAssumption, FS_Subset, FS_CardinalityType
  <2>3. Cardinality(Countable) <= Cardinality(bound) /\ Cardinality(Countable) \in Nat
    BY <2>1, <2>2, FS_Subset, FS_CardinalityType
  <2>4. active <= Cardinality(Countable) /\ active \in Nat
    BY DEF TunnelInv, TunnelTypes
  <2> HIDE DEF bound
  <2> QED BY <2>2, <2>3, <2>4
<1>4. \A t \in Tunnels : Len(audit[t]) <= 2
  <2>1. \A t \in Tunnels : Len(audit[t]) \in Nat
    BY <1>1, RecordsAre DEF TunnelTypes
  <2> QED BY <1>1, <2>1 DEF Recorded
<1>5. \A t \in Tunnels :
         timer[t] # "none" <=> TunnelLive(t) /\ (upstream[t] = "connecting" => t \notin settled)
  BY <1>1 DEF Staged, TunnelLive
<1> QED BY <1>1, <1>2, <1>3, <1>4, <1>5 DEF TunnelTypeOK, TunnelTypes, ActiveBounded

(***************************************************************************)
(* The forwarded requests and the pool.                                     *)
(***************************************************************************)
AnswersOf == {"none", "error", "partial", "ending", "complete", "spoiled", "cut"}
Records == {<<>>, <<"error">>, <<"allowed">>, <<"allowed", "error">>}
Queued == {r \in Requests : state[r] = "queued"}

ForwardTypes ==
    /\ state \in [Requests -> {"none", "queued", "done"} \cup Holding]
    /\ kept \subseteq Requests /\ uploading \subseteq Requests /\ idle \subseteq Requests
    /\ resolved \subseteq Requests
    /\ requester \in [Requests -> {"open", "gone"}]
    /\ answer \in [Requests -> AnswersOf]
    /\ timers \in [Requests -> SUBSET {"connect", "response"}]
    /\ records \in [Requests -> Records]

(* The pool: what waits is the queue, and it waits while the pool is full.  *)
(* Free sockets and used ones together are not more than MaxSockets.        *)
PoolInv ==
    /\ queue \in Seq(Requests)
    /\ \A i, j \in 1 .. Len(queue) : i # j => queue[i] # queue[j]
    /\ \A i \in 1 .. Len(queue) : queue[i] \in Queued
    /\ \A r \in Queued : \E i \in 1 .. Len(queue) : queue[i] = r
    /\ queue # <<>> => Cardinality(InUse) = MaxSockets
    /\ free \in 0 .. MaxFreeSockets /\ Cardinality(InUse) + free <= MaxSockets

(* One request: its timers and the settling of its promise follow its state,*)
(* so does what is recorded of it, and the client reads what is recorded.   *)
Told(r) ==
    /\ r \in kept => state[r] \notin {"none", "queued", "connecting"}
    /\ r \in resolved <=> state[r] \in {"uploading", "done"}
    /\ timers[r] = IF \/ state[r] \in {"queued", "connecting"}
                      \/ state[r] = "waiting" /\ r \in kept THEN {"connect"}
                   ELSE IF state[r] = "body" THEN {"response"} ELSE {}
    /\ state[r] \in {"none", "queued", "connecting", "waiting"} => records[r] = <<>>
    /\ state[r] \in {"body", "uploading"} => records[r] = <<"allowed">>
    /\ state[r] = "done" => records[r] # <<>>
    /\ requester[r] = "open" =>
           /\ records[r] = <<>> <=> answer[r] = "none"
           /\ records[r] = <<"error">> <=> answer[r] = "error"
           /\ records[r] = <<"allowed", "error">> <=> answer[r] = "spoiled"

ForwardInv == ForwardTypes /\ PoolInv /\ \A r \in Requests : Told(r)

LEMMA HoldingIs == Holding = {"connecting", "waiting", "body", "uploading"}
BY DEF Holding

LEMMA InUseIs == IsFiniteSet(InUse) /\ Cardinality(InUse) \in Nat
<1>1. InUse \subseteq Requests
  BY DEF InUse
<1> QED BY <1>1, ForwardAssumption, FS_Subset, FS_CardinalityType

LEMMA AllRecordsAre ==
    /\ Append(<<>>, "error") = <<"error">> /\ Append(<<>>, "allowed") = <<"allowed">>
    /\ Append(<<"allowed">>, "error") = <<"allowed", "error">>
    /\ <<>> # <<"error">> /\ <<>> # <<"allowed">> /\ <<"error">> # <<"allowed">>
    /\ <<>> # <<"allowed", "error">> /\ <<"error">> # <<"allowed", "error">>
    /\ <<"allowed">> # <<"allowed", "error">>
<1>1. Append(<<>>, "error") = <<"error">> /\ Append(<<>>, "allowed") = <<"allowed">>
  OBVIOUS
<1>2. Append(<<"allowed">>, "error") = <<"allowed", "error">>
  <2> DEFINE s == Append(<<"allowed">>, "error")
             t == <<"allowed", "error">>
  <2>1. /\ <<"allowed">> \in Seq({"allowed", "error"}) /\ Len(<<"allowed">>) = 1
        /\ <<"allowed">>[1] = "allowed"
    OBVIOUS
  <2>2. s \in Seq({"allowed", "error"}) /\ Len(s) = 2 /\ s[1] = "allowed" /\ s[2] = "error"
    BY <2>1, AppendProperties
  <2>3. t \in Seq({"allowed", "error"}) /\ Len(t) = 2 /\ t[1] = "allowed" /\ t[2] = "error"
    OBVIOUS
  <2>4. 1 .. 2 = {1, 2}
    OBVIOUS
  <2> HIDE DEF s, t
  <2>5. s = t
    BY <2>2, <2>3, <2>4, SeqEqual
  <2> QED BY <2>5 DEF s, t
<1>3. /\ Len(<<>>) = 0 /\ Len(<<"error">>) = 1 /\ Len(<<"allowed">>) = 1
      /\ Len(<<"allowed", "error">>) = 2
  OBVIOUS
<1>4. <<"error">> # <<"allowed">>
  <2>1. <<"error">>[1] = "error" /\ <<"allowed">>[1] = "allowed"
    OBVIOUS
  <2> QED BY <2>1
<1>5. <<>> # <<"error">> /\ <<>> # <<"allowed">> /\ <<>> # <<"allowed", "error">>
  BY <1>3
<1>6. <<"error">> # <<"allowed", "error">> /\ <<"allowed">> # <<"allowed", "error">>
  BY <1>3
<1> QED BY <1>1, <1>2, <1>4, <1>5, <1>6

LEMMA InitForward == ForwardInit => ForwardInv
<1> SUFFICES ASSUME ForwardInit PROVE ForwardInv
  OBVIOUS
<1>1. InUse = {} /\ Queued = {}
  BY DEF ForwardInit, InUse, Queued, Holding
<1>2. Cardinality(InUse) = 0
  BY <1>1, FS_EmptySet
<1>3. PoolInv
  BY <1>1, <1>2, ForwardAssumption DEF ForwardInit, PoolInv
<1>4. ForwardTypes
  BY DEF ForwardInit, ForwardTypes, Records, AnswersOf
<1>5. ASSUME NEW r \in Requests PROVE Told(r)
  BY <1>5, AllRecordsAre DEF ForwardInit, Told
<1> QED BY <1>3, <1>4, <1>5 DEF ForwardInv

LEMMA ForwardInvSuffices == ForwardInv => ForwardTypeOK /\ AuditTells
<1> SUFFICES ASSUME ForwardInv PROVE ForwardTypeOK /\ AuditTells
  OBVIOUS
<1>1. {queue[i] : i \in DOMAIN queue} = {r \in Requests : state[r] = "queued"}
  <2>1. DOMAIN queue = 1 .. Len(queue)
    BY DEF ForwardInv, PoolInv
  <2> QED BY <2>1 DEF ForwardInv, PoolInv, Queued
<1>2. \A i, j \in DOMAIN queue : i # j => queue[i] # queue[j]
  BY DEF ForwardInv, PoolInv
<1>3. queue # <<>> => Cardinality(InUse) = MaxSockets /\ free = 0
  BY ForwardAssumption DEF ForwardInv, PoolInv
<1>4. Cardinality(InUse) <= MaxSockets /\ free \in 0 .. MaxFreeSockets
  BY ForwardAssumption, InUseIs DEF ForwardInv, PoolInv
<1>5. resolved = {r \in Requests : state[r] \in {"uploading", "done"}}
  BY DEF ForwardInv, ForwardTypes, Told
<1>6. ASSUME NEW r \in Requests
      PROVE  timers[r] = CASE state[r] \in {"queued", "connecting"} -> {"connect"}
                           [] state[r] = "waiting" /\ r \in kept -> {"connect"}
                           [] state[r] = "body" -> {"response"}
                           [] OTHER -> {}
  BY DEF ForwardInv, Told
<1>7. ForwardTypeOK
  BY <1>1, <1>2, <1>3, <1>4, <1>5, <1>6 DEF ForwardInv, ForwardTypes, ForwardTypeOK, AnswersOf
<1>8. ASSUME NEW r \in Requests
      PROVE  /\ records[r] \in Records
             /\ r \in resolved <=> records[r] # <<>> /\ state[r] # "body"
  <2>1. state[r] \in {"none", "queued", "done"} \cup Holding /\ records[r] \in Records
    BY DEF ForwardInv, ForwardTypes
  <2> QED BY <2>1, AllRecordsAre DEF ForwardInv, Told, Holding
<1>9. ASSUME NEW r \in Requests, requester[r] = "open"
      PROVE  records[r] = CASE answer[r] = "none" -> <<>>
                            [] answer[r] = "error" -> <<"error">>
                            [] answer[r] = "spoiled" -> <<"allowed", "error">>
                            [] OTHER -> <<"allowed">>
  <2>1. records[r] \in Records
    BY DEF ForwardInv, ForwardTypes
  <2>2. /\ records[r] = <<>> <=> answer[r] = "none"
        /\ records[r] = <<"error">> <=> answer[r] = "error"
        /\ records[r] = <<"allowed", "error">> <=> answer[r] = "spoiled"
    BY <1>9 DEF ForwardInv, Told
  <2> QED BY <2>1, <2>2 DEF Records
<1>10. AuditTells
  BY <1>8, <1>9 DEF AuditTells, Records
<1> QED BY <1>7, <1>10

(* A request that waited for a socket gets one: a new one, or a kept one.   *)
Served(q) == /\ state[q] = "queued"
             /\ \/ state'[q] = "connecting" /\ (q \in kept' <=> q \in kept)
                \/ state'[q] = "waiting" /\ q \in kept'

(* The requests in S are over, and others are served or stay.               *)
Moved(S) == /\ state' \in [Requests -> {"none", "queued", "done"} \cup Holding]
            /\ kept' \subseteq Requests
            /\ \A q \in S : state'[q] = "done"
            /\ \A q \in Requests \ S : \/ state'[q] = state[q] /\ (q \in kept' <=> q \in kept)
                                       \/ Served(q)

LEMMA PoolStays ==
    ASSUME PoolInv, queue' = queue, InUse' = InUse, Queued' = Queued, free' \in 0 .. free
    PROVE  PoolInv'
<1>1. free' \in 0 .. MaxFreeSockets /\ Cardinality(InUse') + free' <= MaxSockets
  BY InUseIs, ForwardAssumption DEF PoolInv
<1> QED BY <1>1 DEF PoolInv

(* A request leaves the queue.                                              *)
LEMMA DropQueued ==
    ASSUME ForwardTypes, PoolInv, NEW r \in Queued, Drop({r}), free' = free
    PROVE  PoolInv' /\ Moved({r})
<1>1. queue \in Seq(Requests) /\ DOMAIN queue = 1 .. Len(queue) /\ Len(queue) \in Nat
  BY DEF PoolInv
<1>2. PICK k \in 1 .. Len(queue) : queue[k] = r
  BY DEF PoolInv
<1>3. {i \in DOMAIN queue : queue[i] \in {r}} = {k}
  BY <1>1, <1>2 DEF PoolInv
<1> DEFINE w == RemoveAt(queue, k)
<1>4. /\ w \in Seq(Requests) /\ Len(w) = Len(queue) - 1
      /\ \A i \in 1 .. Len(queue) - 1 : w[i] = IF i < k THEN queue[i] ELSE queue[i + 1]
  BY <1>1, RemoveAtIs
<1>5. {r} \cap InUse = {} /\ Cardinality({r} \cap InUse) = 0
  <2>1. r \notin InUse
    BY DEF Queued, InUse, Holding
  <2> QED BY <2>1, FS_EmptySet
<1> HIDE DEF w
<1>6. /\ state' = [q \in Requests |->
                     IF q \in {r} THEN "done"
                     ELSE IF q \in {w[i] : i \in {i \in DOMAIN w : i <= 0}} THEN "connecting"
                     ELSE state[q]]
      /\ queue' = SubSeq(w, 0 + 1, Len(w)) /\ kept' = kept
  BY <1>3, <1>5 DEF Drop, w
<1>7. {i \in DOMAIN w : i <= 0} = {}
  BY <1>4
<1>8. /\ state' \in [Requests -> {"none", "queued", "done"} \cup Holding]
      /\ \A q \in Requests : state'[q] = IF q = r THEN "done" ELSE state[q]
  BY <1>6, <1>7 DEF ForwardTypes
<1>9. queue' = w
  BY <1>4, <1>6
<1>10. Moved({r})
  BY <1>6, <1>8 DEF Moved, ForwardTypes, Queued
<1>11. InUse' = InUse /\ Queued' = Queued \ {r}
  BY <1>5, <1>8 DEF InUse, Queued, Holding
<1>12. queue' # <<>> => queue # <<>>
  BY <1>1, <1>2
<1>13. \A i, j \in 1 .. Len(queue') : i # j => queue'[i] # queue'[j]
  <2> SUFFICES ASSUME NEW i \in 1 .. Len(queue) - 1, NEW j \in 1 .. Len(queue) - 1, i # j
               PROVE  w[i] # w[j]
    BY <1>4, <1>9
  <2> DEFINE was(n) == IF n < k THEN n ELSE n + 1
  <2>1. /\ was(i) \in 1 .. Len(queue) /\ was(j) \in 1 .. Len(queue) /\ was(i) # was(j)
        /\ w[i] = queue[was(i)] /\ w[j] = queue[was(j)]
    BY <1>1, <1>4
  <2> QED BY <2>1 DEF PoolInv
<1>14. \A i \in 1 .. Len(queue') : queue'[i] \in Queued'
  BY <1>1, <1>2, <1>4, <1>9, <1>11 DEF PoolInv
<1>15. ASSUME NEW q \in Queued' PROVE \E i \in 1 .. Len(queue') : queue'[i] = q
  <2>1. PICK j \in 1 .. Len(queue) : queue[j] = q /\ j # k
    BY <1>2, <1>11 DEF PoolInv
  <2>2. CASE j < k
    <3>1. j \in 1 .. Len(w) /\ w[j] = q
      BY <1>1, <1>4, <2>1, <2>2
    <3> QED BY <1>9, <3>1
  <2>3. CASE j > k
    <3>1. j - 1 \in 1 .. Len(w) /\ ~(j - 1 < k) /\ (j - 1) + 1 = j
      BY <1>1, <1>4, <2>1, <2>3
    <3>2. w[j - 1] = q
      BY <1>4, <2>1, <3>1
    <3> QED BY <1>9, <3>1, <3>2
  <2> QED BY <1>1, <2>1, <2>2, <2>3
<1>16. PoolInv'
  BY <1>4, <1>9, <1>11, <1>12, <1>13, <1>14, <1>15 DEF PoolInv
<1> QED BY <1>10, <1>16

(* The first m of the queue are as many requests as that.                   *)
LEMMA FrontOfQueue ==
    ASSUME PoolInv, NEW m \in 0 .. Len(queue)
    PROVE  /\ IsFiniteSet({queue[i] : i \in 1 .. m}) /\ Cardinality({queue[i] : i \in 1 .. m}) = m
           /\ {queue[i] : i \in 1 .. m} \subseteq Queued
<1>1. Len(queue) \in Nat
  BY DEF PoolInv
<1> DEFINE front == {queue[i] : i \in 1 .. m}
           f == [i \in 1 .. m |-> queue[i]]
<1>2. 1 .. m \subseteq 1 .. Len(queue) /\ m \in Nat
  BY <1>1
<1>3. f \in [1 .. m -> front] /\ \A i, j \in 1 .. m : f[i] = f[j] => i = j
  BY <1>2 DEF PoolInv
<1>4. \A q \in front : \E i \in 1 .. m : f[i] = q
  OBVIOUS
<1>5. f \in Bijection(1 .. m, front)
  BY <1>3, <1>4 DEF Bijection, Injection, Surjection, IsInjective
<1>6. IsFiniteSet(1 .. m) /\ Cardinality(1 .. m) = m
  <2>1. IF 1 > m THEN m = 0 ELSE m - 1 + 1 = m
    BY <1>2
  <2> QED BY <1>2, <2>1, FS_Interval
<1>7. ExistsBijection(1 .. m, front)
  BY <1>5 DEF ExistsBijection
<1>8. IsFiniteSet(front) /\ Cardinality(front) = m
  BY <1>6, <1>7, FS_Bijection
<1>9. front \subseteq Queued
  BY <1>2 DEF PoolInv
<1> QED BY <1>8, <1>9

(* Sockets in use go, and the head of the queue gets new ones.              *)
LEMMA DropUsed ==
    ASSUME ForwardTypes, PoolInv, NEW S, S \subseteq InUse, Drop(S), free' \in 0 .. free
    PROVE  PoolInv' /\ Moved(S)
<1>1. queue \in Seq(Requests) /\ DOMAIN queue = 1 .. Len(queue) /\ Len(queue) \in Nat
  BY DEF PoolInv
<1>2. {i \in DOMAIN queue : queue[i] \in S} = {}
  BY <1>1 DEF PoolInv, Queued, InUse, Holding
<1>3. S \cap InUse = S /\ InUse \cap S = S
  OBVIOUS
<1>4. IsFiniteSet(S) /\ Cardinality(S) \in Nat
  BY InUseIs, FS_Subset, FS_CardinalityType
<1>5. PICK n \in Nat : n = Cardinality(S)
  BY <1>4
<1>6. PICK l \in Nat : l = Len(queue)
  BY <1>1
<1>7. PICK m \in Nat : m <= n /\ m <= l /\ (m < l => m = n)
  <2>1. CASE n <= l
    BY <2>1
  <2>2. CASE n > l
    BY <2>2
  <2> QED BY <2>1, <2>2
<1>8. {i \in DOMAIN queue : i <= n} = 1 .. m
  BY <1>1, <1>6, <1>7
<1> DEFINE served == {queue[i] : i \in 1 .. m}
<1>9. /\ state' = [q \in Requests |->
                     IF q \in S THEN "done"
                     ELSE IF q \in {queue[i] : i \in {i \in DOMAIN queue : i <= n}} THEN "connecting"
                     ELSE state[q]]
      /\ queue' = SubSeq(queue, n + 1, Len(queue)) /\ kept' = kept
  BY <1>2, <1>3, <1>5 DEF Drop
<1>10. IsFiniteSet(served) /\ Cardinality(served) = m /\ served \subseteq Queued
  <2>1. m \in 0 .. Len(queue)
    BY <1>6, <1>7
  <2> QED BY <2>1, FrontOfQueue
<1>11. \A q \in Requests : state'[q] = IF q \in S THEN "done" ELSE IF q \in served THEN "connecting"
                                      ELSE state[q]
  BY <1>9, <1>8
<1>12. state' \in [Requests -> {"none", "queued", "done"} \cup Holding]
  BY <1>9, HoldingIs DEF ForwardTypes
<1> HIDE DEF served
<1>13. Moved(S)
  <2>1. \A q \in S : state'[q] = "done"
    BY <1>11 DEF InUse
  <2>2. kept' \subseteq Requests
    BY <1>9 DEF ForwardTypes
  <2>3. \A q \in Requests \ S : \/ state'[q] = state[q] /\ (q \in kept' <=> q \in kept)
                                \/ Served(q)
    BY <1>9, <1>10, <1>11 DEF Served, Queued
  <2> QED BY <1>12, <2>1, <2>2, <2>3 DEF Moved
<1>14. InUse' = (InUse \ S) \cup served /\ Queued' = Queued \ served /\ InUse \cap Queued = {}
  BY <1>10, <1>11 DEF InUse, Queued, Holding
<1>15. Cardinality(InUse') = Cardinality(InUse) - n + m
  <2>1. IsFiniteSet(InUse \ S) /\ Cardinality(InUse \ S) = Cardinality(InUse) - n
    <3>1. IsFiniteSet(InUse)
      BY InUseIs
    <3>2. IsFiniteSet(InUse \ S) /\ Cardinality(InUse \ S) = Cardinality(InUse) - Cardinality(InUse \cap S)
      BY <3>1, FS_Difference
    <3> QED BY <1>3, <1>5, <3>2
  <2>2. (InUse \ S) \cap served = {} /\ Cardinality({}) = 0
    BY <1>10, <1>14, FS_EmptySet
  <2>3. Cardinality((InUse \ S) \cup served)
          = Cardinality(InUse \ S) + Cardinality(served) - Cardinality((InUse \ S) \cap served)
    BY <1>10, <2>1, FS_Union
  <2>4. Cardinality((InUse \ S) \cup served) = (Cardinality(InUse) - n) + m - 0
    BY <1>10, <2>1, <2>2, <2>3
  <2> QED BY <1>14, <2>4, InUseIs
<1>16. /\ queue' \in Seq(Requests) /\ Len(queue') = Len(queue) - m
       /\ \A i \in 1 .. Len(queue) - m : queue'[i] = queue[m + i] /\ m + i \in 1 .. Len(queue)
  <2>1. CASE n <= Len(queue)
    <3>1. m = n
      BY <1>6, <1>7, <2>1
    <3>2. queue' = SubSeq(queue, m + 1, Len(queue)) /\ m + 1 \in 1 .. Len(queue) + 1
      BY <1>1, <1>6, <1>7, <1>9, <3>1
    <3>3. /\ queue' \in Seq(Requests)
          /\ Len(queue') = IF m + 1 <= Len(queue) THEN Len(queue) - (m + 1) + 1 ELSE 0
          /\ \A i \in 1 .. Len(queue) - (m + 1) + 1 : queue'[i] = queue[(m + 1) + i - 1]
      BY <1>1, <1>6, <1>7, <3>2, SubSeqProperties
    <3>4. Len(queue') = Len(queue) - m
      <4>1. CASE m + 1 <= l
        <5>1. Len(queue') = l - (m + 1) + 1
          BY <1>6, <3>3, <4>1
        <5> QED BY <1>6, <5>1
      <4>2. CASE ~(m + 1 <= l)
        <5>1. m = l
          BY <1>7, <4>2
        <5>2. Len(queue') = 0
          BY <1>6, <3>3, <4>2
        <5> QED BY <1>6, <5>1, <5>2
      <4> QED BY <4>1, <4>2
    <3>5. ASSUME NEW i \in 1 .. Len(queue) - m
          PROVE  queue'[i] = queue[m + i] /\ m + i \in 1 .. Len(queue)
      <4>1. i \in 1 .. Len(queue) - (m + 1) + 1 /\ (m + 1) + i - 1 = m + i
        BY <1>1, <1>6
      <4>2. m + i \in 1 .. Len(queue)
        BY <1>1, <1>6
      <4> QED BY <3>3, <4>1, <4>2
    <3> QED BY <3>3, <3>4, <3>5
  <2>2. CASE n > Len(queue)
    <3>1. m = Len(queue)
      BY <1>6, <1>7, <2>2
    <3>2. queue' = <<>>
      BY <1>1, <1>6, <1>7, <1>9, <2>2
    <3> QED BY <1>1, <3>1, <3>2
  <2>3. n <= Len(queue) \/ n > Len(queue)
    BY <1>1, <1>6, <1>7
  <2> QED BY <2>1, <2>2, <2>3
<1>17. queue' # <<>> => Cardinality(InUse') = MaxSockets
  <2>1. SUFFICES ASSUME queue' # <<>> PROVE Cardinality(InUse') = MaxSockets
    OBVIOUS
  <2>2. Len(queue) > m
    BY <1>1, <1>6, <1>7, <1>16, <2>1
  <2>3. m = n
    BY <1>1, <1>6, <1>7, <2>2
  <2>4. queue # <<>>
    BY <1>1, <1>6, <1>7, <2>2
  <2> QED BY <1>15, <1>6, <1>7, <2>3, <2>4, InUseIs DEF PoolInv
<1>18. Cardinality(InUse') + free' <= MaxSockets /\ free' \in 0 .. MaxFreeSockets
  BY <1>6, <1>7, <1>15, InUseIs, ForwardAssumption DEF PoolInv
<1>19. \A i, j \in 1 .. Len(queue') : i # j => queue'[i] # queue'[j]
  BY <1>1, <1>6, <1>7, <1>16 DEF PoolInv
<1>20. ASSUME NEW i \in 1 .. Len(queue') PROVE queue'[i] \in Queued'
  <2>1. /\ m + i \in 1 .. Len(queue) /\ queue'[i] = queue[m + i]
        /\ \A j \in 1 .. m : j # m + i /\ j \in 1 .. Len(queue)
    BY <1>1, <1>6, <1>7, <1>16
  <2>2. queue[m + i] \in Queued /\ \A j \in 1 .. m : queue[j] # queue[m + i]
    BY <2>1 DEF PoolInv
  <2> QED BY <1>14, <2>1, <2>2 DEF served
<1>21. ASSUME NEW q \in Queued' PROVE \E i \in 1 .. Len(queue') : queue'[i] = q
  <2>1. PICK j \in 1 .. Len(queue) : queue[j] = q
    BY <1>14 DEF PoolInv
  <2>2. j \notin 1 .. m
    BY <1>14, <2>1 DEF served
  <2>3. j - m \in 1 .. Len(queue') /\ m + (j - m) = j
    BY <1>1, <1>6, <1>7, <1>16, <2>1, <2>2
  <2> QED BY <1>16, <2>1, <2>3
<1>22. PoolInv'
  BY <1>16, <1>17, <1>18, <1>19, <1>20, <1>21 DEF PoolInv
<1> QED BY <1>13, <1>22

(* A used socket goes to the head of the queue, or is free.                 *)
LEMMA HandOnKeeps ==
    ASSUME ForwardTypes, PoolInv, NEW r \in InUse, HandOn(r)
    PROVE  PoolInv' /\ Moved({r})
<1>1. queue \in Seq(Requests) /\ Len(queue) \in Nat
  BY DEF PoolInv
<1>2. IsFiniteSet(InUse \ {r}) /\ Cardinality(InUse \ {r}) = Cardinality(InUse) - 1
  BY InUseIs, FS_RemoveElement
<1>3. CASE queue = <<>>
  <2>1. /\ state' = [state EXCEPT ![r] = "done"] /\ queue' = queue /\ kept' = kept
        /\ free' = IF free < MaxFreeSockets THEN free + 1 ELSE free
    BY <1>3 DEF HandOn
  <2>2. Moved({r})
    BY <2>1 DEF Moved, ForwardTypes, InUse
  <2>3. InUse' = InUse \ {r} /\ Queued' = Queued
    BY <2>1 DEF InUse, Queued, ForwardTypes, Holding
  <2>4. free' \in 0 .. MaxFreeSockets /\ Cardinality(InUse') + free' <= MaxSockets
    BY <1>2, <2>1, <2>3, InUseIs, ForwardAssumption DEF PoolInv
  <2>5. PoolInv'
    BY <1>3, <2>1, <2>3, <2>4 DEF PoolInv
  <2> QED BY <2>2, <2>5
<1>4. CASE queue # <<>>
  <2> DEFINE h == Head(queue)
  <2>1. /\ Tail(queue) \in Seq(Requests) /\ Len(Tail(queue)) = Len(queue) - 1
        /\ \A i \in 1 .. Len(queue) - 1 : Tail(queue)[i] = queue[i + 1] /\ i + 1 \in 1 .. Len(queue)
        /\ h = queue[1] /\ 1 \in 1 .. Len(queue)
    BY <1>1, <1>4
  <2>2. h \in Queued /\ h \in Requests /\ h # r
    BY <2>1 DEF PoolInv, Queued, InUse, Holding
  <2>3. /\ state' = [state EXCEPT ![r] = "done", ![h] = "waiting"]
        /\ queue' = Tail(queue) /\ kept' = kept \cup {h} /\ free' = free
    BY <1>4 DEF HandOn
  <2> HIDE DEF h
  <2>4. /\ state' \in [Requests -> {"none", "queued", "done"} \cup Holding]
        /\ \A q \in Requests : state'[q] = IF q = h THEN "waiting" ELSE IF q = r THEN "done" ELSE state[q]
    BY <2>2, <2>3 DEF ForwardTypes, Holding
  <2>5. Moved({r})
    <3>1. kept' \subseteq Requests /\ state'[r] = "done"
      BY <2>2, <2>3, <2>4 DEF ForwardTypes, InUse
    <3>2. ASSUME NEW q \in Requests \ {r}
          PROVE  (state'[q] = state[q] /\ (q \in kept' <=> q \in kept)) \/ Served(q)
      <4>1. CASE q = h
        BY <2>2, <2>3, <2>4, <4>1 DEF Served, Queued
      <4>2. CASE q # h
        BY <2>3, <2>4, <4>2
      <4> QED BY <4>1, <4>2
    <3> QED BY <2>4, <3>1, <3>2 DEF Moved
  <2>6. InUse' = (InUse \ {r}) \cup {h} /\ Queued' = Queued \ {h} /\ h \notin InUse
    BY <2>2, <2>4 DEF InUse, Queued, Holding
  <2>7. Cardinality(InUse') = Cardinality(InUse)
    <3>1. h \notin InUse \ {r}
      BY <2>6
    <3>2. Cardinality((InUse \ {r}) \cup {h}) = Cardinality(InUse \ {r}) + 1
      BY <1>2, <3>1, FS_AddElement
    <3> QED BY <1>2, <2>6, <3>2, InUseIs
  <2>8. \A i, j \in 1 .. Len(queue') : i # j => queue'[i] # queue'[j]
    BY <1>1, <2>1, <2>3 DEF PoolInv
  <2>9. ASSUME NEW i \in 1 .. Len(queue') PROVE queue'[i] \in Queued'
    <3>1. queue'[i] = queue[i + 1] /\ i + 1 \in 1 .. Len(queue) /\ i + 1 # 1
      BY <1>1, <2>1, <2>3
    <3> QED BY <2>1, <2>6, <3>1 DEF PoolInv
  <2>10. ASSUME NEW q \in Queued' PROVE \E i \in 1 .. Len(queue') : queue'[i] = q
    <3>1. PICK j \in 1 .. Len(queue) : queue[j] = q /\ j # 1
      BY <2>1, <2>6 DEF PoolInv
    <3>2. j - 1 \in 1 .. Len(queue') /\ (j - 1) + 1 = j
      BY <1>1, <2>1, <2>3, <3>1
    <3> QED BY <2>1, <2>3, <3>1, <3>2
  <2>11. PoolInv'
    BY <1>4, <2>1, <2>3, <2>7, <2>8, <2>9, <2>10 DEF PoolInv
  <2> QED BY <2>5, <2>11
<1> QED BY <1>3, <1>4

(* A request to which nothing happens, or that is served.                   *)
LEMMA OtherKeeps ==
    ASSUME NEW q \in Requests, Told(q),
           \/ state'[q] = state[q] /\ (q \in kept' <=> q \in kept)
           \/ Served(q),
           timers'[q] = timers[q], q \in resolved' <=> q \in resolved,
           records'[q] = records[q], answer'[q] = answer[q],
           requester'[q] = requester[q]
    PROVE  Told(q)'
<1>1. CASE state'[q] = state[q] /\ (q \in kept' <=> q \in kept)
  BY <1>1 DEF Told
<1>2. CASE Served(q)
  BY <1>2 DEF Told, Served
<1> QED BY <1>1, <1>2

(* Requests that hold or wait for a socket fail.                            *)
LEMMA DropKeeps ==
    ASSUME ForwardTypes, PoolInv, NEW S, Drop(S), free' \in 0 .. free,
           S \subseteq InUse \/ \E r \in Queued : S = {r} /\ free' = free
    PROVE  PoolInv' /\ Moved(S)
BY DropUsed, DropQueued

LEMMA FailKeeps ==
    ASSUME ForwardInv, NEW S, Fail(S), free' \in 0 .. free, UNCHANGED <<idle, requester>>,
           S \subseteq InUse \/ \E r \in Queued : S = {r} /\ free' = free
    PROVE  ForwardInv'
<1>0. ForwardTypes /\ PoolInv /\ \A r \in Requests : Told(r)
  BY DEF ForwardInv
<1>1. Drop(S) /\ PoolInv' /\ Moved(S)
  BY <1>0, DropKeeps DEF Fail
<1>2. \A q \in S : q \in Requests /\ state[q] \in Holding \cup {"queued"}
  BY DEF InUse, Queued
<1>3. /\ \A q \in Requests : timers'[q] = IF q \in S THEN {} ELSE timers[q]
      /\ timers' \in [Requests -> SUBSET {"connect", "response"}]
  BY <1>0 DEF Fail, Cleanup, ForwardTypes
<1>4. resolved' = resolved \cup S /\ resolved' \subseteq Requests /\ uploading' \subseteq Requests
  BY <1>0, <1>2 DEF Fail, ForwardTypes
<1>5. /\ answer' \in [Requests -> AnswersOf]
      /\ \A q \in Requests :
            answer'[q] = IF q \notin S \ resolved \/ requester[q] = "gone" THEN answer[q]
                         ELSE IF answer[q] = "none" THEN "error" ELSE "spoiled"
  BY <1>0 DEF Fail, ForwardTypes, AnswersOf
<1>6. \A q \in Requests :
         records'[q] = IF q \in S \ resolved THEN Append(records[q], "error") ELSE records[q]
  BY DEF Fail
<1>7. ASSUME NEW q \in S \ resolved
      PROVE  \/ records[q] = <<>> /\ records'[q] = <<"error">>
             \/ records[q] = <<"allowed">> /\ records'[q] = <<"allowed", "error">>
  <2>1. records[q] = <<>> \/ records[q] = <<"allowed">>
    BY <1>0, <1>2 DEF Told, Holding
  <2> QED BY <1>2, <1>6, <2>1, AllRecordsAre
<1>8. records' \in [Requests -> Records]
  <2>1. records' = [q \in Requests |-> records'[q]]
    BY DEF Fail
  <2>2. \A q \in Requests : records'[q] \in Records
    BY <1>0, <1>6, <1>7 DEF ForwardTypes, Records
  <2> QED BY <2>1, <2>2
<1>9. ForwardTypes'
  BY <1>0, <1>1, <1>3, <1>4, <1>5, <1>8 DEF ForwardTypes, Moved, Holding
<1>10. ASSUME NEW q \in Requests PROVE Told(q)'
  <2>1. CASE q \notin S
    BY <1>0, <1>1, <1>3, <1>4, <1>5, <1>6, <2>1, OtherKeeps DEF Moved
  <2>2. CASE q \in S /\ q \in resolved
    <3>1. state'[q] = "done" /\ timers'[q] = {} /\ records'[q] = records[q] /\ answer'[q] = answer[q]
          /\ q \in resolved' /\ requester'[q] = requester[q] /\ state[q] = "uploading"
      BY <1>0, <1>1, <1>2, <1>3, <1>4, <1>5, <1>6, <2>2 DEF Moved, Told, Holding
    <3> QED BY <1>0, <3>1, AllRecordsAre DEF Told
  <2>3. CASE q \in S \ resolved
    <3>1. state'[q] = "done" /\ timers'[q] = {} /\ q \in resolved' /\ requester'[q] = requester[q]
          /\ answer'[q] = IF requester[q] = "gone" THEN answer[q]
                          ELSE IF answer[q] = "none" THEN "error" ELSE "spoiled"
      BY <1>1, <1>3, <1>4, <1>5, <2>3 DEF Moved
    <3>2. requester[q] = "open" => (records[q] = <<>> <=> answer[q] = "none")
      BY <1>0 DEF Told
    <3>3. CASE records[q] = <<>> /\ records'[q] = <<"error">>
      BY <3>1, <3>2, <3>3, AllRecordsAre DEF Told
    <3>4. CASE records[q] = <<"allowed">> /\ records'[q] = <<"allowed", "error">>
      BY <3>1, <3>2, <3>4, AllRecordsAre DEF Told
    <3> QED BY <1>7, <2>3, <3>3, <3>4
  <2> QED BY <2>1, <2>2, <2>3
<1> QED BY <1>1, <1>9, <1>10 DEF ForwardInv

(* The steps that fail a request.                                           *)
LEMMA FailuresKeep ==
    ASSUME ForwardInv, NEW r \in Requests,
           RequestTooLarge(r) \/ RequestFails(r) \/ RequestTimers(r)
    PROVE  ForwardInv'
<1>1. Fail({r}) /\ UNCHANGED <<free, idle, requester>>
  BY DEF RequestTooLarge, RequestFails, RequestTimers, ConnectTimeout, ResponseTimeout, SocketTimeout
<1>2. state[r] \in Holding \cup {"queued"}
  BY DEF RequestTooLarge, RequestFails, RequestTimers, ConnectTimeout, ResponseTimeout, SocketTimeout,
         Pending, ForwardInv, Told, Holding
<1>3. {r} \subseteq InUse \/ \E x \in Queued : {r} = {x}
  BY <1>2 DEF InUse, Queued
<1>4. free' = free /\ free \in 0 .. free
  BY <1>1, ForwardAssumption DEF ForwardInv, PoolInv
<1> QED BY <1>1, <1>3, <1>4, FailKeeps

LEMMA DestroyKeeps == ASSUME ForwardInv, Destroy PROVE ForwardInv'
<1>1. free' \in 0 .. free
  BY ForwardAssumption DEF Destroy, ForwardInv, PoolInv
<1> QED BY <1>1, FailKeeps DEF Destroy

LEMMA ReleaseKeeps ==
    ASSUME ForwardTypes, PoolInv, NEW r \in InUse, Release(r) PROVE PoolInv' /\ Moved({r})
<1>1. CASE HandOn(r)
  BY <1>1, HandOnKeeps
<1>2. CASE Drop({r}) /\ UNCHANGED free
  <2>1. {r} \subseteq InUse /\ free' \in 0 .. free
    BY <1>2, ForwardAssumption DEF PoolInv
  <2> QED BY <1>2, <2>1, DropUsed
<1> QED BY <1>1, <1>2 DEF Release

(* A new request: a free socket, a new one, or the queue.                   *)
LEMMA ForwardPool ==
    ASSUME ForwardInv, NEW r \in Requests, NEW hasBody \in BOOLEAN, Forward(r, hasBody)
    PROVE  /\ PoolInv' /\ kept' \subseteq Requests
           /\ state' \in [Requests -> {"none", "queued", "done"} \cup Holding]
           /\ \A q \in Requests \ {r} : state'[q] = state[q] /\ (q \in kept' <=> q \in kept)
           /\ \/ state'[r] = "waiting" /\ r \in kept'
              \/ state'[r] \in {"connecting", "queued"} /\ r \notin kept'
<1>0. ForwardTypes /\ PoolInv /\ Told(r) /\ state[r] = "none"
  BY DEF ForwardInv, Forward
<1>1. /\ queue \in Seq(Requests) /\ Len(queue) \in Nat /\ free \in Nat /\ free <= MaxFreeSockets
      /\ MaxFreeSockets \in Nat /\ MaxSockets \in Nat
  BY <1>0, ForwardAssumption DEF PoolInv
<1>2. r \notin InUse /\ r \notin Queued
  BY <1>0 DEF InUse, Queued, Holding
<1>3. Cardinality(InUse \cup {r}) = Cardinality(InUse) + 1 /\ Cardinality(InUse) \in Nat
  BY <1>2, InUseIs, FS_AddElement
<1>4. CASE free > 0
  <2>1. /\ state' = [state EXCEPT ![r] = "waiting"] /\ free' = free - 1 /\ kept' = kept \cup {r}
        /\ queue' = queue
    BY <1>4 DEF Forward
  <2>2. InUse' = InUse \cup {r} /\ Queued' = Queued
    BY <1>0, <1>2, <2>1 DEF InUse, Queued, ForwardTypes, Holding
  <2>3. queue = <<>>
    BY <1>0, <1>1, <1>3, <1>4 DEF PoolInv
  <2>4. free' \in 0 .. MaxFreeSockets /\ Cardinality(InUse') + free' <= MaxSockets
    BY <1>0, <1>1, <1>3, <1>4, <2>1, <2>2 DEF PoolInv
  <2>5. PoolInv'
    BY <1>0, <2>1, <2>2, <2>3, <2>4 DEF PoolInv
  <2> QED BY <1>0, <2>1, <2>5, HoldingIs DEF ForwardTypes
<1>5. CASE ~(free > 0) /\ Cardinality(InUse) < MaxSockets
  <2>1. state' = [state EXCEPT ![r] = "connecting"] /\ UNCHANGED <<free, kept, queue>>
    BY <1>5 DEF Forward
  <2>2. InUse' = InUse \cup {r} /\ Queued' = Queued
    BY <1>0, <1>2, <2>1 DEF InUse, Queued, ForwardTypes, Holding
  <2>3. queue = <<>>
    BY <1>0, <1>1, <1>3, <1>5 DEF PoolInv
  <2>4. free' \in 0 .. MaxFreeSockets /\ Cardinality(InUse') + free' <= MaxSockets
    BY <1>0, <1>1, <1>3, <1>5, <2>1, <2>2 DEF PoolInv
  <2>5. PoolInv'
    BY <1>0, <2>1, <2>2, <2>3, <2>4 DEF PoolInv
  <2> QED BY <1>0, <2>1, <2>5, HoldingIs DEF ForwardTypes, Told
<1>6. CASE ~(free > 0) /\ ~(Cardinality(InUse) < MaxSockets)
  <2>1. /\ state' = [state EXCEPT ![r] = "queued"] /\ queue' = Append(queue, r)
        /\ UNCHANGED <<free, kept>>
    BY <1>6 DEF Forward
  <2>2. InUse' = InUse /\ Queued' = Queued \cup {r}
    BY <1>0, <1>2, <2>1 DEF InUse, Queued, ForwardTypes, Holding
  <2>3. /\ queue' \in Seq(Requests) /\ Len(queue') = Len(queue) + 1
        /\ \A i \in 1 .. Len(queue) : queue'[i] = queue[i]
        /\ queue'[Len(queue) + 1] = r
    BY <1>1, <2>1, AppendProperties
  <2>4. Cardinality(InUse') = MaxSockets /\ free' = free
    BY <1>0, <1>1, <1>3, <1>6, <2>1, <2>2 DEF PoolInv
  <2>5. \A i \in 1 .. Len(queue) : queue[i] # r
    BY <1>0, <1>2 DEF PoolInv
  <2>6. ASSUME NEW i \in 1 .. Len(queue'), NEW j \in 1 .. Len(queue'), i # j
        PROVE  queue'[i] # queue'[j]
    <3>1. CASE i \in 1 .. Len(queue) /\ j \in 1 .. Len(queue)
      BY <1>0, <2>3, <2>6, <3>1 DEF PoolInv
    <3>2. CASE i = Len(queue) + 1 /\ j \in 1 .. Len(queue)
      BY <2>3, <2>5, <3>2
    <3>3. CASE j = Len(queue) + 1 /\ i \in 1 .. Len(queue)
      BY <2>3, <2>5, <3>3
    <3> QED BY <1>1, <2>3, <2>6, <3>1, <3>2, <3>3
  <2>7. ASSUME NEW i \in 1 .. Len(queue') PROVE queue'[i] \in Queued'
    <3>1. CASE i \in 1 .. Len(queue)
      BY <1>0, <2>2, <2>3, <3>1 DEF PoolInv
    <3>2. CASE i = Len(queue) + 1
      BY <2>2, <2>3, <3>2
    <3> QED BY <1>1, <2>3, <3>1, <3>2
  <2>8. ASSUME NEW q \in Queued' PROVE \E i \in 1 .. Len(queue') : queue'[i] = q
    <3>1. CASE q = r
      BY <1>1, <2>3, <3>1
    <3>2. CASE q # r
      <4>1. PICK i \in 1 .. Len(queue) : queue[i] = q
        BY <1>0, <2>2, <3>2 DEF PoolInv
      <4> QED BY <1>1, <2>3, <4>1
    <3> QED BY <3>1, <3>2
  <2>9. free' \in 0 .. MaxFreeSockets /\ Cardinality(InUse') + free' <= MaxSockets
    BY <1>0, <2>2, <2>4 DEF PoolInv
  <2>10. PoolInv'
    BY <2>3, <2>4, <2>6, <2>7, <2>8, <2>9 DEF PoolInv
  <2> QED BY <1>0, <2>1, <2>10, HoldingIs DEF ForwardTypes, Told
<1> QED BY <1>4, <1>5, <1>6

LEMMA ForwardKeeps ==
    ASSUME ForwardInv, NEW r \in Requests, NEW hasBody \in BOOLEAN, Forward(r, hasBody)
    PROVE  ForwardInv'
<1>0. ForwardTypes /\ \A q \in Requests : Told(q)
  BY DEF ForwardInv
<1>1. /\ timers' \in [Requests -> SUBSET {"connect", "response"}]
      /\ \A q \in Requests : timers'[q] = IF q = r THEN {"connect"} ELSE timers[q]
  BY <1>0 DEF Forward, StartTimer, ForwardTypes
<1>2. uploading' \subseteq Requests /\ UNCHANGED <<resolved, idle, requester, answer, records>>
  BY <1>0 DEF Forward, ForwardTypes
<1>3. ForwardTypes'
  BY <1>0, <1>1, <1>2, ForwardPool DEF ForwardTypes, Holding
<1>4. state[r] = "none"
  BY DEF Forward
<1>5. Told(r)'
  BY <1>0, <1>1, <1>2, <1>4, ForwardPool DEF Told
<1>6. ASSUME NEW q \in Requests \ {r} PROVE Told(q)'
  BY <1>0, <1>1, <1>2, <1>6, ForwardPool, OtherKeeps
<1> QED BY <1>3, <1>5, <1>6, ForwardPool DEF ForwardInv

(* The steps of a request that leave its socket with it.                    *)
LEMMA HeldKeeps ==
    ASSUME ForwardInv, NEW r \in Requests,
           Connects(r) \/ Responds(r) \/ Drains(r) \/ ClientLeaves(r) \/ RequestTransfers(r)
    PROVE  ForwardInv'
<1>0. ForwardTypes /\ PoolInv /\ \A q \in Requests : Told(q)
  BY DEF ForwardInv
<1>1. free \in 0 .. free
  BY <1>0, ForwardAssumption DEF PoolInv
<1>2. CASE Connects(r)
  <2>1. InUse' = InUse /\ Queued' = Queued
    BY <1>0, <1>2 DEF Connects, InUse, Queued, ForwardTypes, Holding
  <2>2. PoolInv'
    BY <1>0, <1>1, <1>2, <2>1, PoolStays DEF Connects
  <2>3. /\ state' \in [Requests -> {"none", "queued", "done"} \cup Holding]
        /\ timers' \in [Requests -> SUBSET {"connect", "response"}]
    BY <1>0, <1>2, HoldingIs DEF Connects, ForwardTypes
  <2>4. ForwardTypes'
    BY <1>0, <1>2, <2>3 DEF Connects, ForwardTypes, Holding
  <2>5. /\ state[r] = "connecting" /\ state'[r] = "waiting" /\ timers'[r] = timers[r] \ {"connect"}
        /\ \A q \in Requests \ {r} : state'[q] = state[q] /\ timers'[q] = timers[q]
        /\ UNCHANGED <<kept, resolved, requester, answer, records>>
    BY <1>0, <1>2 DEF Connects, ForwardTypes
  <2>6. Told(r)'
    BY <1>0, <2>5 DEF Told
  <2>7. ASSUME NEW q \in Requests \ {r} PROVE Told(q)'
    BY <1>0, <2>5, <2>7, OtherKeeps
  <2> QED BY <2>2, <2>4, <2>6, <2>7 DEF ForwardInv
<1>3. CASE Responds(r)
  <2>1. InUse' = InUse /\ Queued' = Queued
    BY <1>0, <1>3 DEF Responds, InUse, Queued, ForwardTypes, Holding
  <2>2. PoolInv'
    BY <1>0, <1>1, <1>3, <2>1, PoolStays DEF Responds
  <2>3. /\ state' \in [Requests -> {"none", "queued", "done"} \cup Holding]
        /\ timers' \in [Requests -> SUBSET {"connect", "response"}]
        /\ answer' \in [Requests -> AnswersOf]
    BY <1>0, <1>3, HoldingIs DEF Responds, ForwardTypes, AnswersOf
  <2>4. state[r] = "waiting" /\ records[r] = <<>> /\ records' = [records EXCEPT ![r] = <<"allowed">>]
    BY <1>0, <1>3, AllRecordsAre DEF Responds, Told
  <2>5. records' \in [Requests -> Records] /\ records'[r] = <<"allowed">>
    BY <1>0, <2>4 DEF ForwardTypes, Records
  <2>6. ForwardTypes'
    BY <1>0, <1>3, <2>3, <2>5 DEF Responds, ForwardTypes, Holding
  <2>7. /\ state'[r] = "body" /\ timers'[r] = {"response"}
        /\ requester[r] = "open" => answer'[r] = "partial"
        /\ \A q \in Requests \ {r} : /\ state'[q] = state[q] /\ timers'[q] = timers[q]
                                     /\ records'[q] = records[q] /\ answer'[q] = answer[q]
        /\ UNCHANGED <<kept, resolved, requester>>
    BY <1>0, <1>3, <2>4 DEF Responds, ForwardTypes
  <2>8. Told(r)'
    BY <1>0, <2>4, <2>5, <2>7, AllRecordsAre DEF Told
  <2>9. ASSUME NEW q \in Requests \ {r} PROVE Told(q)'
    BY <1>0, <2>7, <2>9, OtherKeeps
  <2> QED BY <2>2, <2>6, <2>8, <2>9 DEF ForwardInv
<1>4. CASE Drains(r)
  <2>1. PoolInv'
    BY <1>0, <1>1, <1>4, PoolStays DEF Drains, InUse, Queued
  <2>2. ForwardTypes'
    BY <1>0, <1>4 DEF Drains, ForwardTypes, AnswersOf, Holding
  <2>3. ASSUME NEW q \in Requests PROVE Told(q)'
    BY <1>0, <1>4 DEF Told, Drains, ForwardTypes
  <2> QED BY <2>1, <2>2, <2>3 DEF ForwardInv
<1>5. CASE ClientLeaves(r)
  <2>1. PoolInv'
    BY <1>0, <1>1, <1>5, PoolStays DEF ClientLeaves, InUse, Queued
  <2>2. ForwardTypes'
    BY <1>0, <1>5 DEF ClientLeaves, ForwardTypes, Holding
  <2>3. ASSUME NEW q \in Requests PROVE Told(q)'
    BY <1>0, <1>5 DEF Told, ClientLeaves, ForwardTypes
  <2> QED BY <2>1, <2>2, <2>3 DEF ForwardInv
<1>6. CASE RequestTransfers(r)
  <2>1. PoolInv'
    BY <1>0, <1>1, <1>6, PoolStays DEF RequestTransfers, InUse, Queued
  <2>2. ForwardTypes'
    BY <1>0, <1>6 DEF RequestTransfers, ForwardTypes, Holding
  <2>3. ASSUME NEW q \in Requests PROVE Told(q)'
    BY <1>0, <1>6 DEF Told, RequestTransfers
  <2> QED BY <2>1, <2>2, <2>3 DEF ForwardInv
<1> QED BY <1>2, <1>3, <1>4, <1>5, <1>6

(* The response ends, with its socket or before the request's body does.    *)
LEMMA BodyEndsKeeps ==
    ASSUME ForwardInv, NEW r \in Requests, BodyEnds(r) PROVE ForwardInv'
<1>0. ForwardTypes /\ PoolInv /\ \A q \in Requests : Told(q)
  BY DEF ForwardInv
<1>1. /\ state[r] = "body" /\ r \in InUse
      /\ UNCHANGED <<uploading, idle, requester, records>>
      /\ resolved' = resolved \cup {r}
      /\ \A q \in Requests : timers'[q] = IF q = r THEN {} ELSE timers[q]
      /\ timers' \in [Requests -> SUBSET {"connect", "response"}]
  BY <1>0 DEF BodyEnds, InUse, Holding, Cleanup, ForwardTypes
<1>2. /\ answer' \in [Requests -> AnswersOf]
      /\ \A q \in Requests \ {r} : answer'[q] = answer[q]
      /\ requester[r] = "open" => answer'[r] = "ending"
  BY <1>0 DEF BodyEnds, ForwardTypes, AnswersOf
<1>3. /\ PoolInv' /\ kept' \subseteq Requests /\ state'[r] \in {"uploading", "done"}
      /\ state' \in [Requests -> {"none", "queued", "done"} \cup Holding]
      /\ \A q \in Requests \ {r} : \/ state'[q] = state[q] /\ (q \in kept' <=> q \in kept)
                                   \/ Served(q)
  <2>1. CASE r \in uploading
    <3>1. state' = [state EXCEPT ![r] = "uploading"] /\ UNCHANGED <<queue, free, kept>>
      BY <2>1 DEF BodyEnds
    <3>2. InUse' = InUse /\ Queued' = Queued
      BY <1>0, <1>1, <3>1 DEF InUse, Queued, ForwardTypes, Holding
    <3>3. free' \in 0 .. free
      BY <1>0, <3>1, ForwardAssumption DEF PoolInv
    <3>4. PoolInv'
      BY <1>0, <3>1, <3>2, <3>3, PoolStays
    <3> QED BY <1>0, <3>1, <3>4, HoldingIs DEF ForwardTypes
  <2>2. CASE r \notin uploading
    <3>1. Release(r)
      BY <2>2 DEF BodyEnds
    <3> QED BY <1>0, <1>1, <3>1, ReleaseKeeps DEF Moved
  <2> QED BY <2>1, <2>2
<1>4. ForwardTypes'
  BY <1>0, <1>1, <1>2, <1>3 DEF ForwardTypes, Holding
<1>5. Told(r)'
  <2>1. records'[r] = <<"allowed">> /\ requester'[r] = requester[r] /\ timers'[r] = {} /\ r \in resolved'
    BY <1>0, <1>1 DEF Told
  <2> QED BY <1>2, <1>3, <2>1, AllRecordsAre DEF Told
<1>6. ASSUME NEW q \in Requests \ {r} PROVE Told(q)'
  BY <1>0, <1>1, <1>2, <1>3, <1>6, OtherKeeps
<1> QED BY <1>3, <1>4, <1>5, <1>6 DEF ForwardInv

(* The request's body ends, with its socket or before the response does.    *)
LEMMA UploadEndsKeeps ==
    ASSUME ForwardInv, NEW r \in Requests, UploadEnds(r) PROVE ForwardInv'
<1>0. ForwardTypes /\ PoolInv /\ \A q \in Requests : Told(q)
  BY DEF ForwardInv
<1>1. UNCHANGED <<timers, resolved, idle, requester, answer, records>> /\ uploading' \subseteq Requests
  BY <1>0 DEF UploadEnds, ForwardTypes
<1>2. CASE state[r] = "uploading"
  <2>1. r \in InUse /\ Release(r)
    BY <1>2 DEF UploadEnds, InUse, Holding
  <2>2. PoolInv' /\ Moved({r})
    BY <1>0, <2>1, ReleaseKeeps
  <2>3. ForwardTypes'
    BY <1>0, <1>1, <2>2 DEF ForwardTypes, Moved, Holding
  <2>4. Told(r)'
    BY <1>0, <1>1, <1>2, <2>2, AllRecordsAre DEF Told, Moved
  <2>5. ASSUME NEW q \in Requests \ {r} PROVE Told(q)'
    BY <1>0, <1>1, <2>2, <2>5, OtherKeeps DEF Moved
  <2> QED BY <2>2, <2>3, <2>4, <2>5 DEF ForwardInv
<1>3. CASE state[r] # "uploading"
  <2>1. UNCHANGED <<state, queue, free, kept>>
    BY <1>3 DEF UploadEnds
  <2>2. free' \in 0 .. free
    BY <1>0, <2>1, ForwardAssumption DEF PoolInv
  <2>3. PoolInv'
    BY <1>0, <2>1, <2>2, PoolStays DEF InUse, Queued
  <2>4. ForwardTypes'
    BY <1>0, <1>1, <2>1 DEF ForwardTypes, Holding
  <2>5. ASSUME NEW q \in Requests PROVE Told(q)'
    BY <1>0, <1>1, <2>1 DEF Told
  <2> QED BY <2>3, <2>4, <2>5 DEF ForwardInv
<1> QED BY <1>2, <1>3

(* The rest of an ended response is found too long.                         *)
LEMMA OverrunsKeeps ==
    ASSUME ForwardInv, NEW r \in Requests, Overruns(r) PROVE ForwardInv'
<1>0. ForwardTypes /\ PoolInv /\ \A q \in Requests : Told(q)
  BY DEF ForwardInv
<1>1. /\ answer[r] = "ending" /\ answer' = [answer EXCEPT ![r] = "cut"]
      /\ UNCHANGED <<free, timers, resolved, idle, requester, records>> /\ uploading' \subseteq Requests
  BY <1>0 DEF Overruns, ForwardTypes
<1>2. free' \in 0 .. free
  BY <1>0, <1>1, ForwardAssumption DEF PoolInv
<1>3. /\ answer' \in [Requests -> AnswersOf] /\ answer'[r] = "cut"
      /\ \A q \in Requests \ {r} : answer'[q] = answer[q]
  BY <1>0, <1>1 DEF ForwardTypes, AnswersOf
<1>4. CASE state[r] = "uploading"
  <2>1. {r} \subseteq InUse /\ Drop({r})
    BY <1>4 DEF Overruns, InUse, Holding
  <2>2. PoolInv' /\ Moved({r})
    BY <1>0, <1>2, <2>1, DropUsed
  <2>3. ForwardTypes'
    BY <1>0, <1>1, <1>3, <2>2 DEF ForwardTypes, Moved, Holding
  <2>4. Told(r)'
    BY <1>0, <1>1, <1>3, <1>4, <2>2, AllRecordsAre DEF Told, Moved
  <2>5. ASSUME NEW q \in Requests \ {r} PROVE Told(q)'
    BY <1>0, <1>1, <1>3, <2>2, <2>5, OtherKeeps DEF Moved
  <2> QED BY <2>2, <2>3, <2>4, <2>5 DEF ForwardInv
<1>5. CASE state[r] # "uploading"
  <2>1. UNCHANGED <<state, queue, kept>>
    BY <1>5 DEF Overruns
  <2>2. PoolInv'
    BY <1>0, <1>2, <2>1, PoolStays DEF InUse, Queued
  <2>3. ForwardTypes'
    BY <1>0, <1>1, <1>3, <2>1 DEF ForwardTypes, Holding
  <2>4. Told(r)'
    BY <1>0, <1>1, <1>3, <2>1 DEF Told
  <2>5. ASSUME NEW q \in Requests \ {r} PROVE Told(q)'
    BY <1>0, <1>1, <1>3, <2>1, <2>5, OtherKeeps
  <2> QED BY <2>2, <2>3, <2>4, <2>5 DEF ForwardInv
<1> QED BY <1>4, <1>5

LEMMA NextKeepsForward == ForwardInv /\ [ForwardNext]_forwardVars => ForwardInv'
<1> SUFFICES ASSUME ForwardInv, [ForwardNext]_forwardVars PROVE ForwardInv'
  OBVIOUS
<1>0. ForwardTypes /\ PoolInv /\ \A q \in Requests : Told(q)
  BY DEF ForwardInv
<1>1. CASE FreeSocketCloses
  <2>1. /\ free' \in 0 .. free
        /\ UNCHANGED <<state, queue, kept, timers, resolved, uploading, idle, requester, answer,
                       records>>
    BY <1>0, <1>1, ForwardAssumption DEF FreeSocketCloses, PoolInv
  <2>2. PoolInv'
    BY <1>0, <2>1, PoolStays DEF InUse, Queued
  <2>3. ForwardTypes'
    BY <1>0, <2>1 DEF ForwardTypes, Holding
  <2>4. ASSUME NEW q \in Requests PROVE Told(q)'
    BY <1>0, <2>1 DEF Told
  <2> QED BY <2>2, <2>3, <2>4 DEF ForwardInv
<1>2. CASE UNCHANGED forwardVars
  <2>1. UNCHANGED <<state, queue, free, kept, timers, resolved, uploading, idle, requester, answer,
                    records>>
    BY <1>2 DEF forwardVars
  <2>2. free' \in 0 .. free
    BY <1>0, <2>1, ForwardAssumption DEF PoolInv
  <2>3. PoolInv'
    BY <1>0, <2>1, <2>2, PoolStays DEF InUse, Queued
  <2>4. ForwardTypes'
    BY <1>0, <2>1 DEF ForwardTypes, Holding
  <2>5. ASSUME NEW q \in Requests PROVE Told(q)'
    BY <1>0, <2>1 DEF Told
  <2> QED BY <2>3, <2>4, <2>5 DEF ForwardInv
<1> QED BY <1>1, <1>2, ForwardKeeps, HeldKeeps, BodyEndsKeeps, UploadEndsKeeps, OverrunsKeeps,
           FailuresKeep, DestroyKeeps DEF ForwardNext

(***************************************************************************)
(* The gRPC streams and their sessions.                                     *)
(***************************************************************************)
GrpcTypes ==
    /\ session \in [Made -> {"open", "draining", "dying", "gone"}]
    /\ Cardinality(Made) \in Nat /\ Cardinality(Made) <= MaxSessions
    /\ Made = 1 .. Cardinality(Made)
    /\ entry \in Made \cup {0} /\ displaced \subseteq Made
    /\ stage \in [Streams -> {"new", "limiter", "proxied", "settled"}]
    /\ via \in [Streams -> Made \cup {0}]
    /\ upstreamStream \in [Streams -> {"none", "open", "failing", "ended", "destroyed", "lost"}]
    /\ grpcTimer \subseteq Streams /\ listened \subseteq Streams
    /\ grpcClient \in [Streams -> {"open", "closed"}]
    /\ grpcAnswer \in [Streams -> {"none", "head"} \cup FinalAnswers]

(* An open stream is on a session that is there, and one that takes it.     *)
GrpcInv ==
    /\ GrpcTypes
    /\ activeStreams = Cardinality(Unsettled)
    /\ \A n \in Made : session[n] = "open" => n = entry \/ n \in displaced
    /\ \A s \in Streams : upstreamStream[s] = "open" => /\ via[s] \in Made
                                                        /\ session[via[s]] \in {"open", "draining"}

LEMMA InitGrpc == GrpcInit => GrpcInv
<1> SUFFICES ASSUME GrpcInit PROVE GrpcInv
  OBVIOUS
<1>1. Made = {} /\ Unsettled = {} /\ session \in [Made -> {"open", "draining", "dying", "gone"}]
  BY DEF GrpcInit, Made, Unsettled
<1>2. Cardinality(Made) = 0 /\ Cardinality(Unsettled) = 0 /\ 0 \in Nat /\ 1 .. 0 = {}
  BY <1>1, FS_EmptySet
<1>3. GrpcTypes
  BY <1>1, <1>2, GrpcAssumption DEF GrpcInit, GrpcTypes, FinalAnswers
<1> QED BY <1>1, <1>2, <1>3 DEF GrpcInit, GrpcInv

(* The streams that are active.                                             *)
LEMMA UnsettledIs ==
    /\ IsFiniteSet(Unsettled) /\ Cardinality(Unsettled) \in Nat
<1>1. Unsettled \subseteq Streams
  BY DEF Unsettled
<1> QED BY <1>1, GrpcAssumption, FS_Subset, FS_CardinalityType

LEMMA SettleIs ==
    ASSUME GrpcInv, NEW s \in Streams, Settle(s)
    PROVE  /\ stage' \in [Streams -> {"new", "limiter", "proxied", "settled"}]
           /\ activeStreams' = Cardinality(Unsettled')
<1>1. Unsettled' = Unsettled \ {s}
  BY DEF Settle, Unsettled, GrpcInv, GrpcTypes
<1>2. Cardinality(Unsettled') = IF s \in Unsettled THEN Cardinality(Unsettled) - 1
                                                  ELSE Cardinality(Unsettled)
  BY <1>1, UnsettledIs, FS_RemoveElement
<1> QED BY <1>2 DEF Settle, GrpcInv, GrpcTypes

LEMMA SendGrpcErrorIs ==
    ASSUME GrpcTypes, NEW s \in Streams, SendGrpcError(s)
    PROVE  /\ grpcClient' \in [Streams -> {"open", "closed"}]
           /\ grpcAnswer' \in [Streams -> {"none", "head"} \cup FinalAnswers]
BY DEF GrpcTypes, SendGrpcError, FinalAnswers

LEMMA SettleRejectedIs ==
    ASSUME GrpcInv, NEW s \in Streams, SettleRejected(s)
    PROVE  /\ stage' \in [Streams -> {"new", "limiter", "proxied", "settled"}]
           /\ activeStreams' = Cardinality(Unsettled')
           /\ grpcClient' \in [Streams -> {"open", "closed"}]
           /\ grpcAnswer' \in [Streams -> {"none", "head"} \cup FinalAnswers]
<1>1. Settle(s)
  BY DEF SettleRejected
<1> QED BY <1>1, SettleIs, SendGrpcErrorIs DEF SettleRejected, GrpcInv, GrpcTypes

(* What a stream does to the sessions is only to make one.                  *)
LEMMA StreamMoves ==
    ASSUME GrpcInv, UNCHANGED <<entry, session, displaced, via>>,
           stage' \in [Streams -> {"new", "limiter", "proxied", "settled"}],
           activeStreams' = Cardinality(Unsettled'),
           upstreamStream' \in [Streams -> {"none", "open", "failing", "ended", "destroyed", "lost"}],
           \A s \in Streams : upstreamStream'[s] = "open" => upstreamStream[s] = "open",
           grpcTimer' \subseteq Streams, listened' \subseteq Streams,
           grpcClient' \in [Streams -> {"open", "closed"}],
           grpcAnswer' \in [Streams -> {"none", "head"} \cup FinalAnswers]
    PROVE  GrpcInv'
BY DEF GrpcInv, GrpcTypes, Made

LEMMA UnsettledStays ==
    ASSUME GrpcInv, UNCHANGED <<stage, activeStreams>> PROVE activeStreams' = Cardinality(Unsettled')
BY DEF GrpcInv, Unsettled

LEMMA StreamsKeep ==
    ASSUME GrpcInv, NEW s \in Streams,
           \/ RejectStream(s) \/ AcceptStream(s) \/ RateLimited(s) \/ UpstreamHead(s)
           \/ UpstreamStreamEnds(s) \/ UpstreamStreamFails(s) \/ RequestTimesOut(s)
           \/ GrpcClientCloses(s)
    PROVE  GrpcInv'
<1>0. GrpcTypes
  BY DEF GrpcInv
<1>1. CASE RejectStream(s)
  <2>1. Unsettled' = Unsettled
    BY <1>0, <1>1 DEF RejectStream, Unsettled, GrpcTypes
  <2>2. activeStreams' = Cardinality(Unsettled')
    BY <1>1, <2>1 DEF RejectStream, GrpcInv
  <2>3. stage' \in [Streams -> {"new", "limiter", "proxied", "settled"}]
    BY <1>0, <1>1 DEF RejectStream, GrpcTypes
  <2> QED BY <1>0, <1>1, <2>2, <2>3, SendGrpcErrorIs, StreamMoves DEF RejectStream, GrpcTypes
<1>2. CASE AcceptStream(s)
  <2>1. Unsettled' = Unsettled \cup {s} /\ s \notin Unsettled
    BY <1>0, <1>2 DEF AcceptStream, Unsettled, GrpcTypes
  <2>2. activeStreams' = Cardinality(Unsettled')
    BY <1>2, <2>1, UnsettledIs, FS_AddElement DEF AcceptStream, GrpcInv
  <2>3. stage' \in [Streams -> {"new", "limiter", "proxied", "settled"}]
    BY <1>0, <1>2 DEF AcceptStream, GrpcTypes
  <2> QED BY <1>0, <1>2, <2>2, <2>3, StreamMoves DEF AcceptStream, GrpcTypes
<1>3. CASE RateLimited(s)
  <2>1. SettleRejected(s)
    BY <1>3 DEF RateLimited
  <2> QED BY <1>0, <1>3, <2>1, SettleRejectedIs, StreamMoves DEF RateLimited, GrpcTypes
<1>4. CASE UpstreamHead(s)
  <2>1. grpcAnswer' \in [Streams -> {"none", "head"} \cup FinalAnswers]
    BY <1>0, <1>4 DEF UpstreamHead, GrpcTypes
  <2> QED BY <1>0, <1>4, <2>1, UnsettledStays, StreamMoves DEF UpstreamHead, GrpcTypes
<1>5. CASE UpstreamStreamEnds(s)
  <2>1. Settle(s)
    BY <1>5 DEF UpstreamStreamEnds
  <2>2. grpcAnswer' \in [Streams -> {"none", "head"} \cup FinalAnswers]
    BY <1>0, <1>5 DEF UpstreamStreamEnds, GrpcTypes, FinalAnswers
  <2>3. /\ upstreamStream' \in [Streams -> {"none", "open", "failing", "ended", "destroyed", "lost"}]
        /\ \A x \in Streams : upstreamStream'[x] = "open" => upstreamStream[x] = "open"
    BY <1>0, <1>5 DEF UpstreamStreamEnds, GrpcTypes
  <2> QED BY <1>0, <1>5, <2>1, <2>2, <2>3, SettleIs, StreamMoves DEF UpstreamStreamEnds, GrpcTypes
<1>6. CASE UpstreamStreamFails(s)
  <2>1. SettleRejected(s)
    BY <1>6 DEF UpstreamStreamFails
  <2>3. /\ upstreamStream' \in [Streams -> {"none", "open", "failing", "ended", "destroyed", "lost"}]
        /\ \A x \in Streams : upstreamStream'[x] = "open" => upstreamStream[x] = "open"
    BY <1>0, <1>6 DEF UpstreamStreamFails, GrpcTypes
  <2> QED BY <1>0, <1>6, <2>1, <2>3, SettleRejectedIs, StreamMoves DEF UpstreamStreamFails, GrpcTypes
<1>7. CASE RequestTimesOut(s)
  <2>1. /\ upstreamStream' \in [Streams -> {"none", "open", "failing", "ended", "destroyed", "lost"}]
        /\ \A x \in Streams : upstreamStream'[x] = "open" => upstreamStream[x] = "open"
    BY <1>0, <1>7 DEF RequestTimesOut, GrpcTypes
  <2>2. /\ grpcClient' \in [Streams -> {"open", "closed"}]
        /\ grpcAnswer' \in [Streams -> {"none", "head"} \cup FinalAnswers]
    BY <1>0, <1>7, SendGrpcErrorIs DEF RequestTimesOut, GrpcTypes
  <2> QED BY <1>0, <1>7, <2>1, <2>2, UnsettledStays, StreamMoves DEF RequestTimesOut, GrpcTypes
<1>8. CASE GrpcClientCloses(s)
  <2>1. /\ upstreamStream' \in [Streams -> {"none", "open", "failing", "ended", "destroyed", "lost"}]
        /\ \A x \in Streams : upstreamStream'[x] = "open" => upstreamStream[x] = "open"
    BY <1>0, <1>8 DEF GrpcClientCloses, GrpcTypes
  <2>2. grpcClient' \in [Streams -> {"open", "closed"}] /\ grpcTimer' \subseteq Streams
    BY <1>0, <1>8 DEF GrpcClientCloses, GrpcTypes
  <2> QED BY <1>0, <1>8, <2>1, <2>2, UnsettledStays, StreamMoves DEF GrpcClientCloses, GrpcTypes
<1> QED BY <1>1, <1>2, <1>3, <1>4, <1>5, <1>6, <1>7, <1>8

(* A new session takes the place of one that takes no streams any more.     *)
LEMMA ProxyToUpstreamKeeps ==
    ASSUME GrpcInv, NEW s \in Streams, ProxyToUpstream(s)
    PROVE  GrpcInv'
<1>0. GrpcTypes
  BY DEF GrpcInv
<1>1. PICK n \in 1 .. MaxSessions : GetUpstreamSession(n) /\ via' = [via EXCEPT ![s] = n]
  BY DEF ProxyToUpstream
<1>2. /\ stage[s] = "limiter" /\ stage' = [stage EXCEPT ![s] = "proxied"]
      /\ upstreamStream' = [upstreamStream EXCEPT ![s] = "open"]
      /\ grpcTimer' = grpcTimer \cup {s} /\ listened' \subseteq Streams
      /\ UNCHANGED <<displaced, grpcClient, grpcAnswer, activeStreams>>
  BY <1>0 DEF ProxyToUpstream, StartGrpcTimer, GrpcTypes
<1>3. Unsettled' = Unsettled
  BY <1>0, <1>2 DEF Unsettled, GrpcTypes
<1>4. activeStreams' = Cardinality(Unsettled')
  BY <1>2, <1>3 DEF GrpcInv
<1>5. /\ session' \in [Made' -> {"open", "draining", "dying", "gone"}]
      /\ Cardinality(Made') \in Nat /\ Cardinality(Made') <= MaxSessions
      /\ Made' = 1 .. Cardinality(Made') /\ Made \subseteq Made'
      /\ entry' = n /\ n \in Made' /\ session'[n] = "open"
      /\ \A m \in Made : session'[m] = session[m]
      /\ \A m \in Made' : session'[m] = "open" => m = n \/ m \in displaced
  <2>1. CASE Usable(entry)
    <3>1. n = entry /\ entry' = entry /\ session' = session /\ n \in Made /\ session[n] = "open"
      BY <1>0, <1>1, <2>1 DEF GetUpstreamSession, Usable, GrpcTypes
    <3> QED BY <1>0, <3>1 DEF GrpcInv, GrpcTypes, Made
  <2>2. CASE ~Usable(entry)
    <3> DEFINE c == Cardinality(Made)
    <3>1. /\ c < MaxSessions /\ n = c + 1 /\ entry' = n
          /\ session' = [m \in Made \cup {n} |-> IF m = n THEN "open" ELSE session[m]]
      BY <1>1, <2>2 DEF GetUpstreamSession
    <3>2. c \in Nat /\ Made = 1 .. c /\ MaxSessions \in Nat
      BY <1>0, GrpcAssumption DEF GrpcTypes
    <3>3. Made' = Made \cup {n} /\ n \notin Made
      BY <3>1, <3>2 DEF Made
    <3> HIDE DEF c
    <3>4. Made' = 1 .. n /\ n \in Nat
      BY <3>1, <3>2, <3>3
    <3>5. Cardinality(Made') = n
      BY <3>4, FS_Interval
    <3>6. \A m \in Made : session[m] # "open" \/ m \in displaced
      BY <2>2, <3>2 DEF GrpcInv, Usable
    <3>7. session \in [Made -> {"open", "draining", "dying", "gone"}]
      BY <1>0 DEF GrpcTypes
    <3>8. /\ session' \in [Made' -> {"open", "draining", "dying", "gone"}] /\ session'[n] = "open"
          /\ \A m \in Made : session'[m] = session[m]
      BY <3>1, <3>3, <3>7
    <3>9. n <= MaxSessions /\ n \in Made'
      BY <3>1, <3>2, <3>4
    <3>10. \A m \in Made' : session'[m] = "open" => m = n \/ m \in displaced
      BY <3>3, <3>6, <3>8
    <3>11. Cardinality(Made') \in Nat /\ Cardinality(Made') <= MaxSessions /\ Made' = 1 .. Cardinality(Made')
      BY <3>4, <3>5, <3>9
    <3>12. \A m \in Made : session[m] = "open" => session'[m] = "open"
      BY <3>8
    <3> QED BY <3>1, <3>3, <3>8, <3>9, <3>10, <3>11, <3>12
  <2> QED BY <2>1, <2>2
<1>6. via' \in [Streams -> Made' \cup {0}] /\ \A x \in Streams : via'[x] = IF x = s THEN n ELSE via[x]
  BY <1>0, <1>1, <1>5 DEF GrpcTypes
<1>7. GrpcTypes'
  BY <1>0, <1>2, <1>5, <1>6 DEF GrpcTypes
<1>8. \A x \in Streams : upstreamStream'[x] = IF x = s THEN "open" ELSE upstreamStream[x]
  BY <1>0, <1>2 DEF GrpcTypes
<1>9. ASSUME NEW x \in Streams, upstreamStream'[x] = "open"
      PROVE  via'[x] \in Made' /\ session'[via'[x]] \in {"open", "draining"}
  <2>1. CASE x = s
    BY <1>5, <1>6, <2>1
  <2>2. CASE x # s
    <3>1. via[x] \in Made /\ session[via[x]] \in {"open", "draining"} /\ via'[x] = via[x]
      BY <1>6, <1>8, <1>9, <2>2 DEF GrpcInv
    <3> QED BY <1>5, <3>1
  <2> QED BY <2>1, <2>2
<1> QED BY <1>2, <1>4, <1>5, <1>7, <1>9 DEF GrpcInv

(* A session ends: its open streams with it.                                *)
LEMMA SessionEndsKeeps ==
    ASSUME GrpcInv, NEW n \in Made, SessionFails(n) \/ SessionIdle(n) PROVE GrpcInv'
<1>0. GrpcTypes
  BY DEF GrpcInv
<1>1. /\ session' = [session EXCEPT ![n] = "dying"]
      /\ UNCHANGED <<entry, displaced, stage, via, grpcTimer, listened, grpcClient, grpcAnswer,
                     activeStreams>>
      /\ \E to \in {"failing", "lost"} :
            upstreamStream' = [s \in Streams |-> IF s \in StreamsOf(n) THEN to ELSE upstreamStream[s]]
  BY DEF SessionFails, SessionIdle
<1>2. Made' = Made /\ session' \in [Made -> {"open", "draining", "dying", "gone"}]
      /\ \A m \in Made : session'[m] = IF m = n THEN "dying" ELSE session[m]
  BY <1>0, <1>1 DEF GrpcTypes, Made
<1>3. /\ upstreamStream' \in [Streams -> {"none", "open", "failing", "ended", "destroyed", "lost"}]
      /\ \A s \in Streams : upstreamStream'[s] = "open" => upstreamStream[s] = "open" /\ via[s] # n
  BY <1>0, <1>1 DEF GrpcTypes, StreamsOf
<1>4. activeStreams' = Cardinality(Unsettled')
  BY <1>1, UnsettledStays
<1>5. GrpcTypes'
  BY <1>0, <1>1, <1>2, <1>3 DEF GrpcTypes
<1>6. \A s \in Streams : upstreamStream'[s] = "open" => /\ via'[s] \in Made'
                                                        /\ session'[via'[s]] \in {"open", "draining"}
  BY <1>1, <1>2, <1>3 DEF GrpcInv
<1> QED BY <1>1, <1>2, <1>4, <1>5, <1>6 DEF GrpcInv

LEMMA SessionLeavesKeeps ==
    ASSUME GrpcInv, CloseAll \/ \E n \in Made : SessionGoesAway(n) \/ SessionClosed(n)
    PROVE  GrpcInv'
<1>0. GrpcTypes
  BY DEF GrpcInv
<1>1. UNCHANGED streamVars
  BY DEF CloseAll, SessionGoesAway, SessionClosed
<1>2. /\ Made' = Made /\ session' \in [Made -> {"open", "draining", "dying", "gone"}]
      /\ \A m \in Made : session'[m] = "open" => session[m] = "open" /\ (m = entry' \/ m \in displaced')
      /\ entry' \in Made \cup {0} /\ displaced' \subseteq Made
      /\ \A s \in Streams : /\ upstreamStream[s] = "open" /\ via[s] \in Made
                            /\ session[via[s]] \in {"open", "draining"}
                            => session'[via[s]] \in {"open", "draining"}
  <2>1. CASE CloseAll
    BY <1>0, <2>1 DEF CloseAll, GrpcInv, GrpcTypes, Made
  <2>2. ASSUME NEW n \in Made, SessionGoesAway(n)
        PROVE  /\ Made' = Made /\ session' \in [Made -> {"open", "draining", "dying", "gone"}]
               /\ entry' = entry /\ displaced' = displaced
               /\ \A m \in Made : session'[m] = IF m = n THEN "draining" ELSE session[m]
    BY <1>0, <2>2 DEF SessionGoesAway, GrpcTypes, Made
  <2>3. ASSUME NEW n \in Made, SessionClosed(n)
        PROVE  /\ Made' = Made /\ session' \in [Made -> {"open", "draining", "dying", "gone"}]
               /\ entry' = 0 /\ displaced' \subseteq Made
               /\ \A m \in Made : session'[m] = IF m = n THEN "gone" ELSE session[m]
               /\ displaced \subseteq displaced'
               /\ entry \notin {0, n} => entry \in displaced'
               /\ \A s \in Streams : upstreamStream[s] = "open" /\ session[via[s]] \in {"open", "draining"}
                                     => via[s] # n
    <3>1. /\ Made' = Made /\ session' \in [Made -> {"open", "draining", "dying", "gone"}]
          /\ entry' = 0 /\ displaced' \subseteq Made
          /\ \A m \in Made : session'[m] = IF m = n THEN "gone" ELSE session[m]
          /\ displaced \subseteq displaced'
          /\ entry \notin {0, n} => entry \in displaced'
      BY <1>0, <2>3 DEF SessionClosed, GrpcTypes, Made
    <3>2. \A s \in Streams : upstreamStream[s] = "open" /\ session[via[s]] \in {"open", "draining"}
                             => via[s] # n
      BY <2>3 DEF SessionClosed, StreamsOf
    <3> QED BY <3>1, <3>2
  <2>4. CASE \E n \in Made : SessionGoesAway(n)
    BY <1>0, <2>2, <2>4 DEF GrpcInv, GrpcTypes
  <2>5. CASE \E n \in Made : SessionClosed(n)
    <3>1. PICK n \in Made : SessionClosed(n)
      BY <2>5
    <3>2. 0 \notin Made
      BY <1>0 DEF GrpcTypes
    <3> QED BY <1>0, <2>3, <3>1, <3>2 DEF GrpcInv, GrpcTypes
  <2> QED BY <2>1, <2>4, <2>5
<1>3. activeStreams' = Cardinality(Unsettled')
  BY <1>1, UnsettledStays DEF streamVars
<1>4. GrpcTypes'
  BY <1>0, <1>1, <1>2 DEF GrpcTypes, streamVars
<1> QED BY <1>1, <1>2, <1>3, <1>4 DEF GrpcInv, streamVars

LEMMA NextKeepsGrpc == GrpcInv /\ [GrpcNext]_grpcVars => GrpcInv'
<1> SUFFICES ASSUME GrpcInv, [GrpcNext]_grpcVars PROVE GrpcInv'
  OBVIOUS
<1>1. CASE UNCHANGED grpcVars
  BY <1>1 DEF GrpcInv, GrpcTypes, Made, Unsettled, grpcVars
<1>2. CASE GrpcNext
  BY <1>2, StreamsKeep, ProxyToUpstreamKeeps, SessionEndsKeeps, SessionLeavesKeeps DEF GrpcNext
<1> QED BY <1>1, <1>2

LEMMA GrpcInvSuffices == GrpcInv => GrpcTypeOK /\ SessionsTracked
BY DEF GrpcInv, GrpcTypes, GrpcTypeOK, SessionsTracked, Made

(***************************************************************************)
(* The gRPC-Web requests: their type invariant is inductive.                *)
(***************************************************************************)
LEMMA WebUnsettledIs == IsFiniteSet(WebUnsettled) /\ Cardinality(WebUnsettled) \in Nat
<1>1. WebUnsettled \subseteq WebRequests
  BY DEF WebUnsettled
<1> QED BY <1>1, WebAssumption, FS_Subset, FS_CardinalityType

LEMMA InitWeb == WebInit => WebTypeOK
<1> SUFFICES ASSUME WebInit PROVE WebTypeOK
  OBVIOUS
<1>1. WebUnsettled = {}
  BY DEF WebInit, WebUnsettled
<1> QED BY <1>1, FS_EmptySet DEF WebInit, WebTypeOK

WebStages == {"new", "limiter", "upload", "upstream", "settled"}

LEMMA WebSettleIs ==
    ASSUME WebTypeOK, NEW r \in WebRequests, WebSettle(r)
    PROVE  webStage' \in [WebRequests -> WebStages] /\ webActive' = Cardinality(WebUnsettled')
<1>1. WebUnsettled' = WebUnsettled \ {r}
  BY DEF WebSettle, WebUnsettled, WebTypeOK
<1>2. Cardinality(WebUnsettled') = IF r \in WebUnsettled THEN Cardinality(WebUnsettled) - 1
                                                        ELSE Cardinality(WebUnsettled)
  BY <1>1, WebUnsettledIs, FS_RemoveElement
<1> QED BY <1>2 DEF WebSettle, WebTypeOK, WebStages

LEMMA WebSettleRejectedIs ==
    ASSUME WebTypeOK, NEW r \in WebRequests, WebSettleRejected(r)
    PROVE  /\ webStage' \in [WebRequests -> WebStages] /\ webActive' = Cardinality(WebUnsettled')
           /\ webAnswer' \in [WebRequests -> {"none", "error", "complete"}]
<1>1. WebSettle(r)
  BY DEF WebSettleRejected
<1>2. webAnswer' \in [WebRequests -> {"none", "error", "complete"}]
  BY DEF WebSettleRejected, Respond, WebTypeOK
<1> QED BY <1>1, <1>2, WebSettleIs

(* The steps that settle no request.                                        *)
LEMMA WebStays ==
    ASSUME WebTypeOK, webStage' \in [WebRequests -> WebStages], webActive' = webActive,
           \A r \in WebRequests : webStage'[r] \in {"new", "settled"} <=> webStage[r] \in {"new", "settled"}
    PROVE  webActive' = Cardinality(WebUnsettled')
<1>1. WebUnsettled' = WebUnsettled
  BY DEF WebUnsettled
<1> QED BY <1>1 DEF WebTypeOK

LEMMA WebStepKeeps ==
    ASSUME WebTypeOK, NEW r \in WebRequests,
           \/ WebRejected(r) \/ WebAccepted(r) \/ WebRateLimited(r) \/ CollectBody(r)
           \/ SendUpstream(r) \/ WebStreamEnds(r) \/ WebStreamFails(r)
           \/ WebTimesOut(r) \/ WebClientLeaves(r)
    PROVE  WebTypeOK'
<1> DEFINE counts == /\ webStage' \in [WebRequests -> WebStages]
                     /\ webActive' = Cardinality(WebUnsettled')
           answers == webAnswer' \in [WebRequests -> {"none", "error", "complete"}]
           rest == /\ webSession' \in [WebRequests -> {"none", "live", "dead"}]
                   /\ webStream' \in [WebRequests -> {"none", "open", "failing", "destroyed", "lost"}]
                   /\ webTimer' \subseteq WebRequests
                   /\ webClient' \in [WebRequests -> {"open", "gone"}]
                   /\ down' \in BOOLEAN
<1> SUFFICES counts /\ answers /\ rest
  BY DEF WebTypeOK, WebStages
<1>1. CASE WebRejected(r)
  <2>1. answers /\ rest
    BY <1>1 DEF WebRejected, Respond, WebTypeOK
  <2>2. /\ webStage' \in [WebRequests -> WebStages] /\ webActive' = webActive
        /\ \A x \in WebRequests :
              webStage'[x] \in {"new", "settled"} <=> webStage[x] \in {"new", "settled"}
    BY <1>1 DEF WebRejected, WebTypeOK, WebStages
  <2> QED BY <2>1, <2>2, WebStays
<1>2. CASE WebAccepted(r)
  <2>1. answers /\ rest
    BY <1>2 DEF WebAccepted, WebTypeOK
  <2>2. webStage' \in [WebRequests -> WebStages] /\ webActive' = webActive + 1
    BY <1>2 DEF WebAccepted, WebTypeOK, WebStages
  <2>3. WebUnsettled' = WebUnsettled \cup {r} /\ r \notin WebUnsettled
    BY <1>2 DEF WebAccepted, WebUnsettled, WebTypeOK
  <2>4. webActive' = Cardinality(WebUnsettled')
    BY <2>2, <2>3, WebUnsettledIs, FS_AddElement DEF WebTypeOK
  <2> QED BY <2>1, <2>2, <2>4
<1>3. CASE WebRateLimited(r)
  <2>1. rest
    BY <1>3 DEF WebRateLimited, WebTypeOK
  <2>2. WebSettleRejected(r)
    BY <1>3 DEF WebRateLimited
  <2> QED BY <2>1, <2>2, WebSettleRejectedIs
<1>4. CASE CollectBody(r) \/ SendUpstream(r)
  <2>1. answers /\ webClient' \in [WebRequests -> {"open", "gone"}] /\ webTimer' \subseteq WebRequests
    BY <1>4 DEF CollectBody, SendUpstream, WebTypeOK
  <2>3. webSession' \in [WebRequests -> {"none", "live", "dead"}]
    BY <1>4 DEF CollectBody, SendUpstream, WebTypeOK
  <2>4. webStream' \in [WebRequests -> {"none", "open", "failing", "destroyed", "lost"}]
    BY <1>4 DEF CollectBody, SendUpstream, WebTypeOK
  <2>5. down' \in BOOLEAN
    <3>1. down' = down \/ down' = TRUE
      BY <1>4 DEF CollectBody, SendUpstream
    <3>2. down \in BOOLEAN
      BY DEF WebTypeOK
    <3> QED BY <3>1, <3>2
  <2>2. /\ webStage' \in [WebRequests -> WebStages] /\ webActive' = webActive
        /\ \A x \in WebRequests :
              webStage'[x] \in {"new", "settled"} <=> webStage[x] \in {"new", "settled"}
    BY <1>4 DEF CollectBody, SendUpstream, WebTypeOK, WebStages
  <2>6. counts
    BY <2>2, WebStays
  <2> QED BY <2>1, <2>3, <2>4, <2>5, <2>6
<1>5. CASE WebStreamEnds(r)
  <2>1. answers /\ rest
    BY <1>5 DEF WebStreamEnds, Respond, WebTypeOK
  <2>2. CASE webAnswer[r] = "none"
    <3>1. WebSettle(r)
      BY <1>5, <2>2 DEF WebStreamEnds
    <3> QED BY <2>1, <3>1, WebSettleIs
  <2>3. CASE webAnswer[r] # "none"
    BY <1>5, <2>1, <2>3, WebStays DEF WebStreamEnds, WebTypeOK, WebStages
  <2> QED BY <2>2, <2>3
<1>6. CASE WebStreamFails(r)
  <2>1. rest
    BY <1>6 DEF WebStreamFails, WebTypeOK
  <2>2. WebSettleRejected(r)
    BY <1>6 DEF WebStreamFails
  <2> QED BY <2>1, <2>2, WebSettleRejectedIs
<1>7. CASE WebTimesOut(r)
  <2>1. answers /\ rest
    BY <1>7 DEF WebTimesOut, Respond, WebTypeOK
  <2>2. counts
    BY <1>7, WebStays DEF WebTimesOut, WebTypeOK, WebStages
  <2> QED BY <2>1, <2>2
<1>8. CASE WebClientLeaves(r)
  <2>1. rest
    BY <1>8 DEF WebClientLeaves, WebTypeOK
  <2>2. CASE webStage[r] = "upload"
    <3>1. WebSettleRejected(r)
      BY <1>8, <2>2 DEF WebClientLeaves
    <3> QED BY <2>1, <3>1, WebSettleRejectedIs
  <2>3. CASE webStage[r] # "upload"
    BY <1>8, <2>1, <2>3, WebStays DEF WebClientLeaves, WebTypeOK, WebStages
  <2> QED BY <2>2, <2>3
<1> QED BY <1>1, <1>2, <1>3, <1>4, <1>5, <1>6, <1>7, <1>8

LEMMA NextKeepsWeb == WebTypeOK /\ [WebNext]_webVars => WebTypeOK'
<1> SUFFICES ASSUME WebTypeOK, [WebNext]_webVars PROVE WebTypeOK'
  OBVIOUS
<1>1. ASSUME NEW rs \in SUBSET WebRequests, NEW how \in {"failing", "lost"}, WebSessionDies(rs, how)
      PROVE  WebTypeOK'
  BY <1>1 DEF WebSessionDies, WebTypeOK, WebUnsettled
<1>2. CASE UNCHANGED webVars
  BY <1>2 DEF WebTypeOK, WebUnsettled, webVars
<1> QED BY <1>1, <1>2, WebStepKeeps DEF WebNext

-----------------------------------------------------------------------------
(* connect-handler.ts, websocket-handler.ts: the sockets of a tunnel whose  *)
(* client is heard live and die together, the audit log has one record of   *)
(* such a tunnel at most, "allowed" exactly if it was answered so, and no   *)
(* more WebSockets are counted active than are connected or left unheard.   *)
THEOREM TunnelsAreSound ==
    TunnelSpec => [](TunnelTypeOK /\ SocketsPaired /\ AuditAgrees /\ ActiveBounded)
<1> QED BY InitTunnels, NextKeepsTunnels, TunnelInvSuffices, PTL DEF TunnelSpec

(* forward-proxy.ts and connection-pool.ts: the pool is never above its     *)
(* maximum and nobody waits while it is below, every pending request has a  *)
(* timer except while it waits for the head on a new connection, and what is*)
(* recorded of a request is what its client reads.                          *)
THEOREM ForwardIsSound == ForwardSpec => [](ForwardTypeOK /\ AuditTells)
<1> QED BY InitForward, NextKeepsForward, ForwardInvSuffices, PTL DEF ForwardSpec

(* grpc-handler.ts: the streams counted active are those that are not       *)
(* settled, and the sessions that are open are known, but for those that a  *)
(* later one displaced.                                                     *)
THEOREM GrpcIsSound == GrpcSpec => [](GrpcTypeOK /\ SessionsTracked)
<1> QED BY InitGrpc, NextKeepsGrpc, GrpcInvSuffices, PTL DEF GrpcSpec

(* grpc-web-handler.ts: the requests counted active are those that are not  *)
(* settled.                                                                 *)
THEOREM WebTypes == WebSpec => []WebTypeOK
<1> QED BY InitWeb, NextKeepsWeb, PTL DEF WebSpec

(* MCConnections: a component moves as it does by itself, or stands still.  *)
ConnectionsInv == TunnelInv /\ ForwardInv /\ GrpcInv /\ WebTypeOK

LEMMA ConnectionsInvHolds == Spec => []ConnectionsInv
<1>1. Init => ConnectionsInv
  BY InitTunnels, InitForward, InitGrpc, InitWeb DEF Init, ConnectionsInv
<1>2. ConnectionsInv /\ [Next]_connectionsVars => ConnectionsInv'
  <2> SUFFICES ASSUME ConnectionsInv, [Next]_connectionsVars PROVE ConnectionsInv'
    OBVIOUS
  <2>1. /\ [TunnelNext]_tunnelVars /\ [ForwardNext]_forwardVars
        /\ [GrpcNext]_grpcVars /\ [WebNext]_webVars
    BY DEF Next, connectionsVars
  <2> QED BY <2>1, NextKeepsTunnels, NextKeepsForward, NextKeepsGrpc, NextKeepsWeb DEF ConnectionsInv
<1> QED BY <1>1, <1>2, PTL DEF Spec

(* All that the run checks of the four at every state: the bounds of the    *)
(* pool and of the counters, paired sockets, an audit log that agrees with  *)
(* what the clients saw, and sessions that are known.                       *)
THEOREM ConnectionsAreSound == Spec => [](TypeOK /\ SocketsPaired /\ BooksTruthful /\ SessionsTracked)
<1>1. ConnectionsInv => TypeOK /\ SocketsPaired /\ BooksTruthful /\ SessionsTracked
  BY TunnelInvSuffices, ForwardInvSuffices, GrpcInvSuffices
     DEF ConnectionsInv, TypeOK, BooksTruthful
<1> QED BY <1>1, ConnectionsInvHolds, PTL

(* The types of all four: timers that run only where the handler is, and    *)
(* counters that say how much is open.                                      *)
THEOREM TypeCorrect == Spec => []TypeOK
BY ConnectionsAreSound, PTL
=============================================================================
