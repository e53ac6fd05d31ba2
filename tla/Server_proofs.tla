--------------------------- MODULE Server_proofs ----------------------------
(****************************************************************************)
(* The server: its shutdown, for any number of connections; the processes   *)
(* of `run`, for any number of them, started, signalled, killed and held    *)
(* in any order; and the administration, for every pool of rules, every     *)
(* batch and every bound, with the rules that the API edits and the audit   *)
(* log's two sinks.                                                         *)
(****************************************************************************)
EXTENDS ProxyServer, RunCommand, Admin, Allowlist_proofs

(****************************************************************************)
(* The life cycle of the server.                                            *)
(****************************************************************************)
(* Before start() settles there is no traffic, and /ready tells what the    *)
(* server does.                                                             *)
Unstarted ==
    /\ ready <=> listening
    /\ start # "running" => ~listening /\ In("none") = Connections

(* A shutdown that found the server running waits, and never listens again; *)
(* one that came too early did not wait.                                    *)
Ordered ==
    /\ stop # "none" /\ ~early => start = "running" /\ ~listening
    /\ early => stop \in {"admin", "done"}

ServerInv == ServerTypeOK /\ Drained /\ Unstarted /\ Ordered

-----------------------------------------------------------------------------
LEMMA InitServer == ServerInit => ServerInv
<1> SUFFICES ASSUME ServerInit PROVE ServerInv
  OBVIOUS
<1>1. admin \in [Admins -> AdminStates]
  BY DEF ServerInit, AdminStates
<1>2. /\ early \in BOOLEAN /\ adminListening \in BOOLEAN /\ listening \in BOOLEAN
      /\ ready \in BOOLEAN /\ forceTimer \in BOOLEAN
  BY DEF ServerInit
<1>3. ServerTypeOK
  BY <1>1, <1>2 DEF ServerInit, ServerTypeOK, States
<1>4. Drained /\ Unstarted /\ Ordered
  BY DEF ServerInit, Drained, Unstarted, Ordered, In
<1> QED BY <1>3, <1>4 DEF ServerInv

(* start(): its steps open no connection, and only the last one listens.    *)
LEMMA StartKeeps ==
    ASSUME ServerInv, Initialized \/ ListenFails \/ StartAdmin \/ Listen
    PROVE  ServerInv'
<1> USE DEF Initialized, ListenFails, StartAdmin, Listen
<1>1. ServerTypeOK'
  <2>1. adminListening' \in BOOLEAN /\ listening' \in BOOLEAN /\ ready' \in BOOLEAN
    BY DEF ServerInv, ServerTypeOK
  <2> QED BY <2>1 DEF ServerInv, ServerTypeOK
<1>2. Drained'
  BY DEF ServerInv, Drained, Open, In, Ordered
<1>3. Unstarted' /\ Ordered'
  BY DEF ServerInv, ServerTypeOK, Unstarted, Ordered, In
<1> QED BY <1>1, <1>2, <1>3 DEF ServerInv

(* A connection that changes its state: there is one only on a server that  *)
(* has started, and a new one only while it listens.                        *)
LEMMA ConnectionKeeps ==
    ASSUME ServerInv, NEW c \in Connections,
           conn' \in [Connections -> States],
           \A x \in Connections \ {c} : conn'[x] = conn[x],
           conn[c] = "none" => listening,
           conn[c] # "closed",
           cut' \subseteq Connections, stop = "none" => cut' = cut,
           UNCHANGED <<starting, stop, listening, ready, forceTimer, half, admin>>
    PROVE  ServerInv'
<1>1. ServerTypeOK'
  BY DEF ServerInv, ServerTypeOK, starting
<1>2. start = "running"
  BY DEF ServerInv, Unstarted, In
<1>3. Unstarted' /\ Ordered'
  BY <1>2 DEF ServerInv, Unstarted, Ordered, starting
<1>4. stop \in {"admin", "done"} => early
  BY DEF ServerInv, Drained, Open, ServerTypeOK
<1>5. Drained'
  BY <1>4 DEF Drained, starting
<1> QED BY <1>1, <1>3, <1>5 DEF ServerInv

LEMMA TrafficKeeps ==
    ASSUME ServerInv, NEW c \in Connections,
           Accept(c) \/ Request(c) \/ Connect(c) \/ Respond(c) \/ Flushed(c) \/ Closes(c)
    PROVE  ServerInv'
<1> USE DEF Become
<1>0. conn \in [Connections -> States]
  BY DEF ServerInv, ServerTypeOK
<1>1. CASE Accept(c)
  BY <1>0, <1>1, ConnectionKeeps DEF Accept, States, ServerInv, ServerTypeOK
<1>2. CASE Request(c)
  BY <1>0, <1>2, ConnectionKeeps DEF Request, States, ServerInv, ServerTypeOK
<1>3. CASE Connect(c)
  BY <1>0, <1>3, ConnectionKeeps DEF Connect, States, ServerInv, ServerTypeOK
<1>4. CASE Respond(c)
  <2>1. cut' \subseteq Connections /\ (stop = "none" => cut' = cut)
    BY <1>4 DEF Respond, ServerInv, ServerTypeOK
  <2> QED BY <1>0, <1>4, <2>1, ConnectionKeeps DEF Respond, States
<1>5. CASE Flushed(c)
  BY <1>0, <1>5, ConnectionKeeps DEF Flushed, States, ServerInv, ServerTypeOK
<1>6. CASE Closes(c)
  BY <1>0, <1>6, ConnectionKeeps DEF Closes, Open, States, ServerInv, ServerTypeOK
<1> QED BY <1>1, <1>2, <1>3, <1>4, <1>5, <1>6

(* The connections of the admin server are nobody else's.                   *)
LEMMA AdminKeeps ==
    ASSUME ServerInv, NEW a \in Admins,
           \/ AdminConnects(a) \/ AdminBegins(a) \/ AdminRequest(a)
           \/ AdminAnswers(a) \/ AdminCloses(a)
    PROVE  ServerInv'
<1>1. PICK state \in AdminStates : AdminBecomes(a, state)
  BY DEF AdminConnects, AdminBegins, AdminRequest, AdminAnswers, AdminCloses, AdminStates
<1>2. admin' \in [Admins -> AdminStates]
  BY <1>1 DEF AdminBecomes, ServerInv, ServerTypeOK
<1>3. UNCHANGED <<starting, stop, listening, ready, forceTimer, conn, half, cut>>
  BY <1>1 DEF AdminBecomes
<1> QED BY <1>2, <1>3 DEF ServerInv, ServerTypeOK, Drained, Unstarted, Ordered, Open, In, starting

LEMMA CloseAdminKeeps ==
    ASSUME ServerInv, CloseAdmin
    PROVE  admin' \in [Admins -> AdminStates] /\ adminListening' \in BOOLEAN
BY DEF CloseAdmin, ServerInv, ServerTypeOK, AdminStates

-----------------------------------------------------------------------------
LEMMA StopKeeps == ASSUME ServerInv, Stop PROVE ServerInv'
<1>1. conn' \in [Connections -> States]
  BY DEF Stop, ServerInv, ServerTypeOK, States
<1>2. half' \subseteq Connections /\ cut' \subseteq Connections
  BY DEF Stop, In
<1>3. ServerTypeOK'
  BY <1>1, <1>2 DEF Stop, ServerInv, ServerTypeOK, starting
<1>4. Unstarted' /\ Ordered' /\ Drained'
  BY DEF Stop, ServerInv, Unstarted, Ordered, Drained, starting
<1> QED BY <1>3, <1>4 DEF ServerInv

LEMMA StopEarlyKeeps == ASSUME ServerInv, StopEarly PROVE ServerInv'
<1>1. ServerTypeOK'
  BY CloseAdminKeeps DEF StopEarly, ServerInv, ServerTypeOK
<1>2. Unstarted' /\ Ordered'
  BY DEF StopEarly, ServerInv, Unstarted, Ordered, In
<1>3. Drained'
  BY DEF StopEarly, ServerInv, Unstarted, Drained, In
<1> QED BY <1>1, <1>2, <1>3 DEF ServerInv

(* The wait ends with nothing open: the timer has cut it off, or the server *)
(* says so.                                                                 *)
LEMMA WaitEndsDrained ==
    ASSUME ServerInv, ForceShutdown \/ Drain
    PROVE  ServerInv'
<1>1. stop = "draining" /\ ~early /\ start = "running" /\ ~listening /\ ~ready
  BY DEF ForceShutdown, Drain, ServerInv, ServerTypeOK, Ordered, Unstarted
<1>2. conn' \in [Connections -> States] /\ Open' = {}
  BY DEF ForceShutdown, Drain, ServerInv, ServerTypeOK, States, Open
<1>3. ServerTypeOK'
  BY <1>1, <1>2, CloseAdminKeeps DEF ForceShutdown, Drain, ServerInv, ServerTypeOK
<1>4. Unstarted' /\ Ordered' /\ Drained'
  BY <1>1, <1>2 DEF ForceShutdown, Drain, Unstarted, Ordered, Drained
<1> QED BY <1>3, <1>4 DEF ServerInv

LEMMA AdminStopsKeeps == ASSUME ServerInv, AdminStops PROVE ServerInv'
BY DEF AdminStops, ServerInv, ServerTypeOK, Unstarted, Ordered, Drained, Open, In, starting

LEMMA NextKeepsServer == ServerInv /\ [ServerNext]_serverVars => ServerInv'
<1> SUFFICES ASSUME ServerInv, [ServerNext]_serverVars PROVE ServerInv'
  OBVIOUS
<1>1. CASE Initialized \/ ListenFails \/ StartAdmin \/ Listen
  BY <1>1, StartKeeps
<1>2. ASSUME NEW c \in Connections,
             Accept(c) \/ Request(c) \/ Connect(c) \/ Respond(c) \/ Flushed(c) \/ Closes(c)
      PROVE  ServerInv'
  BY <1>2, TrafficKeeps
<1>3. ASSUME NEW a \in Admins,
             \/ AdminConnects(a) \/ AdminBegins(a) \/ AdminRequest(a)
             \/ AdminAnswers(a) \/ AdminCloses(a)
      PROVE  ServerInv'
  BY <1>3, AdminKeeps
<1>4. CASE Stop
  BY <1>4, StopKeeps
<1>5. CASE StopEarly
  BY <1>5, StopEarlyKeeps
<1>6. CASE ForceShutdown \/ Drain
  BY <1>6, WaitEndsDrained
<1>7. CASE AdminStops
  BY <1>7, AdminStopsKeeps
<1>8. CASE UNCHANGED serverVars
  BY <1>8 DEF serverVars, starting, ServerInv, ServerTypeOK, Unstarted, Ordered, Drained, Open, In
<1> QED BY <1>1, <1>2, <1>3, <1>4, <1>5, <1>6, <1>7, <1>8 DEF ServerNext

LEMMA ServerInvHolds == ServerSpec => []ServerInv
BY InitServer, NextKeepsServer, PTL DEF ServerSpec

(* server.ts: the types; the force timer runs only while stop() waits, and  *)
(* no connection is half closed or loses its answer before stop().          *)
THEOREM ServerTypes == ServerSpec => []ServerTypeOK
<1>1. ServerInv => ServerTypeOK
  BY DEF ServerInv
<1> QED BY ServerInvHolds, <1>1, PTL

(* When a stop() that found the proxy started is past its wait, no          *)
(* connection is open, and the proxy neither listens nor says it is ready.  *)
THEOREM ShutdownDrains == ServerSpec => []Drained
<1>1. ServerInv => Drained
  BY DEF ServerInv
<1> QED BY ServerInvHolds, <1>1, PTL

(****************************************************************************)
(* The processes of `run`.                                                  *)
(****************************************************************************)
RunInv == RunTypeOK /\ PidfileNamesRun /\ NoChildLeft

(* A process moves on alone.                                                *)
Moves(p, to) == /\ pc' = [pc EXCEPT ![p] = to]
                /\ pc'[p] = to
                /\ \A q \in Runs \ {p} : pc'[q] = pc[q]

-----------------------------------------------------------------------------
LEMMA InitRun == RunInit => RunInv
BY RunAssumption DEF RunInit, RunInv, RunTypeOK, PidfileNamesRun, NoChildLeft, Ended

LEMMA GotoMoves ==
    ASSUME RunInv, NEW p \in Runs, NEW to, Goto(p, to) PROVE Moves(p, to)
BY DEF RunInv, RunTypeOK, Goto, Moves

(* Up to its start a process has no child and is not in the pidfile.        *)
LEMMA BeforeStartKeeps ==
    ASSUME RunInv, NEW p \in Runs,
           CheckForLiveRun(p) \/ RemoveStale(p) \/ StartThrows(p) \/ StartSticks(p)
    PROVE  RunInv'
<1>1. /\ pc[p] \in {"new", "stale", "starting"}
      /\ pc' \in [Runs -> {"new", "stale", "starting", "stuck", "withdrawing", "running",
                           "stopping"} \union Ended]
      /\ \A q \in Runs \ {p} : pc'[q] = pc[q]
      /\ pidfile' \in {pidfile, Nobody}
      /\ UNCHANGED <<requested, forwarded, killTimer, child, held>>
  BY DEF CheckForLiveRun, RemoveStale, StartThrows, StartSticks, Goto, RunInv, RunTypeOK, Ended
<1>2. pidfile # p /\ p \notin killTimer /\ child[p] = "none"
  BY <1>1, RunAssumption DEF RunInv, RunTypeOK, PidfileNamesRun
<1>3. RunTypeOK'
  BY <1>1, <1>2 DEF RunInv, RunTypeOK
<1>4. PidfileNamesRun' /\ NoChildLeft'
  BY <1>1, <1>2 DEF RunInv, RunTypeOK, PidfileNamesRun, NoChildLeft
<1> QED BY <1>3, <1>4 DEF RunInv

(* The one that was signalled meanwhile returns before it spawns; the other *)
(* one is up when its name gets into the pidfile.                           *)
LEMMA StartedKeeps ==
    ASSUME RunInv, NEW p \in Runs, Started(p) PROVE RunInv'
<1>1. /\ pidfile # p /\ p \notin killTimer /\ child[p] = "none"
      /\ UNCHANGED <<requested, forwarded, killTimer, held>>
  BY RunAssumption DEF Started, RunInv, RunTypeOK, PidfileNamesRun
<1>2. CASE p \in requested
  <2>1. Moves(p, "withdrawing") /\ UNCHANGED <<pidfile, child>>
    BY <1>2, GotoMoves DEF Started
  <2> QED BY <1>1, <2>1 DEF RunInv, RunTypeOK, PidfileNamesRun, NoChildLeft, Ended, Moves
<1>3. CASE p \notin requested
  <2>1. Moves(p, "running") /\ pidfile' = p
    BY <1>3, GotoMoves DEF Started
  <2>2. /\ child' \in [Runs -> {"none", "alive", "killed", "gone"}]
        /\ \A q \in Runs \ {p} : child'[q] = child[q]
    BY <1>3 DEF Started, RunInv, RunTypeOK
  <2>3. RunTypeOK'
    <3>1. pc' \in [Runs -> {"new", "stale", "starting", "stuck", "withdrawing", "running",
                             "stopping"} \union Ended]
      BY <2>1 DEF RunInv, RunTypeOK, Moves
    <3>2. \A q \in Runs : /\ q \in killTimer' => pc'[q] \in {"running", "stopping"}
                          /\ child'[q] # "none" => pc'[q] \in {"running", "stopping", "exited", "dead"}
      BY <1>1, <2>1, <2>2 DEF RunInv, RunTypeOK, Moves
    <3> QED BY <1>1, <2>1, <2>2, <3>1, <3>2 DEF RunInv, RunTypeOK
  <2>4. PidfileNamesRun'
    BY <2>1 DEF PidfileNamesRun, Moves
  <2>5. NoChildLeft'
    BY <2>1, <2>2 DEF RunInv, NoChildLeft, Moves
  <2> QED BY <2>3, <2>4, <2>5 DEF RunInv
<1> QED BY <1>2, <1>3

LEMMA WithdrawKeeps ==
    ASSUME RunInv, NEW p \in Runs, Withdraw(p) PROVE RunInv'
<1>1. /\ Moves(p, "exited") /\ pc[p] = "withdrawing" /\ child[p] = "none"
      /\ UNCHANGED <<pidfile, requested, forwarded, killTimer, child, held>>
  BY GotoMoves DEF Withdraw, RunInv, RunTypeOK
<1>2. pidfile # p
  BY <1>1, RunAssumption DEF RunInv, PidfileNamesRun
<1> QED BY <1>1, <1>2 DEF RunInv, RunTypeOK, PidfileNamesRun, NoChildLeft, Ended, Moves

-----------------------------------------------------------------------------
(* Signals and timers kill a child that is alive, and only such.            *)
LEMMA SignalKeeps ==
    ASSUME RunInv, NEW p \in Runs, SignalEarly(p) \/ SignalRunning(p) \/ GraceEnds(p)
    PROVE  RunInv'
<1>1. /\ UNCHANGED <<pidfile, pc, held>>
      /\ requested' \subseteq Runs /\ forwarded' \subseteq requested'
      /\ killTimer' \subseteq forwarded'
      /\ \A q \in killTimer' : q \in killTimer \/ pc[q] \in {"running", "stopping"}
  BY DEF SignalEarly, SignalRunning, GraceEnds, RunInv, RunTypeOK
<1>2. /\ child' \in [Runs -> {"none", "alive", "killed", "gone"}]
      /\ \A q \in Runs : child'[q] # child[q] => child[q] = "alive" /\ child'[q] = "killed"
  BY DEF SignalEarly, SignalRunning, GraceEnds, RunInv, RunTypeOK
<1> QED BY <1>1, <1>2 DEF RunInv, RunTypeOK, PidfileNamesRun, NoChildLeft

LEMMA ChildExitsKeeps ==
    ASSUME RunInv, NEW p \in Runs, ChildExits(p) PROVE RunInv'
<1>1. /\ child' \in [Runs -> {"none", "alive", "killed", "gone"}]
      /\ child'[p] = "gone" /\ \A q \in Runs \ {p} : child'[q] = child[q]
      /\ UNCHANGED <<pidfile, pc, requested, forwarded, killTimer, held>>
  BY DEF ChildExits, RunInv, RunTypeOK
<1> QED BY <1>1 DEF ChildExits, RunInv, RunTypeOK, PidfileNamesRun, NoChildLeft

(* A process stops its server when its child is gone, and takes its name out*)
(* of the pidfile before it returns.                                        *)
LEMMA FinalizeKeeps ==
    ASSUME RunInv, NEW p \in Runs, Finalize(p) PROVE RunInv'
<1>1. /\ Moves(p, "stopping") /\ child[p] = "gone" /\ pc[p] = "running"
      /\ killTimer' = killTimer \ {p}
      /\ UNCHANGED <<pidfile, requested, forwarded, child, held>>
  BY GotoMoves DEF Finalize
<1> QED BY <1>1 DEF RunInv, RunTypeOK, PidfileNamesRun, NoChildLeft, Ended, Moves

LEMMA ExitKeeps ==
    ASSUME RunInv, NEW p \in Runs, Exit(p) PROVE RunInv'
<1>1. /\ Moves(p, "exited") /\ pc[p] = "stopping" /\ pidfile' = Nobody
      /\ killTimer' = killTimer \ {p}
      /\ UNCHANGED <<requested, forwarded, child, held>>
  BY GotoMoves DEF Exit
<1> QED BY <1>1 DEF RunInv, RunTypeOK, PidfileNamesRun, NoChildLeft, Ended, Moves

LEMMA DiesKeeps ==
    ASSUME RunInv, NEW p \in Runs, Dies(p) PROVE RunInv'
<1>1. /\ Moves(p, "dead") /\ pc[p] \notin {"new"} \union Ended
      /\ killTimer' = killTimer \ {p} /\ held' = held \ {p}
      /\ UNCHANGED <<pidfile, requested, forwarded, child>>
  BY GotoMoves DEF Dies, Alive
<1> QED BY <1>1 DEF RunInv, RunTypeOK, PidfileNamesRun, NoChildLeft, Ended, Moves

LEMMA ClientsKeepRun ==
    ASSUME RunInv, TailStarts \/ \E p \in Runs : ClientConnects(p) \/ ClientsLeave(p)
    PROVE  RunInv'
<1>1. held' \subseteq Runs /\ UNCHANGED <<pidfile, pc, requested, forwarded, killTimer, child>>
  BY DEF TailStarts, ClientConnects, ClientsLeave, RunInv, RunTypeOK
<1> QED BY <1>1 DEF RunInv, RunTypeOK, PidfileNamesRun, NoChildLeft

LEMMA NextKeepsRun == RunInv /\ [RunNext]_runVars => RunInv'
<1> SUFFICES ASSUME RunInv, [RunNext]_runVars PROVE RunInv'
  OBVIOUS
<1>1. ASSUME NEW p \in Runs,
             CheckForLiveRun(p) \/ RemoveStale(p) \/ StartThrows(p) \/ StartSticks(p)
      PROVE  RunInv'
  BY <1>1, BeforeStartKeeps
<1>2. ASSUME NEW p \in Runs, Started(p) PROVE RunInv'
  BY <1>2, StartedKeeps
<1>3. ASSUME NEW p \in Runs, SignalEarly(p) \/ SignalRunning(p) \/ GraceEnds(p)
      PROVE  RunInv'
  BY <1>3, SignalKeeps
<1>4. ASSUME NEW p \in Runs, ChildExits(p) PROVE RunInv'
  BY <1>4, ChildExitsKeeps
<1>5. ASSUME NEW p \in Runs, Finalize(p) PROVE RunInv'
  BY <1>5, FinalizeKeeps
<1>6. ASSUME NEW p \in Runs, Exit(p) PROVE RunInv'
  BY <1>6, ExitKeeps
<1>7. ASSUME NEW p \in Runs, Dies(p) PROVE RunInv'
  BY <1>7, DiesKeeps
<1>8. CASE TailStarts \/ \E p \in Runs : ClientConnects(p) \/ ClientsLeave(p)
  BY <1>8, ClientsKeepRun
<1>9. ASSUME NEW p \in Runs, Withdraw(p) PROVE RunInv'
  BY <1>9, WithdrawKeeps
<1>10. CASE UNCHANGED runVars
  BY <1>10 DEF runVars, RunInv, RunTypeOK, PidfileNamesRun, NoChildLeft
<1> QED BY <1>1, <1>2, <1>3, <1>4, <1>5, <1>6, <1>7, <1>8, <1>9, <1>10 DEF RunNext

LEMMA RunInvHolds == RunSpec => []RunInv
BY InitRun, NextKeepsRun, PTL DEF RunSpec

(* run.ts: the types; only a process that has started has a child, and its  *)
(* kill timer runs only until it returns.                                   *)
THEOREM RunTypes == RunSpec => []RunTypeOK
<1>1. RunInv => RunTypeOK
  BY DEF RunInv
<1> QED BY RunInvHolds, <1>1, PTL

(* A reader of the pidfile finds a proxy that is up, or one that died: none *)
(* that is still starting, that was refused, or that returned.              *)
THEOREM PidfileIsSound == RunSpec => []PidfileNamesRun
<1>1. RunInv => PidfileNamesRun
  BY DEF RunInv
<1> QED BY RunInvHolds, <1>1, PTL

(* A process that stops its server or that returned, on whichever way, has  *)
(* no child that still runs.                                                *)
THEOREM ChildEndsFirst == RunSpec => []NoChildLeft
<1>1. RunInv => NoChildLeft
  BY DEF RunInv
<1> QED BY RunInvHolds, <1>1, PTL

(****************************************************************************)
(* The administration.                                                      *)
(****************************************************************************)
-----------------------------------------------------------------------------
(* The rules API.  What it keeps true of the list of rules: every one is as *)
(* validateRule lets it in, and no two share an id.                         *)
ValidRules(rs) ==
    /\ rs \in Seq(ToSet(rs))
    /\ \A i \in DOMAIN rs : IsRule(rs[i])
    /\ \A i, j \in DOMAIN rs : rs[i].id = rs[j].id => i = j

RulesInv == ValidRules(rules) /\ limiters = LimitedIds(rules)

(* A new rule with an id of its own.                                        *)
LEMMA AppendKeepsRules ==
    ASSUME NEW rs, NEW x, ValidRules(rs), IsRule(x), ~HasId(rs, x.id)
    PROVE  ValidRules(Append(rs, x))
<1>1. rs \in Seq(ToSet(rs))
  BY DEF ValidRules
<1>2. Len(rs) \in Nat /\ DOMAIN rs = 1..Len(rs)
  BY <1>1
<1> DEFINE longer == Append(rs, x)
           S == ToSet(rs) \union {x}
<1>3. rs \in Seq(S)
  <2>1. \A i \in 1..Len(rs) : rs[i] \in S
    BY <1>2 DEF ToSet
  <2> QED BY <1>1, <2>1
<1>4. /\ longer \in Seq(S) /\ Len(longer) = Len(rs) + 1
      /\ \A i \in 1..Len(rs) : longer[i] = rs[i]
      /\ longer[Len(rs) + 1] = x
  BY <1>3, AppendProperties
<1> HIDE DEF longer, S
<1>5. DOMAIN longer = 1..(Len(rs) + 1)
  BY <1>4
<1>6. longer \in Seq(ToSet(longer))
  BY <1>4 DEF ToSet
<1>7. \A i \in DOMAIN longer : (i \in DOMAIN rs /\ longer[i] = rs[i]) \/ (i = Len(rs) + 1 /\ longer[i] = x)
  BY <1>2, <1>4, <1>5
<1>8. \A i \in DOMAIN rs : rs[i].id # x.id
  BY DEF HasId, ToSet
<1>9. \A i \in DOMAIN longer : IsRule(longer[i])
  BY <1>7 DEF ValidRules
<1>10. \A i, j \in DOMAIN longer : longer[i].id = longer[j].id => i = j
  BY <1>7, <1>8 DEF ValidRules
<1> QED BY <1>6, <1>9, <1>10 DEF ValidRules, longer

(* A rule that is updated keeps its id and stays valid.                     *)
LEMMA MergeKeepsRule ==
    ASSUME NEW x, NEW updates, IsRule(x), IsUpdate(updates)
    PROVE  IsRule(Merge(x, updates)) /\ Merge(x, updates).id = x.id
<1> DEFINE y == Merge(x, updates)
<1>1. DOMAIN y = DOMAIN x
  BY DEF Merge
<1>2. "id" \in DOMAIN x /\ "kind" \in DOMAIN x /\ "base" \in DOMAIN x
  BY DEF IsRule
<1>3. y.id = x.id
  BY <1>2 DEF Merge
<1>4. y.kind \in {"exact", "star", "deep"}
  <2>1. y.kind = IF "kind" \in DOMAIN updates THEN updates.kind ELSE x.kind
    BY <1>2 DEF Merge
  <2> HIDE DEF y
  <2> QED BY <2>1 DEF IsRule, IsUpdate
<1>5. IsHost(y.base)
  <2>1. y.base = IF "base" \in DOMAIN updates THEN updates.base ELSE x.base
    BY <1>2 DEF Merge
  <2> HIDE DEF y
  <2> QED BY <2>1 DEF IsRule, IsUpdate
<1> QED BY <1>1, <1>3, <1>4, <1>5 DEF IsRule

LEMMA UpdatedKeepsRules ==
    ASSUME NEW rs, NEW id, NEW updates, ValidRules(rs), IsUpdate(updates)
    PROVE  ValidRules(Updated(rs, id, updates))
<1> DEFINE new == Updated(rs, id, updates)
<1>1. rs \in Seq(ToSet(rs)) /\ DOMAIN rs = 1..Len(rs) /\ Len(rs) \in Nat
  BY DEF ValidRules
<1>2. DOMAIN new = DOMAIN rs
  BY DEF Updated
<1>3. \A i \in DOMAIN rs : IsRule(new[i]) /\ new[i].id = rs[i].id
  <2> TAKE i \in DOMAIN rs
  <2>1. new[i] = IF rs[i].id = id THEN Merge(rs[i], updates) ELSE rs[i]
    BY DEF Updated
  <2>2. IsRule(rs[i])
    BY DEF ValidRules
  <2>3. IsRule(Merge(rs[i], updates)) /\ Merge(rs[i], updates).id = rs[i].id
    BY <2>2, MergeKeepsRule
  <2> HIDE DEF new
  <2> QED BY <2>1, <2>2, <2>3
<1>4. new \in [1..Len(rs) -> ToSet(new)]
  <2>1. new = [i \in 1..Len(rs) |-> IF rs[i].id = id THEN Merge(rs[i], updates) ELSE rs[i]]
    BY <1>1 DEF Updated
  <2>2. \A i \in 1..Len(rs) : new[i] \in ToSet(new)
    BY <1>1, <1>2 DEF ToSet
  <2> QED BY <2>1, <2>2
<1> HIDE DEF new
<1>5. new \in Seq(ToSet(new))
  BY <1>1, <1>4
<1> QED BY <1>2, <1>3, <1>5 DEF ValidRules, new

-----------------------------------------------------------------------------
(* The recursion by which Without filters the rules.                        *)
LEMMA WithoutFilters ==
    ASSUME NEW rs, NEW id, rs \in Seq(ToSet(rs))
    PROVE  \E f : /\ Without(rs, id) = f[Len(rs)]
                  /\ f[0] = <<>>
                  /\ \A i \in 1..Len(rs) :
                        f[i] = IF rs[i].id = id THEN f[i - 1] ELSE Append(f[i - 1], rs[i])
<1> DEFINE Step(g, i) == IF i = 0 THEN <<>> ELSE IF rs[i].id = id THEN g[i - 1]
                                            ELSE Append(g[i - 1], rs[i])
           P(g) == g = [i \in 0..Len(rs) |-> Step(g, i)]
           T == {n \in Nat : \E g : g = [i \in 0..n |-> Step(g, i)]}
<1>1. 0 \in T
  <2> DEFINE g == [i \in 0..0 |-> <<>>]
  <2>1. g = [i \in 0..0 |-> Step(g, i)]
    OBVIOUS
  <2> QED BY <2>1
<1>2. ASSUME NEW n \in Nat, n \in T PROVE n + 1 \in T
  <2>1. PICK g : g = [i \in 0..n |-> Step(g, i)]
    BY <1>2
  <2> DEFINE h == [i \in 0..(n + 1) |-> IF i <= n THEN g[i] ELSE Step(g, n + 1)]
  <2>2. \A i \in 0..n : g[i] = Step(g, i)
    <3> HIDE DEF Step
    <3> QED BY <2>1
  <2>3. \A i \in 0..(n + 1) : h[i] = Step(h, i)
    <3>1. \A i \in 0..n : h[i] = g[i]
      <4> HIDE DEF Step
      <4> QED OBVIOUS
    <3>2. h[n + 1] = Step(g, n + 1)
      <4> HIDE DEF Step
      <4> QED OBVIOUS
    <3> HIDE DEF h
    <3> TAKE i \in 0..(n + 1)
    <3>3. CASE i = 0
      <4>1. h[0] = g[0] /\ g[0] = <<>>
        BY <2>2, <3>1
      <4> QED BY <3>3, <4>1
    <3>4. CASE i # 0
      <4>1. i - 1 \in 0..n /\ (i \in 0..n \/ i = n + 1)
        BY <3>4
      <4>2. h[i] = Step(g, i)
        <5> HIDE DEF Step
        <5> QED BY <2>2, <3>1, <3>2, <4>1
      <4>3. h[i - 1] = g[i - 1]
        BY <3>1, <4>1
      <4> QED BY <3>4, <4>2, <4>3
    <3> QED BY <3>3, <3>4
  <2>4. h = [i \in 0..(n + 1) |-> Step(h, i)]
    <3>1. h = [i \in 0..(n + 1) |-> h[i]]
      OBVIOUS
    <3> HIDE DEF h, Step
    <3> QED BY <2>3, <3>1
  <2> HIDE DEF h, Step
  <2> QED BY <2>4
<1>3. Len(rs) \in Nat
  OBVIOUS
<1>4. \E g : P(g)
  <2>1. Len(rs) \in T
    <3> HIDE DEF T
    <3> QED BY <1>1, <1>2, <1>3, InductionOnNat
  <2> HIDE DEF Step
  <2> QED BY <2>1
<1>5. Without(rs, id) = (CHOOSE g : P(g))[Len(rs)]
  BY Zenon DEF Without
<1> DEFINE f == CHOOSE g : P(g)
<1>6. P(f)
  <2> HIDE DEF P
  <2> QED BY <1>4
<1> HIDE DEF f
<1>7. f[0] = <<>> /\ \A i \in 1..Len(rs) :
          f[i] = IF rs[i].id = id THEN f[i - 1] ELSE Append(f[i - 1], rs[i])
  <2>1. \A i \in 0..Len(rs) : f[i] = Step(f, i)
    <3> HIDE DEF Step
    <3> QED BY <1>6
  <2> QED BY <1>3, <2>1
<1> QED BY <1>5, <1>7 DEF f

(* What is left of the rules without one of them.                           *)
LEMMA WithoutKeepsRules ==
    ASSUME NEW rs, NEW id, ValidRules(rs)
    PROVE  ValidRules(Without(rs, id))
<1>1. rs \in Seq(ToSet(rs)) /\ DOMAIN rs = 1..Len(rs) /\ Len(rs) \in Nat
  BY DEF ValidRules
<1>2. PICK f : /\ Without(rs, id) = f[Len(rs)]
               /\ f[0] = <<>>
               /\ \A i \in 1..Len(rs) :
                     f[i] = IF rs[i].id = id THEN f[i - 1] ELSE Append(f[i - 1], rs[i])
  BY <1>1, WithoutFilters
<1> DEFINE Filtered(s, n) ==
               /\ ValidRules(s)
               /\ \A i \in DOMAIN s : \E j \in 1..n : s[i] = rs[j]
           T == {n \in Nat : n <= Len(rs) => Filtered(f[n], n)}
<1>3. 0 \in T
  <2>1. ValidRules(<<>>)
    BY DEF ValidRules
  <2> QED BY <1>2, <2>1
<1>4. ASSUME NEW n \in Nat, n \in T PROVE n + 1 \in T
  <2> SUFFICES ASSUME n + 1 <= Len(rs) PROVE Filtered(f[n + 1], n + 1)
    OBVIOUS
  <2>1. Filtered(f[n], n)
    BY <1>1, <1>4
  <2>2. n + 1 \in 1..Len(rs) /\ (n + 1) - 1 = n
    BY <1>1
  <2>3. f[n + 1] = IF rs[n + 1].id = id THEN f[n] ELSE Append(f[n], rs[n + 1])
    BY <1>2, <2>2
  <2>4. CASE rs[n + 1].id = id
    <3>1. f[n + 1] = f[n]
      BY <2>3, <2>4
    <3> HIDE DEF Filtered
    <3>2. Filtered(f[n], n + 1)
      BY <2>1 DEF Filtered
    <3> QED BY <3>1, <3>2
  <2>5. CASE rs[n + 1].id # id
    <3>1. f[n + 1] = Append(f[n], rs[n + 1])
      BY <2>3, <2>5
    <3>2. IsRule(rs[n + 1])
      BY <1>1, <2>2 DEF ValidRules
    <3>3. ~HasId(f[n], rs[n + 1].id)
      <4>1. \A j \in 1..n : rs[j].id # rs[n + 1].id
        BY <1>1, <2>2 DEF ValidRules
      <4>2. \A i \in DOMAIN f[n] : f[n][i].id # rs[n + 1].id
        BY <2>1, <4>1
      <4> QED BY <4>2 DEF HasId, ToSet
    <3>4. ValidRules(Append(f[n], rs[n + 1]))
      BY <2>1, <3>2, <3>3, AppendKeepsRules
    <3>5. f[n] \in Seq(ToSet(f[n]))
      BY <2>1 DEF ValidRules
    <3>6. \A i \in DOMAIN Append(f[n], rs[n + 1]) :
              \E j \in 1..(n + 1) : Append(f[n], rs[n + 1])[i] = rs[j]
      <4>1. DOMAIN Append(f[n], rs[n + 1]) = 1..(Len(f[n]) + 1) /\ Len(f[n]) \in Nat
        BY <3>5
      <4>2. \A i \in 1..Len(f[n]) : Append(f[n], rs[n + 1])[i] = f[n][i] /\ i \in DOMAIN f[n]
        BY <3>5
      <4>3. Append(f[n], rs[n + 1])[Len(f[n]) + 1] = rs[n + 1]
        BY <3>5
      <4>4. \A i \in 1..Len(f[n]) : \E j \in 1..(n + 1) : Append(f[n], rs[n + 1])[i] = rs[j]
        <5> TAKE i \in 1..Len(f[n])
        <5>1. PICK j \in 1..n : f[n][i] = rs[j]
          BY <2>1, <4>2
        <5>2. j \in 1..(n + 1)
          OBVIOUS
        <5> QED BY <4>2, <5>1, <5>2
      <4>5. \A i \in 1..(Len(f[n]) + 1) : i \in 1..Len(f[n]) \/ i = Len(f[n]) + 1
        BY <4>1
      <4>6. n + 1 \in 1..(n + 1)
        OBVIOUS
      <4> QED BY <4>1, <4>3, <4>4, <4>5, <4>6
    <3> QED BY <3>1, <3>4, <3>6
  <2> QED BY <2>4, <2>5
<1>5. Len(rs) \in T
  <2> HIDE DEF T
  <2> QED BY <1>1, <1>3, <1>4, InductionOnNat
<1> QED BY <1>1, <1>2, <1>5

-----------------------------------------------------------------------------
(* One operation of a batch: what it cannot do it leaves as it was.         *)
LEMMA OperationKeepsRules ==
    ASSUME NEW rs, NEW op, ValidRules(rs), IsOperation(op)
    PROVE  ValidRules(ExecuteBatchOperation(rs, op))
<1>1. CASE OperationFails(rs, op)
  BY <1>1 DEF ExecuteBatchOperation
<1>2. CASE ~OperationFails(rs, op) /\ op.operation = "create"
  <2>1. ExecuteBatchOperation(rs, op) = Append(rs, op.rule)
    BY <1>2 DEF ExecuteBatchOperation
  <2>2. IsRule(op.rule) /\ ~HasId(rs, op.rule.id)
    BY <1>2 DEF OperationFails, IsOperation
  <2> QED BY <2>1, <2>2, AppendKeepsRules
<1>3. CASE ~OperationFails(rs, op) /\ op.operation = "update"
  <2>1. ExecuteBatchOperation(rs, op) = Updated(rs, op.ruleId, op.rule)
    BY <1>3 DEF ExecuteBatchOperation
  <2>2. IsUpdate(op.rule)
    BY <1>3 DEF IsOperation
  <2> QED BY <2>1, <2>2, UpdatedKeepsRules
<1>4. CASE ~OperationFails(rs, op) /\ op.operation = "delete"
  <2>1. ExecuteBatchOperation(rs, op) = Without(rs, op.ruleId)
    BY <1>4 DEF ExecuteBatchOperation
  <2> QED BY <2>1, WithoutKeepsRules
<1> QED BY <1>1, <1>2, <1>3, <1>4 DEF IsOperation

(* The rules after every operation of a batch, and after the batch.         *)
IsBatchRun(f, rs, ops) ==
    /\ BatchResult(rs, ops) = f[Len(ops)]
    /\ f[0] = rs
    /\ \A i \in 1..Len(ops) : f[i] = ExecuteBatchOperation(f[i - 1], ops[i])

LEMMA BatchGoesOn ==
    ASSUME NEW rs, NEW ops, Len(ops) \in Nat
    PROVE  \E f : IsBatchRun(f, rs, ops)
<1> DEFINE Step(g, i) == IF i = 0 THEN rs ELSE ExecuteBatchOperation(g[i - 1], ops[i])
           P(g) == g = [i \in 0..Len(ops) |-> Step(g, i)]
           T == {n \in Nat : \E g : g = [i \in 0..n |-> Step(g, i)]}
<1>1. 0 \in T
  <2> DEFINE g == [i \in 0..0 |-> rs]
  <2>1. g = [i \in 0..0 |-> Step(g, i)]
    OBVIOUS
  <2> QED BY <2>1
<1>2. ASSUME NEW n \in Nat, n \in T PROVE n + 1 \in T
  <2>1. PICK g : g = [i \in 0..n |-> Step(g, i)]
    BY <1>2
  <2> DEFINE h == [i \in 0..(n + 1) |-> IF i <= n THEN g[i] ELSE Step(g, n + 1)]
  <2>2. \A i \in 0..n : g[i] = Step(g, i)
    <3> HIDE DEF Step
    <3> QED BY <2>1
  <2>3. \A i \in 0..(n + 1) : h[i] = Step(h, i)
    <3>1. \A i \in 0..n : h[i] = g[i]
      <4> HIDE DEF Step
      <4> QED OBVIOUS
    <3>2. h[n + 1] = Step(g, n + 1)
      <4> HIDE DEF Step
      <4> QED OBVIOUS
    <3> HIDE DEF h
    <3> TAKE i \in 0..(n + 1)
    <3>3. CASE i = 0
      <4>1. h[0] = g[0] /\ g[0] = rs
        BY <2>2, <3>1
      <4> QED BY <3>3, <4>1
    <3>4. CASE i # 0
      <4>1. i - 1 \in 0..n /\ (i \in 0..n \/ i = n + 1)
        BY <3>4
      <4>2. h[i] = Step(g, i)
        <5> HIDE DEF Step
        <5> QED BY <2>2, <3>1, <3>2, <4>1
      <4>3. h[i - 1] = g[i - 1]
        BY <3>1, <4>1
      <4> QED BY <3>4, <4>2, <4>3
    <3> QED BY <3>3, <3>4
  <2>4. h = [i \in 0..(n + 1) |-> Step(h, i)]
    <3>1. h = [i \in 0..(n + 1) |-> h[i]]
      OBVIOUS
    <3> HIDE DEF h, Step
    <3> QED BY <2>3, <3>1
  <2> HIDE DEF h, Step
  <2> QED BY <2>4
<1>3. \E g : P(g)
  <2>1. Len(ops) \in T
    <3> HIDE DEF T
    <3> QED BY <1>1, <1>2, InductionOnNat
  <2> HIDE DEF Step
  <2> QED BY <2>1
<1>4. BatchResult(rs, ops) = (CHOOSE g : P(g))[Len(ops)]
  BY Zenon DEF BatchResult
<1> DEFINE f == CHOOSE g : P(g)
<1>5. P(f)
  <2> HIDE DEF P
  <2> QED BY <1>3
<1> HIDE DEF f
<1>6. f[0] = rs /\ \A i \in 1..Len(ops) : f[i] = ExecuteBatchOperation(f[i - 1], ops[i])
  <2>1. \A i \in 0..Len(ops) : f[i] = Step(f, i)
    <3> HIDE DEF Step
    <3> QED BY <1>5
  <2> QED BY <2>1
<1> QED BY <1>4, <1>6 DEF f, IsBatchRun

LEMMA BatchKeepsRules ==
    ASSUME NEW rs, NEW ops, ValidRules(rs), ops \in Seq(ToSet(ops)),
           \A op \in ToSet(ops) : IsOperation(op)
    PROVE  ValidRules(BatchResult(rs, ops))
<1>1. Len(ops) \in Nat /\ DOMAIN ops = 1..Len(ops)
  OBVIOUS
<1>2. PICK f : IsBatchRun(f, rs, ops)
  BY <1>1, BatchGoesOn
<1> DEFINE T == {n \in Nat : n <= Len(ops) => ValidRules(f[n])}
<1>3. 0 \in T
  BY <1>2 DEF IsBatchRun
<1>4. ASSUME NEW n \in Nat, n \in T PROVE n + 1 \in T
  <2> SUFFICES ASSUME n + 1 <= Len(ops) PROVE ValidRules(f[n + 1])
    OBVIOUS
  <2>1. ValidRules(f[n])
    BY <1>1, <1>4
  <2>2. n + 1 \in 1..Len(ops) /\ (n + 1) - 1 = n
    BY <1>1
  <2>3. f[n + 1] = ExecuteBatchOperation(f[n], ops[n + 1])
    BY <1>2, <2>2 DEF IsBatchRun
  <2>4. IsOperation(ops[n + 1])
    BY <1>1, <2>2 DEF ToSet
  <2> QED BY <2>1, <2>3, <2>4, OperationKeepsRules
<1>5. Len(ops) \in T
  <2> HIDE DEF T
  <2> QED BY <1>1, <1>3, <1>4, InductionOnNat
<1> QED BY <1>1, <1>2, <1>5 DEF IsBatchRun

-----------------------------------------------------------------------------
LEMMA RulesInitially == RulesInit => RulesInv
<1>1. ValidRules(<<>>)
  BY DEF ValidRules
<1>2. LimitedIds(<<>>) = {}
  BY DEF LimitedIds, ToSet
<1> QED BY <1>1, <1>2 DEF RulesInit, RulesInv

LEMMA RulesInductive == RulesInv /\ [RulesNext]_rulesVars => RulesInv'
<1> SUFFICES ASSUME RulesInv, [RulesNext]_rulesVars PROVE RulesInv'
  OBVIOUS
<1> USE RulesApiAssumption
<1>1. ASSUME NEW rs, ValidRules(rs), ApplyConfig(rs) PROVE RulesInv'
  BY <1>1 DEF ApplyConfig, RulesInv
<1>2. ValidRules(rules)
  BY DEF RulesInv
<1>3. ASSUME NEW x \in Pool, Create(x) PROVE RulesInv'
  <2>1. ValidRules(Append(rules, x))
    BY <1>2, <1>3, AppendKeepsRules DEF Create
  <2> QED BY <1>1, <1>3, <2>1 DEF Create
<1>4. ASSUME NEW id, NEW updates \in Updates, Update(id, updates) PROVE RulesInv'
  <2>1. ValidRules(Updated(rules, id, updates))
    BY <1>2, UpdatedKeepsRules
  <2> QED BY <1>1, <1>4, <2>1 DEF Update
<1>5. ASSUME NEW id, Delete(id) PROVE RulesInv'
  <2>1. ValidRules(Without(rules, id))
    BY <1>2, WithoutKeepsRules
  <2> QED BY <1>1, <1>5, <2>1 DEF Delete
<1>6. ASSUME NEW ops \in Batches, Batch(ops) PROVE RulesInv'
  <2>1. ValidRules(BatchResult(rules, ops))
    BY <1>2, BatchKeepsRules
  <2> QED BY <1>1, <1>6, <2>1 DEF Batch
<1>7. CASE UNCHANGED rulesVars
  BY <1>7 DEF RulesInv, ValidRules, rulesVars
<1> QED BY <1>3, <1>4, <1>5, <1>6, <1>7 DEF RulesNext

LEMMA RulesInvImplies == RulesInv => LimitersInStep /\ TrieDecides
<1> SUFFICES ASSUME RulesInv PROVE LimitersInStep /\ TrieDecides
  OBVIOUS
<1>1. LimitersInStep
  BY DEF RulesInv, ValidRules, LimitersInStep
<1> DEFINE c == ConfigOf(rules)
<1>2. c.rules = rules
  BY DEF ConfigOf
<1>3. DOMAIN rules \subseteq Nat
  BY DEF RulesInv, ValidRules
<1>4. IsConfig(c)
  <2> HIDE DEF c
  <2> QED BY <1>2, <1>3 DEF IsConfig, RulesInv, ValidRules, IsRule
<1>5. TrieDecides
  <2> SUFFICES ASSUME NEW q \in Queries
               PROVE  (MatchedRule(c, q) # NoRule)
                      <=> \E x \in ToSet(rules) : /\ x.enabled
                                                  /\ PatternMatches(x, q.host)
                                                  /\ DetailsMatch(x, q)
    BY DEF TrieDecides
  <2>1. IsHost(q.host)
    BY RulesApiAssumption
  <2> HIDE DEF c
  <2>2. (MatchedRule(c, q) # NoRule)
        <=> \E i \in DOMAIN rules : /\ rules[i].enabled
                                    /\ PatternMatches(rules[i], q.host)
                                    /\ DetailsMatch(rules[i], q)
    BY <1>2, <1>4, <2>1, TrieDecidesAlways
  <2> QED BY <2>2 DEF ToSet
<1> QED BY <1>1, <1>5

(* Whatever is created, updated, deleted and batched, in whatever order: no *)
(* two rules share an id, the limiters are those of the rules in force, and *)
(* the matcher that is rebuilt from them decides as their patterns do.      *)
THEOREM RulesAreSound == RulesSpec => [](LimitersInStep /\ TrieDecides)
<1>1. RulesSpec => []RulesInv
  BY RulesInitially, RulesInductive, PTL DEF RulesSpec
<1> QED BY <1>1, RulesInvImplies, PTL

-----------------------------------------------------------------------------
(* The webhook.  What close() waits for is under way until it is finished,  *)
(* whatever other batches are sent, retried and given up meanwhile.         *)
Posts == [entries : Seq(Nat), left : 0..RetryCount, stage : {"sent", "delayed"}]

HookInv ==
    /\ batch \in Seq(Nat) /\ Len(batch) < BatchSize
    /\ timer \in BOOLEAN /\ (timer <=> batch # <<>>)
    /\ posts \subseteq Posts
    /\ close \in {"open", "flushing", "closed"}
    /\ close = "flushing" => \E p \in posts : p.entries = flushed
    /\ CloseFlushes


(* A batch that is sent joins those under way, and the next one is empty.   *)
LEMMA SendBatchIsSound ==
    ASSUME HookInv, NEW entries \in Seq(Nat), SendBatch(entries)
    PROVE  /\ batch' = <<>> /\ timer' = FALSE /\ posts' \subseteq Posts
           /\ posts \subseteq posts'
           /\ entries # <<>> => \E p \in posts' : p.entries = entries
<1>1. Post(entries) \in Posts /\ Post(entries).entries = entries
  BY WebhookAssumption DEF Post, Posts
<1>2. posts \subseteq Posts
  BY DEF HookInv
<1> QED BY <1>1, <1>2 DEF SendBatch

LEMMA EmptyBatch == <<>> \in Seq(Nat) /\ Len(<<>>) < BatchSize
BY WebhookAssumption

LEMMA HookInitially == HookInit => HookInv
BY EmptyBatch DEF HookInit, HookInv, CloseFlushes

LEMMA HookWriteIsSound ==
    ASSUME HookInv, NEW entry \in Nat, HookWrite(entry)
    PROVE  HookInv'
<1> DEFINE entries == Append(batch, entry)
<1>1. entries \in Seq(Nat) /\ Len(entries) \in Nat /\ entries # <<>>
  BY AppendProperties DEF HookInv
<1>2. finished' = finished /\ close' = close /\ flushed' = flushed
  BY DEF HookWrite
<1>3. CASE Len(entries) >= BatchSize
  <2>1. SendBatch(entries)
    BY <1>3 DEF HookWrite, Collect
  <2> HIDE DEF entries
  <2>2. batch' = <<>> /\ timer' = FALSE /\ posts' \subseteq Posts /\ posts \subseteq posts'
    BY <1>1, <2>1, SendBatchIsSound
  <2> QED BY <1>2, <2>2, EmptyBatch DEF HookInv, CloseFlushes
<1>4. CASE ~(Len(entries) >= BatchSize)
  <2>1. batch' = entries /\ timer' = TRUE /\ posts' = posts
    BY <1>4 DEF HookWrite, Collect
  <2>2. Len(entries) < BatchSize
    BY <1>1, <1>4, WebhookAssumption
  <2> HIDE DEF entries
  <2> QED BY <1>1, <1>2, <2>1, <2>2 DEF HookInv, CloseFlushes
<1> QED BY <1>3, <1>4

(* A post that is answered is finished, or tried again with the same entries.*)
LEMMA AnswerIsSound ==
    ASSUME HookInv, NEW p \in posts, Answers(p)
    PROVE  HookInv'
<1>1. batch' = batch /\ timer' = timer /\ flushed' = flushed
  BY DEF Answers, Accepted, Refused, Retry
<1>2. p \in Posts
  BY DEF HookInv
<1>3. CASE Settle(p)
  <2>1. /\ posts' = posts \ {p} /\ finished' = finished \union {p.entries}
        /\ close' = IF close = "flushing" /\ p.entries = flushed THEN "closed" ELSE close
    BY <1>3 DEF Settle
  <2>2. CASE close = "flushing" /\ p.entries = flushed
    BY <1>1, <2>1, <2>2 DEF HookInv, CloseFlushes
  <2>3. CASE ~(close = "flushing" /\ p.entries = flushed)
    <3>1. close' = close
      BY <2>1, <2>3
    <3>2. close = "flushing" => \E x \in posts' : x.entries = flushed
      BY <2>1, <2>3 DEF HookInv
    <3> QED BY <1>1, <2>1, <3>1, <3>2 DEF HookInv, CloseFlushes
  <2> QED BY <2>2, <2>3
<1>4. ASSUME NEW new \in Posts, new.entries = p.entries, posts' = (posts \ {p}) \union {new},
             finished' = finished, close' = close
      PROVE  HookInv'
  <2>1. posts' \subseteq Posts
    BY <1>4 DEF HookInv
  <2>2. close = "flushing" => \E x \in posts' : x.entries = flushed
    BY <1>4 DEF HookInv
  <2> QED BY <1>1, <1>4, <2>1, <2>2 DEF HookInv, CloseFlushes
<1>5. CASE Refused(p) /\ p.left > 0
  <2> DEFINE new == [p EXCEPT !.stage = "delayed", !.left = @ - 1]
  <2>1. posts' = (posts \ {p}) \union {new} /\ finished' = finished /\ close' = close
    BY <1>5 DEF Refused, TryAgain
  <2>2. new \in Posts /\ new.entries = p.entries
    <3>1. p.left \in 0..RetryCount /\ p.left - 1 \in 0..RetryCount
      <4>1. p.left \in 0..RetryCount /\ RetryCount \in Nat
        BY <1>2, WebhookAssumption DEF Posts
      <4> QED BY <1>5, <4>1
    <3>2. PICK left \in 0..RetryCount : left = p.left - 1
      BY <3>1
    <3>3. new = [p EXCEPT !.stage = "delayed", !.left = left]
      BY <3>2
    <3>4. p.entries \in Seq(Nat) /\ p = [entries |-> p.entries, left |-> p.left, stage |-> p.stage]
      BY <1>2 DEF Posts
    <3> HIDE DEF new
    <3>5. new = [entries |-> p.entries, left |-> left, stage |-> "delayed"]
      BY <3>3, <3>4
    <3> QED BY <3>4, <3>5 DEF Posts
  <2> HIDE DEF new
  <2> QED BY <1>4, <2>1, <2>2
<1>6. CASE Retry(p)
  <2> DEFINE new == [p EXCEPT !.stage = "sent"]
  <2>1. posts' = (posts \ {p}) \union {new} /\ finished' = finished /\ close' = close
    BY <1>6 DEF Retry
  <2>2. new \in Posts /\ new.entries = p.entries
    BY <1>2 DEF Posts
  <2> HIDE DEF new
  <2> QED BY <1>4, <2>1, <2>2
<1>7. CASE Accepted(p)
  BY <1>3, <1>7 DEF Accepted
<1>8. CASE Refused(p) /\ ~(p.left > 0)
  BY <1>3, <1>8 DEF Refused
<1> QED BY <1>5, <1>6, <1>7, <1>8 DEF Answers

LEMMA HookNextIsSound == HookInv /\ HookNext => HookInv'
<1> SUFFICES ASSUME HookInv, HookNext PROVE HookInv'
  OBVIOUS
<1>1. batch \in Seq(Nat)
  BY DEF HookInv
<1>2. CASE BatchTimeout
  <2>1. SendBatch(batch) /\ finished' = finished /\ close' = close /\ flushed' = flushed
    BY <1>2 DEF BatchTimeout
  <2>2. batch' = <<>> /\ timer' = FALSE /\ posts' \subseteq Posts /\ posts \subseteq posts'
    BY <1>1, <2>1, SendBatchIsSound
  <2> QED BY <2>1, <2>2, EmptyBatch DEF HookInv, CloseFlushes
<1>3. CASE Close
  <2>1. /\ SendBatch(batch) /\ finished' = finished /\ flushed' = batch
        /\ close' = IF batch = <<>> THEN "closed" ELSE "flushing"
    BY <1>3 DEF Close, Flush
  <2>2. /\ batch' = <<>> /\ timer' = FALSE /\ posts' \subseteq Posts
        /\ batch # <<>> => \E p \in posts' : p.entries = batch
    BY <1>1, <2>1, SendBatchIsSound
  <2> QED BY <2>1, <2>2, EmptyBatch DEF HookInv, CloseFlushes
<1>4. ASSUME NEW p \in posts, Answers(p) PROVE HookInv'
  BY <1>4, AnswerIsSound
<1> QED BY <1>2, <1>3, <1>4 DEF HookNext

LEMMA HookInvImplies == HookInv => HookTypeOK /\ CloseFlushes
<1> SUFFICES ASSUME HookInv PROVE HookTypeOK
  BY DEF HookInv
<1>1. \A p \in posts : p.left \in 0..RetryCount /\ p.stage \in {"sent", "delayed"}
  BY DEF HookInv, Posts
<1>2. timer = (batch # <<>>)
  <2>1. timer \in BOOLEAN /\ (timer <=> batch # <<>>)
    BY DEF HookInv
  <2> QED BY <2>1
<1> QED BY <1>1, <1>2 DEF HookInv, HookTypeOK

-----------------------------------------------------------------------------
(* The audit streams.  How the entries that items cover add up.             *)
Items == [entry : Nat, covers : Nat]

IsSumOf(f, items) ==
    /\ \A n : Covered(items, n) = f[n]
    /\ f[0] = 0
    /\ \A i \in 1..Len(items) : f[i] = f[i - 1] + items[i].covers

LEMMA CoveredSums ==
    ASSUME NEW items, Len(items) \in Nat
    PROVE  \E f : IsSumOf(f, items)
<1> DEFINE Step(g, i) == IF i = 0 THEN 0 ELSE g[i - 1] + items[i].covers
           P(g) == g = [i \in 0..Len(items) |-> Step(g, i)]
           T == {n \in Nat : \E g : g = [i \in 0..n |-> Step(g, i)]}
<1>1. 0 \in T
  <2> DEFINE g == [i \in 0..0 |-> 0]
  <2>1. g = [i \in 0..0 |-> Step(g, i)]
    OBVIOUS
  <2> QED BY <2>1
<1>2. ASSUME NEW n \in Nat, n \in T PROVE n + 1 \in T
  <2>1. PICK g : g = [i \in 0..n |-> Step(g, i)]
    BY <1>2
  <2> DEFINE h == [i \in 0..(n + 1) |-> IF i <= n THEN g[i] ELSE Step(g, n + 1)]
  <2>2. \A i \in 0..n : g[i] = Step(g, i)
    <3> HIDE DEF Step
    <3> QED BY <2>1
  <2>3. \A i \in 0..(n + 1) : h[i] = Step(h, i)
    <3>1. \A i \in 0..n : h[i] = g[i]
      <4> HIDE DEF Step
      <4> QED OBVIOUS
    <3>2. h[n + 1] = Step(g, n + 1)
      <4> HIDE DEF Step
      <4> QED OBVIOUS
    <3> HIDE DEF h
    <3> TAKE i \in 0..(n + 1)
    <3>3. CASE i = 0
      <4>1. h[0] = g[0] /\ g[0] = 0
        BY <2>2, <3>1
      <4> QED BY <3>3, <4>1
    <3>4. CASE i # 0
      <4>1. i - 1 \in 0..n /\ (i \in 0..n \/ i = n + 1)
        BY <3>4
      <4>2. h[i] = Step(g, i)
        <5> HIDE DEF Step
        <5> QED BY <2>2, <3>1, <3>2, <4>1
      <4>3. h[i - 1] = g[i - 1]
        BY <3>1, <4>1
      <4> QED BY <3>4, <4>2, <4>3
    <3> QED BY <3>3, <3>4
  <2>4. h = [i \in 0..(n + 1) |-> Step(h, i)]
    <3>1. h = [i \in 0..(n + 1) |-> h[i]]
      OBVIOUS
    <3> HIDE DEF h, Step
    <3> QED BY <2>3, <3>1
  <2> HIDE DEF h, Step
  <2> QED BY <2>4
<1>3. \E g : P(g)
  <2>1. Len(items) \in T
    <3> HIDE DEF T
    <3> QED BY <1>1, <1>2, InductionOnNat
  <2> HIDE DEF Step
  <2> QED BY <2>1
<1>4. \A n : Covered(items, n) = (CHOOSE g : P(g))[n]
  BY Zenon DEF Covered
<1> DEFINE f == CHOOSE g : P(g)
<1>5. P(f)
  <2> HIDE DEF P
  <2> QED BY <1>3
<1> HIDE DEF f
<1>6. f[0] = 0 /\ \A i \in 1..Len(items) : f[i] = f[i - 1] + items[i].covers
  <2>1. \A i \in 0..Len(items) : f[i] = Step(f, i)
    <3> HIDE DEF Step
    <3> QED BY <1>5
  <2> QED BY <2>1
<1> QED BY <1>4, <1>6 DEF f, IsSumOf

LEMMA CoveredNext ==
    ASSUME NEW items, Len(items) \in Nat
    PROVE  /\ Covered(items, 0) = 0
           /\ \A i \in 1..Len(items) : Covered(items, i) = Covered(items, i - 1) + items[i].covers
<1>1. PICK f : IsSumOf(f, items)
  BY CoveredSums
<1> QED BY <1>1 DEF IsSumOf

LEMMA CoveredType ==
    ASSUME NEW items \in Seq(Items)
    PROVE  \A n \in 0..Len(items) : Covered(items, n) \in Nat
<1> DEFINE T == {n \in Nat : n <= Len(items) => Covered(items, n) \in Nat}
<1>1. 0 \in T
  BY CoveredNext
<1>2. ASSUME NEW n \in Nat, n \in T PROVE n + 1 \in T
  <2> SUFFICES ASSUME n + 1 <= Len(items) PROVE Covered(items, n + 1) \in Nat
    OBVIOUS
  <2>1. n + 1 \in 1..Len(items) /\ (n + 1) - 1 = n /\ Covered(items, n) \in Nat
    BY <1>2
  <2>2. Covered(items, n + 1) = Covered(items, n) + items[n + 1].covers
    BY <2>1, CoveredNext
  <2>3. items[n + 1].covers \in Nat
    <3>1. items[n + 1] \in Items
      BY <2>1
    <3> QED BY <3>1 DEF Items
  <2> QED BY <2>1, <2>2, <2>3
<1>3. Nat \subseteq T
  <2> HIDE DEF T
  <2> QED BY <1>1, <1>2, InductionOnNat
<1> QED BY <1>3

(* An item that is appended adds what it covers, and disturbs no sum before.*)
LEMMA CoveredAppend ==
    ASSUME NEW items \in Seq(Items), NEW item \in Items
    PROVE  /\ \A n \in 0..Len(items) : Covered(Append(items, item), n) = Covered(items, n)
           /\ Covered(Append(items, item), Len(items) + 1)
                = Covered(items, Len(items)) + item.covers
<1> DEFINE longer == Append(items, item)
           T == {n \in Nat : n <= Len(items) => Covered(longer, n) = Covered(items, n)}
<1>1. /\ longer \in Seq(Items) /\ Len(longer) = Len(items) + 1 /\ Len(items) \in Nat
      /\ \A i \in 1..Len(items) : longer[i] = items[i]
      /\ longer[Len(items) + 1] = item
  BY AppendProperties
<1> HIDE DEF longer
<1>2. 0 \in T
  BY <1>1, CoveredNext
<1>3. ASSUME NEW n \in Nat, n \in T PROVE n + 1 \in T
  <2> SUFFICES ASSUME n + 1 <= Len(items) PROVE Covered(longer, n + 1) = Covered(items, n + 1)
    OBVIOUS
  <2>1. n + 1 \in 1..Len(items) /\ n + 1 \in 1..Len(longer) /\ (n + 1) - 1 = n
    BY <1>1
  <2>2. Covered(longer, n) = Covered(items, n)
    BY <1>1, <1>3
  <2>3. Covered(items, n + 1) = Covered(items, n) + items[n + 1].covers
    BY <1>1, <2>1, CoveredNext
  <2>4. Covered(longer, n + 1) = Covered(longer, n) + longer[n + 1].covers
    BY <1>1, <2>1, CoveredNext
  <2> QED BY <1>1, <2>1, <2>2, <2>3, <2>4
<1>4. Nat \subseteq T
  <2> HIDE DEF T
  <2> QED BY <1>2, <1>3, InductionOnNat
<1>5. \A n \in 0..Len(items) : Covered(longer, n) = Covered(items, n)
  BY <1>1, <1>4
<1>6. Covered(longer, Len(items) + 1) = Covered(longer, Len(items)) + item.covers
  <2>1. Len(items) + 1 \in 1..Len(longer) /\ (Len(items) + 1) - 1 = Len(items)
    BY <1>1
  <2> QED BY <1>1, <2>1, CoveredNext
<1>7. Covered(longer, Len(items)) = Covered(items, Len(items))
  BY <1>1, <1>5
<1> QED BY <1>5, <1>6, <1>7 DEF longer

(* Items that each cover one entry cover as many as they are.               *)
LEMMA CoveredOnes ==
    ASSUME NEW items, Len(items) \in Nat, \A i \in 1..Len(items) : items[i].covers = 1
    PROVE  \A n \in 0..Len(items) : Covered(items, n) = n
<1> DEFINE T == {n \in Nat : n <= Len(items) => Covered(items, n) = n}
<1>1. 0 \in T
  BY CoveredNext
<1>2. ASSUME NEW n \in Nat, n \in T PROVE n + 1 \in T
  <2> SUFFICES ASSUME n + 1 <= Len(items) PROVE Covered(items, n + 1) = n + 1
    OBVIOUS
  <2>1. n + 1 \in 1..Len(items) /\ (n + 1) - 1 = n /\ Covered(items, n) = n
    BY <1>2
  <2>2. Covered(items, n + 1) = Covered(items, n) + items[n + 1].covers
    BY <2>1, CoveredNext
  <2> QED BY <2>1, <2>2
<1>3. Nat \subseteq T
  <2> HIDE DEF T
  <2> QED BY <1>1, <1>2, InductionOnNat
<1> QED BY <1>3

-----------------------------------------------------------------------------
(* What is true of every stream.  One that is not paused has dropped nothing*)
(* since it last told; and the ring buffer holds the last entries, in order.*)
Numbered(items, from) ==
    \A i \in 1..Len(items) :
        items[i].entry # 0 => items[i].entry = from + Covered(items, i - 1)

StreamOK(s) ==
    /\ dropped[s] <= MaxDrops /\ (Hearing(s) => dropped[s] < MaxDrops)
    /\ unread[s] <= HighWater + 2
    /\ s \in needDrain /\ phase[s] \in {"live", "stuck"} => unread[s] > 0
    /\ s \notin paused => unread[s] <= HighWater + 1 /\ dropped[s] = 0
    /\ Numbered(wire[s], first[s])
    /\ Hearing(s) => first[s] + Covered(wire[s], Len(wire[s])) + dropped[s] = logged + 1

StreamTypes ==
    /\ logged \in Nat /\ history \in Seq(Nat) /\ Len(history) <= HistorySize
    /\ Len(history) <= logged
    /\ phase \in [Streams -> {"none", "live", "stuck", "ended", "gone"}]
    /\ paused \subseteq needDrain /\ needDrain \subseteq Streams
    /\ dropped \in [Streams -> Nat] /\ unread \in [Streams -> Nat]
    /\ wire \in [Streams -> Seq(Items)] /\ first \in [Streams -> Nat]

StreamInv ==
    /\ StreamTypes
    /\ \A i \in 1..Len(history) : history[i] = logged - Len(history) + i
    /\ \A s \in Streams : StreamOK(s)

LEMMA AppendNumbered ==
    ASSUME NEW items \in Seq(Items), NEW item \in Items, NEW from \in Nat, Numbered(items, from),
           item.entry # 0 => item.entry = from + Covered(items, Len(items))
    PROVE  /\ Append(items, item) \in Seq(Items)
           /\ Numbered(Append(items, item), from)
           /\ Covered(Append(items, item), Len(Append(items, item)))
                = Covered(items, Len(items)) + item.covers
<1> DEFINE longer == Append(items, item)
<1>1. /\ longer \in Seq(Items) /\ Len(longer) = Len(items) + 1 /\ Len(items) \in Nat
      /\ \A i \in 1..Len(items) : longer[i] = items[i]
      /\ longer[Len(items) + 1] = item
  BY AppendProperties
<1>2. /\ \A n \in 0..Len(items) : Covered(longer, n) = Covered(items, n)
      /\ Covered(longer, Len(items) + 1) = Covered(items, Len(items)) + item.covers
  BY CoveredAppend
<1> HIDE DEF longer
<1>3. ASSUME NEW i \in 1..Len(longer), longer[i].entry # 0
      PROVE  longer[i].entry = from + Covered(longer, i - 1)
  <2>1. CASE i \in 1..Len(items)
    <3>1. i - 1 \in 0..Len(items)
      BY <1>1, <2>1
    <3> QED BY <1>1, <1>2, <1>3, <2>1, <3>1 DEF Numbered
  <2>2. CASE i = Len(items) + 1
    <3>1. i - 1 = Len(items) /\ Len(items) \in 0..Len(items)
      BY <1>1, <2>2
    <3>2. longer[i].entry = from + Covered(items, Len(items))
      BY <1>1, <1>3, <2>2
    <3>3. Covered(longer, i - 1) = Covered(items, Len(items))
      BY <1>2, <3>1
    <3> QED BY <3>2, <3>3
  <2> QED BY <1>1, <2>1, <2>2
<1> QED BY <1>1, <1>2, <1>3 DEF Numbered, longer

LEMMA DataIsItem == \A n \in Nat : Data(n) \in Items /\ Data(n).entry = n /\ Data(n).covers = 1
BY DEF Data, Items

LEMMA MarkerIsItem == \A n \in Nat : Marker(n) \in Items /\ Marker(n).entry = 0 /\ Marker(n).covers = n
BY DEF Marker, Items

LEMMA StreamInitially == StreamInit => StreamInv
<1> SUFFICES ASSUME StreamInit PROVE StreamInv
  OBVIOUS
<1>1. StreamTypes /\ Len(history) = 0
  BY StreamAssumption DEF StreamInit, StreamTypes
<1>2. ASSUME NEW s \in Streams PROVE StreamOK(s)
  BY StreamAssumption DEF StreamInit, StreamOK, Numbered, Hearing
<1> QED BY <1>1, <1>2 DEF StreamInv

(* The ring buffer after one more entry.                                    *)
LEMMA RememberKeepsOrder ==
    ASSUME StreamInv, Remember(logged + 1), logged' = logged + 1
    PROVE  /\ history' \in Seq(Nat) /\ Len(history') <= HistorySize /\ Len(history') <= logged'
           /\ \A i \in 1..Len(history') : history'[i] = logged' - Len(history') + i
<1> DEFINE longer == Append(history, logged + 1)
<1>1. /\ history \in Seq(Nat) /\ logged \in Nat /\ Len(history) \in Nat
      /\ Len(history) <= HistorySize /\ Len(history) <= logged
      /\ \A i \in 1..Len(history) : history[i] = logged - Len(history) + i
  BY DEF StreamInv, StreamTypes
<1>2. /\ longer \in Seq(Nat) /\ Len(longer) = Len(history) + 1
      /\ \A i \in 1..Len(history) : longer[i] = history[i]
      /\ longer[Len(history) + 1] = logged + 1
  BY <1>1, AppendProperties
<1>3. \A i \in 1..Len(longer) : longer[i] = logged + 1 - Len(longer) + i
  <2> HIDE DEF longer
  <2> TAKE i \in 1..Len(longer)
  <2>1. CASE i \in 1..Len(history)
    BY <1>1, <1>2, <2>1
  <2>2. CASE i = Len(history) + 1
    BY <1>1, <1>2, <2>2
  <2> QED BY <1>1, <1>2, <2>1, <2>2
<1>4. history' = IF Len(longer) > HistorySize THEN Tail(longer) ELSE longer
  BY DEF Remember
<1> HIDE DEF longer
<1>5. CASE Len(longer) > HistorySize
  <2>1. history' = Tail(longer) /\ longer # <<>>
    BY <1>1, <1>2, <1>4, <1>5
  <2>2. /\ Tail(longer) \in Seq(Nat) /\ Len(Tail(longer)) = Len(longer) - 1
        /\ \A i \in 1..Len(Tail(longer)) : Tail(longer)[i] = longer[i + 1]
    BY <1>2, <2>1
  <2>3. \A i \in 1..Len(Tail(longer)) : Tail(longer)[i] = logged + 1 - Len(Tail(longer)) + i
    <3> TAKE i \in 1..Len(Tail(longer))
    <3>1. i + 1 \in 1..Len(longer)
      BY <1>1, <1>2, <2>2
    <3>2. longer[i + 1] = logged + 1 - Len(longer) + (i + 1)
      BY <1>3, <3>1
    <3>3. Tail(longer)[i] = longer[i + 1]
      BY <2>2
    <3>4. Len(Tail(longer)) = Len(history) /\ Len(longer) = Len(history) + 1 /\ i \in Nat
      BY <1>1, <1>2, <2>2
    <3>5. longer[i + 1] = logged + 1 - Len(history) + i
      <4>1. longer[i + 1] = logged + 1 - (Len(history) + 1) + (i + 1)
        BY <3>2, <3>4
      <4>2. Len(history) \in Nat /\ logged \in Nat
        BY <1>1
      <4> QED BY <3>4, <4>1, <4>2
    <3> QED BY <3>3, <3>4, <3>5
  <2>4. Len(Tail(longer)) = Len(history)
    BY <1>1, <1>2, <2>2
  <2>5. Len(history) <= HistorySize /\ Len(history) <= logged + 1
    BY <1>1
  <2>6. \A i \in 1..Len(history') : history'[i] = logged' - Len(history') + i
    <3>1. Len(history') = Len(Tail(longer)) /\ \A i \in 1..Len(Tail(longer)) : history'[i] = Tail(longer)[i]
      BY <2>1
    <3>2. \A i \in 1..Len(Tail(longer)) : history'[i] = logged + 1 - Len(Tail(longer)) + i
      BY <2>3, <3>1
    <3>3. Len(history') \in Nat /\ logged' \in Nat /\ logged' = logged + 1
      BY <1>1, <1>2, <2>1, <2>2
    <3> TAKE i \in 1..Len(history')
    <3>4. history'[i] = logged + 1 - Len(Tail(longer)) + i
      <4>1. i \in 1..Len(Tail(longer))
        BY <3>1
      <4> QED BY <3>2, <4>1
    <3>5. logged + 1 - Len(Tail(longer)) = logged' - Len(history')
      BY <1>1, <3>1, <3>3
    <3> QED BY <3>4, <3>5
  <2>7. history' \in Seq(Nat) /\ Len(history') = Len(history)
    BY <2>1, <2>2, <2>4
  <2> QED BY <2>5, <2>6, <2>7
<1>6. CASE ~(Len(longer) > HistorySize)
  <2>1. Len(longer) <= HistorySize
    BY <1>1, <1>2, <1>6, StreamAssumption
  <2>2. history' = longer
    BY <1>4, <1>6
  <2>3. Len(longer) <= logged + 1
    BY <1>1, <1>2
  <2>4. longer \in Seq(Nat)
    BY <1>2
  <2>5. \A i \in 1..Len(history') : history'[i] = logged' - Len(history') + i
    <3>1. Len(history') = Len(longer) /\ \A i \in 1..Len(longer) : history'[i] = longer[i]
      BY <2>2
    <3>2. \A i \in 1..Len(longer) : history'[i] = logged + 1 - Len(longer) + i
      BY <1>3, <3>1
    <3>3. Len(history') \in Nat /\ logged' \in Nat /\ logged' = logged + 1
      BY <1>1, <1>2, <2>1, <2>2
    <3> TAKE i \in 1..Len(history')
    <3>4. history'[i] = logged + 1 - Len(longer) + i
      <4>1. i \in 1..Len(longer)
        BY <3>1
      <4> QED BY <3>2, <4>1
    <3>5. logged + 1 - Len(longer) = logged' - Len(history')
      BY <1>1, <3>1, <3>3
    <3> QED BY <3>4, <3>5
  <2> QED BY <2>1, <2>2, <2>3, <2>4, <2>5
<1> QED BY <1>5, <1>6

(* An entry goes to every stream that is not paused, and is counted by those*)
(* that are.                                                                *)
LEMMA PublishIsSound ==
    ASSUME StreamInv, Publish
    PROVE  StreamInv'
<1> USE StreamAssumption
<1> DEFINE n == logged + 1
           full == {s \in Sending : unread[s] + 1 >= HighWater}
           slow == {s \in Streams : Hearing(s) /\ s \in paused}
<1>1. /\ logged' = n /\ Remember(n) /\ first' = first
      /\ wire' = [s \in Streams |-> IF s \in Sending THEN Append(wire[s], Data(n)) ELSE wire[s]]
      /\ unread' = [s \in Streams |-> IF s \in Sending THEN unread[s] + 1 ELSE unread[s]]
      /\ paused' = paused \union full /\ needDrain' = needDrain \union full
      /\ dropped' = [s \in Streams |-> IF s \in slow THEN dropped[s] + 1 ELSE dropped[s]]
      /\ phase' = [s \in Streams |-> IF s \in slow /\ Overflows(dropped[s] + 1)
                                     THEN "ended" ELSE phase[s]]
  BY DEF Publish
<1>2. /\ logged \in Nat /\ n \in Nat
      /\ phase \in [Streams -> {"none", "live", "stuck", "ended", "gone"}]
      /\ paused \subseteq needDrain /\ needDrain \subseteq Streams
      /\ dropped \in [Streams -> Nat] /\ unread \in [Streams -> Nat]
      /\ wire \in [Streams -> Seq(Items)] /\ first \in [Streams -> Nat]
  BY DEF StreamInv, StreamTypes
<1>3. /\ history' \in Seq(Nat) /\ Len(history') <= HistorySize /\ Len(history') <= logged'
      /\ \A i \in 1..Len(history') : history'[i] = logged' - Len(history') + i
  BY <1>1, RememberKeepsOrder
<1>4. \A s \in Streams : /\ s \in Sending <=> phase[s] = "live" /\ s \notin paused
                         /\ s \in slow <=> phase[s] = "live" /\ s \in paused
                         /\ s \in full <=> s \in Sending /\ unread[s] + 1 >= HighWater
  BY DEF Sending, Hearing
<1>5. full \subseteq Streams
  BY DEF Sending
<1>6. Data(n) \in Items /\ Data(n).entry = n /\ Data(n).covers = 1
  BY <1>2, DataIsItem
<1> HIDE DEF n, full, slow
<1>7. ASSUME NEW s \in Streams PROVE StreamOK(s)' /\ wire'[s] \in Seq(Items)
  <2>1. /\ wire'[s] = IF s \in Sending THEN Append(wire[s], Data(n)) ELSE wire[s]
        /\ unread'[s] = IF s \in Sending THEN unread[s] + 1 ELSE unread[s]
        /\ dropped'[s] = IF s \in slow THEN dropped[s] + 1 ELSE dropped[s]
        /\ phase'[s] = IF s \in slow /\ Overflows(dropped[s] + 1) THEN "ended" ELSE phase[s]
        /\ first'[s] = first[s]
    BY <1>1
  <2>2. /\ dropped[s] \in Nat /\ unread[s] \in Nat /\ wire[s] \in Seq(Items) /\ first[s] \in Nat
    BY <1>2
  <2>3. StreamOK(s)
    BY DEF StreamInv
  <2>4. Len(wire[s]) \in 0..Len(wire[s]) /\ Covered(wire[s], Len(wire[s])) \in Nat
    BY <2>2, CoveredType
  <2>5. CASE s \in Sending
    <3>1. /\ wire'[s] = Append(wire[s], Data(n)) /\ unread'[s] = unread[s] + 1
          /\ dropped'[s] = dropped[s] /\ phase'[s] = "live" /\ phase[s] = "live"
          /\ s \notin paused
      BY <1>4, <2>1, <2>5
    <3>2. dropped[s] = 0 /\ unread[s] <= HighWater + 1
      BY <2>3, <3>1 DEF StreamOK
    <3>3. n = first[s] + Covered(wire[s], Len(wire[s]))
      <4>1. first[s] + Covered(wire[s], Len(wire[s])) + dropped[s] = logged + 1
        BY <2>3, <3>1 DEF StreamOK, Hearing
      <4> QED BY <2>2, <2>4, <3>2, <4>1 DEF n
    <3>4. /\ Append(wire[s], Data(n)) \in Seq(Items)
          /\ Numbered(Append(wire[s], Data(n)), first[s])
          /\ Covered(Append(wire[s], Data(n)), Len(Append(wire[s], Data(n))))
               = Covered(wire[s], Len(wire[s])) + 1
      <4>1. Numbered(wire[s], first[s])
        BY <2>3 DEF StreamOK
      <4> QED BY <1>6, <2>2, <3>3, <4>1, AppendNumbered
    <3>5. wire'[s] \in Seq(Items) /\ Numbered(wire'[s], first'[s])
      BY <2>1, <3>1, <3>4
    <3>6. first'[s] + Covered(wire'[s], Len(wire'[s])) + dropped'[s] = logged' + 1
      <4>1. Covered(wire'[s], Len(wire'[s])) = Covered(wire[s], Len(wire[s])) + 1
        BY <3>1, <3>4
      <4> QED BY <1>1, <2>1, <2>2, <2>4, <3>1, <3>2, <3>3, <4>1
    <3>7. s \notin paused' => unread'[s] <= HighWater + 1 /\ dropped'[s] = 0
      <4> SUFFICES ASSUME s \notin paused' PROVE unread'[s] <= HighWater + 1
        BY <3>1, <3>2
      <4>1. ~(unread[s] + 1 >= HighWater)
        BY <1>1, <1>4, <2>5
      <4> QED BY <2>2, <3>1, <4>1
    <3>8. unread'[s] <= HighWater + 2 /\ unread'[s] > 0
      BY <2>2, <3>1, <3>2
    <3>9. dropped'[s] <= MaxDrops /\ dropped'[s] < MaxDrops
      BY <3>1, <3>2
    <3> QED BY <3>5, <3>6, <3>7, <3>8, <3>9 DEF StreamOK
  <2>6. CASE s \in slow
    <3>1. /\ wire'[s] = wire[s] /\ unread'[s] = unread[s] /\ dropped'[s] = dropped[s] + 1
          /\ phase[s] = "live" /\ s \in paused /\ s \in paused' /\ s \in needDrain
      BY <1>1, <1>2, <1>4, <2>1, <2>6
    <3>2. phase'[s] = IF dropped[s] + 1 >= MaxDrops THEN "ended" ELSE "live"
      BY <1>4, <2>1, <2>6 DEF Overflows
    <3>3. /\ dropped[s] < MaxDrops /\ unread[s] > 0 /\ unread[s] <= HighWater + 2
          /\ first[s] + Covered(wire[s], Len(wire[s])) + dropped[s] = logged + 1
          /\ Numbered(wire[s], first[s])
      BY <2>3, <3>1 DEF StreamOK, Hearing
    <3>4. dropped'[s] <= MaxDrops /\ (phase'[s] = "live" => dropped'[s] < MaxDrops)
      BY <2>2, <3>1, <3>2, <3>3
    <3>5. first'[s] + Covered(wire'[s], Len(wire'[s])) + dropped'[s] = logged' + 1
      <4>1. Covered(wire'[s], Len(wire'[s])) = Covered(wire[s], Len(wire[s]))
        BY <3>1
      <4> QED BY <1>1, <1>2, <2>1, <2>2, <2>4, <3>1, <3>3, <4>1 DEF n
    <3>6. wire'[s] \in Seq(Items) /\ Numbered(wire'[s], first'[s])
      BY <2>1, <2>2, <3>1, <3>3
    <3> QED BY <3>1, <3>3, <3>4, <3>5, <3>6 DEF StreamOK, Hearing
  <2>7. CASE s \notin Sending /\ s \notin slow
    <3>1. /\ wire'[s] = wire[s] /\ unread'[s] = unread[s] /\ dropped'[s] = dropped[s]
          /\ phase'[s] = phase[s] /\ phase[s] # "live"
      BY <1>4, <2>1, <2>7
    <3>2. (s \in paused' <=> s \in paused) /\ (s \in needDrain' <=> s \in needDrain)
      BY <1>1, <1>4, <2>7
    <3>3. wire'[s] \in Seq(Items) /\ Numbered(wire'[s], first'[s])
      BY <2>1, <2>2, <2>3, <3>1 DEF StreamOK
    <3> QED BY <2>3, <3>1, <3>2, <3>3 DEF StreamOK, Hearing
  <2> QED BY <2>5, <2>6, <2>7
<1>8. StreamTypes'
  <2>1. logged' \in Nat
    BY <1>1, <1>2
  <2>2. phase' \in [Streams -> {"none", "live", "stuck", "ended", "gone"}]
    BY <1>1, <1>2
  <2>3. paused' \subseteq needDrain' /\ needDrain' \subseteq Streams
    BY <1>1, <1>2, <1>5
  <2>4. dropped' \in [Streams -> Nat] /\ unread' \in [Streams -> Nat]
    BY <1>1, <1>2
  <2>5. wire' \in [Streams -> Seq(Items)]
    <3>1. wire' = [s \in Streams |-> wire'[s]]
      BY <1>1
    <3> QED BY <1>7, <3>1
  <2>6. first' \in [Streams -> Nat]
    BY <1>1, <1>2
  <2> QED BY <1>3, <2>1, <2>2, <2>3, <2>4, <2>5, <2>6 DEF StreamTypes
<1> QED BY <1>3, <1>7, <1>8 DEF StreamInv

(* A stream that nothing happens to stays as it is, while no entry is logged.*)
LEMMA OthersAreSound ==
    ASSUME StreamInv, logged' = logged, NEW t \in Streams,
           phase'[t] = phase[t], dropped'[t] = dropped[t], unread'[t] = unread[t],
           wire'[t] = wire[t], first'[t] = first[t],
           t \in paused' <=> t \in paused, t \in needDrain' <=> t \in needDrain
    PROVE  StreamOK(t)'
<1>1. StreamOK(t)
  BY DEF StreamInv
<1>2. Numbered(wire'[t], first'[t]) <=> Numbered(wire[t], first[t])
  OBVIOUS
<1>3. Covered(wire'[t], Len(wire'[t])) = Covered(wire[t], Len(wire[t]))
  OBVIOUS
<1> QED BY <1>1, <1>2, <1>3 DEF StreamOK, Hearing

(* What a stream is replayed are the last entries before the next one.      *)
LEMMA ReplayIsNumbered ==
    ASSUME StreamInv, NEW count \in 0..Len(history), NEW sent \in 0..count
    PROVE  LET replay == SubSeq(history, Len(history) - count + 1, Len(history))
               items == [i \in 1..sent |-> Data(replay[i])]
               from == IF count = 0 THEN logged + 1 ELSE replay[1]
           IN  /\ items \in Seq(Items) /\ Len(items) = sent
               /\ from \in Nat /\ from + count = logged + 1
               /\ Numbered(items, from)
               /\ Covered(items, Len(items)) = sent
<1> DEFINE replay == SubSeq(history, Len(history) - count + 1, Len(history))
           items == [i \in 1..sent |-> Data(replay[i])]
           from == IF count = 0 THEN logged + 1 ELSE replay[1]
<1>1. /\ logged \in Nat /\ history \in Seq(Nat) /\ Len(history) \in Nat
      /\ Len(history) <= logged /\ count \in Nat /\ count <= Len(history)
      /\ sent \in Nat /\ sent <= count
  BY DEF StreamInv, StreamTypes
<1>2. \A i \in 1..Len(history) : history[i] = logged - Len(history) + i
  BY DEF StreamInv
<1>3. \A i \in 1..count : replay[i] = (logged + i) - count
  <2> TAKE i \in 1..count
  <2>1. /\ Len(history) - count + 1 \in 1..(Len(history) + 1)
        /\ (Len(history) - count + 1) + i - 1 \in 1..Len(history)
        /\ i \in 1..(Len(history) - (Len(history) - count + 1) + 1)
    BY <1>1
  <2>2. replay[i] = history[(Len(history) - count + 1) + i - 1]
    BY <1>1, <2>1, SubSeqProperties
  <2>3. (Len(history) - count + 1) + i - 1 = Len(history) - count + i
    BY <1>1
  <2>4. history[Len(history) - count + i] = logged - Len(history) + (Len(history) - count + i)
    BY <1>2, <2>1, <2>3
  <2>5. logged - Len(history) + (Len(history) - count + i) = (logged + i) - count
    BY <1>1
  <2> QED BY <2>2, <2>3, <2>4, <2>5
<1> HIDE DEF replay
<1>4. from \in Nat /\ from + count = logged + 1
  <2>1. CASE count = 0
    BY <1>1, <2>1
  <2>2. CASE count # 0
    <3>1. 1 \in 1..count
      BY <1>1, <2>2
    <3>2. from = (logged + 1) - count
      BY <1>3, <2>2, <3>1
    <3> HIDE DEF from
    <3> QED BY <1>1, <3>2
  <2> QED BY <2>1, <2>2
<1> HIDE DEF from
<1>5. \A i \in 1..sent : items[i] \in Items /\ items[i].covers = 1 /\ items[i].entry = from + (i - 1)
  <2> TAKE i \in 1..sent
  <2>1. i \in 1..count
    BY <1>1
  <2>2. replay[i] = (logged + i) - count
    BY <1>3, <2>1
  <2>3. replay[i] \in Nat /\ replay[i] = from + (i - 1)
    BY <1>1, <1>4, <2>1, <2>2
  <2>4. items[i] = Data(replay[i])
    OBVIOUS
  <2> HIDE DEF items
  <2> QED BY <2>3, <2>4, DataIsItem
<1>6. items \in Seq(Items) /\ Len(items) = sent
  <2>1. items \in [1..sent -> Items]
    <3>1. items = [i \in 1..sent |-> items[i]]
      OBVIOUS
    <3> HIDE DEF items
    <3> QED BY <1>5, <3>1
  <2> HIDE DEF items
  <2> QED BY <1>1, <2>1
<1> HIDE DEF items
<1>7. \A n \in 0..sent : Covered(items, n) = n
  BY <1>1, <1>5, <1>6, CoveredOnes
<1>8. Numbered(items, from)
  <2> SUFFICES ASSUME NEW i \in 1..sent PROVE items[i].entry = from + Covered(items, i - 1)
    BY <1>6 DEF Numbered
  <2>1. i - 1 \in 0..sent
    BY <1>1
  <2> QED BY <1>5, <1>7, <2>1
<1>9. Covered(items, Len(items)) = sent
  <2>1. sent \in 0..sent
    BY <1>1
  <2> QED BY <1>6, <1>7, <2>1
<1> QED BY <1>4, <1>6, <1>8, <1>9 DEF replay, items, from

LEMMA AttachIsSound ==
    ASSUME StreamInv, NEW s \in Streams, NEW count \in 0..Len(history), Attach(s, count)
    PROVE  StreamInv'
<1> USE StreamAssumption
<1> DEFINE replay == SubSeq(history, Len(history) - count + 1, Len(history))
           sent == IF count < Room THEN count ELSE Room
           drops == count - sent
           throws == Overflows(drops)
           items == [i \in 1..sent |-> Data(replay[i])]
           from == IF count = 0 THEN logged + 1 ELSE replay[1]
<1>1. /\ phase' = [phase EXCEPT ![s] = IF throws THEN "stuck" ELSE "live"]
      /\ wire' = [wire EXCEPT ![s] = items]
      /\ unread' = [unread EXCEPT ![s] = sent + 1]
      /\ paused' = IF count >= Room THEN paused \union {s} ELSE paused
      /\ needDrain' = IF sent + 1 >= HighWater THEN needDrain \union {s} ELSE needDrain
      /\ dropped' = [dropped EXCEPT ![s] = IF throws THEN MaxDrops ELSE drops]
      /\ first' = [first EXCEPT ![s] = from]
      /\ logged' = logged /\ history' = history
  BY DEF Attach
<1>2. /\ logged \in Nat /\ history \in Seq(Nat)
      /\ phase \in [Streams -> {"none", "live", "stuck", "ended", "gone"}]
      /\ paused \subseteq needDrain /\ needDrain \subseteq Streams
      /\ dropped \in [Streams -> Nat] /\ unread \in [Streams -> Nat]
      /\ wire \in [Streams -> Seq(Items)] /\ first \in [Streams -> Nat]
  BY DEF StreamInv, StreamTypes
<1>3. /\ Room \in Nat /\ Room <= HighWater /\ Room + 1 <= HighWater + 1
      /\ Room + 1 >= HighWater /\ count \in Nat
  BY <1>2 DEF Room
<1>4. sent \in 0..count /\ sent <= Room /\ drops \in Nat /\ sent + drops = count
  BY <1>3
<1>5. /\ items \in Seq(Items)
      /\ from \in Nat /\ from + count = logged + 1
      /\ Numbered(items, from)
      /\ Covered(items, Len(items)) = sent
  <2>1. sent \in 0..count
    BY <1>4
  <2> HIDE DEF sent
  <2> QED BY <2>1, ReplayIsNumbered
<1>6. count < Room => drops = 0 /\ ~throws
  <2>1. count < Room => drops = 0
    BY <1>3
  <2> HIDE DEF drops
  <2> QED BY <2>1 DEF Overflows
<1>7. ~throws => drops < MaxDrops
  <2> HIDE DEF drops
  <2> QED BY <1>4 DEF Overflows
<1>8. count >= Room => sent = Room
  BY <1>3
<1> HIDE DEF items, from, replay, throws, drops, sent
<1>9. StreamOK(s)'
  <2>1. /\ phase'[s] = IF throws THEN "stuck" ELSE "live"
        /\ wire'[s] = items /\ unread'[s] = sent + 1 /\ first'[s] = from
        /\ dropped'[s] = IF throws THEN MaxDrops ELSE drops
    BY <1>1, <1>2
  <2>2. dropped'[s] <= MaxDrops /\ (phase'[s] = "live" => dropped'[s] < MaxDrops)
    BY <1>4, <1>7, <2>1
  <2>3. unread'[s] <= HighWater + 2 /\ unread'[s] > 0 /\ unread'[s] <= HighWater + 1
    BY <1>3, <1>4, <2>1
  <2>4. s \notin paused' => dropped'[s] = 0
    <3> SUFFICES ASSUME s \notin paused' PROVE dropped'[s] = 0
      OBVIOUS
    <3>1. count < Room
      BY <1>1, <1>3
    <3> QED BY <1>6, <2>1, <3>1
  <2>5. Numbered(wire'[s], first'[s]) /\ Covered(wire'[s], Len(wire'[s])) = sent
    BY <1>5, <2>1
  <2>6. phase'[s] = "live" => first'[s] + Covered(wire'[s], Len(wire'[s])) + dropped'[s] = logged' + 1
    <3> SUFFICES ASSUME phase'[s] = "live" PROVE from + sent + drops = logged + 1
      BY <1>1, <2>1, <2>5
    <3> QED BY <1>2, <1>3, <1>4, <1>5
  <2> QED BY <2>2, <2>3, <2>4, <2>5, <2>6 DEF StreamOK, Hearing
<1>10. ASSUME NEW t \in Streams, t # s PROVE StreamOK(t)'
  BY <1>1, <1>2, <1>10, OthersAreSound
<1>11. StreamTypes'
  <2>1. paused' \subseteq needDrain' /\ needDrain' \subseteq Streams
    BY <1>1, <1>2, <1>3, <1>8
  <2>2. phase' \in [Streams -> {"none", "live", "stuck", "ended", "gone"}]
    BY <1>1, <1>2
  <2>3. dropped' \in [Streams -> Nat]
    <3>1. (IF throws THEN MaxDrops ELSE drops) \in Nat
      BY <1>4
    <3> QED BY <1>1, <1>2, <3>1
  <2>4. unread' \in [Streams -> Nat]
    <3>1. sent + 1 \in Nat
      BY <1>3, <1>4
    <3> QED BY <1>1, <1>2, <3>1
  <2>5. wire' \in [Streams -> Seq(Items)] /\ first' \in [Streams -> Nat]
    BY <1>1, <1>2, <1>5
  <2>6. logged' \in Nat /\ history' \in Seq(Nat) /\ Len(history') <= HistorySize /\ Len(history') <= logged'
    BY <1>1 DEF StreamInv, StreamTypes
  <2> QED BY <2>1, <2>2, <2>3, <2>4, <2>5, <2>6 DEF StreamTypes
<1>12. \A i \in 1..Len(history') : history'[i] = logged' - Len(history') + i
  BY <1>1 DEF StreamInv
<1> QED BY <1>9, <1>10, <1>11, <1>12 DEF StreamInv

(* 'drain' tells what was dropped: the sum goes up by what the counter loses.*)
LEMMA DrainIsSound ==
    ASSUME StreamInv, NEW s \in Streams, s \in needDrain, StreamDrains(s),
           UNCHANGED <<logged, history, phase, first>>
    PROVE  StreamInv'
<1> USE StreamAssumption
<1>1. /\ paused' = paused \ {s}
      /\ needDrain' = IF dropped[s] > 0 /\ HighWater = 1 THEN needDrain ELSE needDrain \ {s}
      /\ wire' = IF dropped[s] > 0 THEN [wire EXCEPT ![s] = Append(@, Marker(dropped[s]))] ELSE wire
      /\ unread' = [unread EXCEPT ![s] = IF dropped[s] > 0 THEN 1 ELSE 0]
      /\ dropped' = [dropped EXCEPT ![s] = 0]
      /\ logged' = logged /\ history' = history /\ phase' = phase /\ first' = first
  BY DEF StreamDrains
<1>2. /\ logged \in Nat /\ history \in Seq(Nat)
      /\ phase \in [Streams -> {"none", "live", "stuck", "ended", "gone"}]
      /\ paused \subseteq needDrain /\ needDrain \subseteq Streams
      /\ dropped \in [Streams -> Nat] /\ unread \in [Streams -> Nat]
      /\ wire \in [Streams -> Seq(Items)] /\ first \in [Streams -> Nat]
  BY DEF StreamInv, StreamTypes
<1>3. dropped[s] \in Nat /\ wire[s] \in Seq(Items) /\ first[s] \in Nat
  BY <1>2
<1>4. Marker(dropped[s]) \in Items /\ Marker(dropped[s]).entry = 0
      /\ Marker(dropped[s]).covers = dropped[s]
  BY <1>3, MarkerIsItem
<1>5. StreamOK(s)
  BY DEF StreamInv
<1>6. Covered(wire[s], Len(wire[s])) \in Nat
  BY <1>3, CoveredType
<1>7. /\ wire'[s] \in Seq(Items) /\ Numbered(wire'[s], first'[s])
      /\ Covered(wire'[s], Len(wire'[s])) = Covered(wire[s], Len(wire[s])) + dropped[s]
  <2>1. Numbered(wire[s], first[s])
    BY <1>5 DEF StreamOK
  <2>2. CASE dropped[s] > 0
    <3>1. wire'[s] = Append(wire[s], Marker(dropped[s]))
      BY <1>1, <1>2, <2>2
    <3>2. /\ Append(wire[s], Marker(dropped[s])) \in Seq(Items)
          /\ Numbered(Append(wire[s], Marker(dropped[s])), first[s])
          /\ Covered(Append(wire[s], Marker(dropped[s])), Len(Append(wire[s], Marker(dropped[s]))))
               = Covered(wire[s], Len(wire[s])) + dropped[s]
      BY <1>3, <1>4, <2>1, AppendNumbered
    <3> QED BY <1>1, <3>1, <3>2
  <2>3. CASE ~(dropped[s] > 0)
    <3>1. wire' = wire /\ dropped[s] = 0
      BY <1>1, <1>3, <2>3
    <3> QED BY <1>1, <1>3, <1>6, <2>1, <3>1
  <2> QED BY <2>2, <2>3
<1>8. StreamOK(s)'
  <2>1. /\ dropped'[s] = 0 /\ unread'[s] = IF dropped[s] > 0 THEN 1 ELSE 0
        /\ phase'[s] = phase[s] /\ first'[s] = first[s]
    BY <1>1, <1>2
  <2>2. unread'[s] <= HighWater + 2 /\ unread'[s] <= HighWater + 1
    BY <1>3, <2>1
  <2>3. s \in needDrain' => unread'[s] > 0
    BY <1>1, <1>3, <2>1
  <2>4. phase'[s] = "live" =>
            first'[s] + Covered(wire'[s], Len(wire'[s])) + dropped'[s] = logged' + 1
    <3> SUFFICES ASSUME phase[s] = "live"
                 PROVE  first[s] + (Covered(wire[s], Len(wire[s])) + dropped[s]) + 0 = logged + 1
      BY <1>1, <1>7, <2>1
    <3>1. first[s] + Covered(wire[s], Len(wire[s])) + dropped[s] = logged + 1
      BY <1>5 DEF StreamOK, Hearing
    <3> QED BY <1>3, <1>6, <3>1
  <2>5. dropped'[s] <= MaxDrops /\ dropped'[s] < MaxDrops
    BY <2>1
  <2> QED BY <1>7, <2>1, <2>2, <2>3, <2>4, <2>5 DEF StreamOK, Hearing
<1>9. ASSUME NEW t \in Streams, t # s PROVE StreamOK(t)'
  <2>1. /\ wire'[t] = wire[t] /\ unread'[t] = unread[t] /\ dropped'[t] = dropped[t]
        /\ phase'[t] = phase[t] /\ first'[t] = first[t]
        /\ t \in paused' <=> t \in paused
        /\ t \in needDrain' <=> t \in needDrain
    BY <1>1, <1>2, <1>9
  <2> QED BY <1>1, <2>1, OthersAreSound
<1>10. StreamTypes'
  <2>1. paused' \subseteq needDrain' /\ needDrain' \subseteq Streams
    BY <1>1, <1>2
  <2>2. dropped' \in [Streams -> Nat] /\ unread' \in [Streams -> Nat]
    BY <1>1, <1>2
  <2>3. wire' \in [Streams -> Seq(Items)]
    <3>1. wire' = IF dropped[s] > 0 THEN [wire EXCEPT ![s] = wire'[s]] ELSE wire
      BY <1>1, <1>2
    <3> QED BY <1>2, <1>7, <3>1
  <2>4. logged' \in Nat /\ history' \in Seq(Nat) /\ Len(history') <= HistorySize /\ Len(history') <= logged'
    BY <1>1 DEF StreamInv, StreamTypes
  <2> QED BY <1>1, <1>2, <2>1, <2>2, <2>3, <2>4 DEF StreamTypes
<1>11. \A i \in 1..Len(history') : history'[i] = logged' - Len(history') + i
  BY <1>1 DEF StreamInv
<1> QED BY <1>8, <1>9, <1>10, <1>11 DEF StreamInv

LEMMA ReadIsSound ==
    ASSUME StreamInv, NEW s \in Streams, Read(s)
    PROVE  StreamInv'
<1>1. UNCHANGED <<logged, history, phase, first>>
  BY DEF Read
<1>2. PICK rest \in 0..(unread[s] - 1) :
          IF rest = 0 /\ s \in needDrain /\ phase[s] # "ended"
          THEN StreamDrains(s)
          ELSE /\ unread' = [unread EXCEPT ![s] = rest]
               /\ UNCHANGED <<paused, needDrain, wire, dropped>>
  BY DEF Read
<1>3. CASE rest = 0 /\ s \in needDrain /\ phase[s] # "ended"
  <2>1. StreamDrains(s) /\ s \in needDrain
    BY <1>2, <1>3
  <2> QED BY <1>1, <2>1, DrainIsSound
<1>4. CASE ~(rest = 0 /\ s \in needDrain /\ phase[s] # "ended")
  <2>1. /\ unread' = [unread EXCEPT ![s] = rest]
        /\ paused' = paused /\ needDrain' = needDrain /\ wire' = wire /\ dropped' = dropped
        /\ logged' = logged /\ history' = history /\ phase' = phase /\ first' = first
    BY <1>1, <1>2, <1>4
  <2>2. unread \in [Streams -> Nat] /\ StreamOK(s)
    BY DEF StreamInv, StreamTypes
  <2>3. unread[s] \in Nat /\ rest \in Nat /\ rest <= unread[s]
    BY <2>2
  <2>4. StreamOK(s)'
    <3>1. unread'[s] = rest
      BY <2>1, <2>2
    <3>2. s \in needDrain' /\ phase'[s] \in {"live", "stuck"} => unread'[s] > 0
      BY <1>4, <2>1, <2>3, <3>1
    <3>3. /\ unread'[s] <= HighWater + 2
          /\ s \notin paused' => unread'[s] <= HighWater + 1 /\ dropped'[s] = 0
      BY <2>1, <2>2, <2>3, <3>1, StreamAssumption DEF StreamOK
    <3>4. /\ dropped'[s] <= MaxDrops /\ (phase'[s] = "live" => dropped'[s] < MaxDrops)
          /\ Numbered(wire'[s], first'[s])
          /\ phase'[s] = "live" =>
                first'[s] + Covered(wire'[s], Len(wire'[s])) + dropped'[s] = logged' + 1
      BY <2>1, <2>2 DEF StreamOK, Hearing
    <3> QED BY <3>2, <3>3, <3>4 DEF StreamOK, Hearing
  <2>5. ASSUME NEW t \in Streams, t # s PROVE StreamOK(t)'
    <3>1. unread'[t] = unread[t]
      BY <2>1, <2>2, <2>5
    <3> QED BY <2>1, <3>1, OthersAreSound
  <2>6. StreamTypes'
    <3>1. unread' \in [Streams -> Nat]
      BY <2>1, <2>2, <2>3
    <3> QED BY <2>1, <3>1 DEF StreamInv, StreamTypes
  <2>7. \A i \in 1..Len(history') : history'[i] = logged' - Len(history') + i
    BY <2>1 DEF StreamInv
  <2> QED BY <2>4, <2>5, <2>6, <2>7 DEF StreamInv
<1> QED BY <1>3, <1>4

LEMMA KeepaliveIsSound ==
    ASSUME StreamInv, NEW s \in Streams, Keepalive(s)
    PROVE  StreamInv'
<1>1. /\ unread' = [unread EXCEPT ![s] = unread[s] + 1]
      /\ needDrain' = IF unread[s] + 1 >= HighWater THEN needDrain \union {s} ELSE needDrain
      /\ paused' = paused /\ wire' = wire /\ dropped' = dropped
      /\ logged' = logged /\ history' = history /\ phase' = phase /\ first' = first
      /\ s \notin paused /\ unread[s] <= HighWater
  BY DEF Keepalive
<1>2. unread \in [Streams -> Nat] /\ needDrain \subseteq Streams /\ paused \subseteq needDrain /\ StreamOK(s)
  BY DEF StreamInv, StreamTypes
<1>3. unread[s] \in Nat
  BY <1>2
<1>4. StreamOK(s)'
  <2>1. unread'[s] = unread[s] + 1
    BY <1>1, <1>2
  <2>2. /\ unread'[s] > 0 /\ unread'[s] <= HighWater + 2 /\ unread'[s] <= HighWater + 1
    BY <1>1, <1>3, <2>1, StreamAssumption
  <2>3. s \notin paused' => dropped'[s] = 0
    BY <1>1, <1>2 DEF StreamOK
  <2>4. /\ dropped'[s] <= MaxDrops /\ (phase'[s] = "live" => dropped'[s] < MaxDrops)
        /\ Numbered(wire'[s], first'[s])
        /\ phase'[s] = "live" =>
              first'[s] + Covered(wire'[s], Len(wire'[s])) + dropped'[s] = logged' + 1
    BY <1>1, <1>2 DEF StreamOK, Hearing
  <2> QED BY <2>2, <2>3, <2>4 DEF StreamOK, Hearing
<1>5. ASSUME NEW t \in Streams, t # s PROVE StreamOK(t)'
  <2>1. unread'[t] = unread[t] /\ (t \in needDrain' <=> t \in needDrain)
    BY <1>1, <1>2, <1>5
  <2> QED BY <1>1, <2>1, OthersAreSound
<1>6. StreamTypes'
  <2>1. unread' \in [Streams -> Nat]
    BY <1>1, <1>2, <1>3
  <2>2. paused' \subseteq needDrain' /\ needDrain' \subseteq Streams
    BY <1>1, <1>2
  <2> QED BY <1>1, <2>1, <2>2 DEF StreamInv, StreamTypes
<1>7. \A i \in 1..Len(history') : history'[i] = logged' - Len(history') + i
  BY <1>1 DEF StreamInv
<1> QED BY <1>4, <1>5, <1>6, <1>7 DEF StreamInv

LEMMA DetachIsSound ==
    ASSUME StreamInv, NEW s \in Streams, Detach(s)
    PROVE  StreamInv'
<1>1. /\ phase' = [phase EXCEPT ![s] = "gone"]
      /\ unread' = unread /\ needDrain' = needDrain
      /\ paused' = paused /\ wire' = wire /\ dropped' = dropped
      /\ logged' = logged /\ history' = history /\ first' = first
  BY DEF Detach
<1>2. /\ phase \in [Streams -> {"none", "live", "stuck", "ended", "gone"}]
      /\ StreamOK(s)
  BY DEF StreamInv, StreamTypes
<1>3. StreamOK(s)'
  <2>1. phase'[s] = "gone"
    BY <1>1, <1>2
  <2>2. Numbered(wire'[s], first'[s])
    BY <1>1, <1>2 DEF StreamOK
  <2> QED BY <1>1, <1>2, <2>1, <2>2 DEF StreamOK, Hearing
<1>4. ASSUME NEW t \in Streams, t # s PROVE StreamOK(t)'
  <2>1. phase'[t] = phase[t]
    BY <1>1, <1>2, <1>4
  <2> QED BY <1>1, <2>1, OthersAreSound
<1>5. StreamTypes'
  <2>1. phase' \in [Streams -> {"none", "live", "stuck", "ended", "gone"}]
    BY <1>1, <1>2
  <2> QED BY <1>1, <2>1 DEF StreamInv, StreamTypes
<1>6. \A i \in 1..Len(history') : history'[i] = logged' - Len(history') + i
  BY <1>1 DEF StreamInv
<1> QED BY <1>3, <1>4, <1>5, <1>6 DEF StreamInv

LEMMA StreamNextIsSound == StreamInv /\ StreamNext => StreamInv'
<1> SUFFICES ASSUME StreamInv, StreamNext PROVE StreamInv'
  OBVIOUS
<1>1. PICK s \in Streams : \/ \E count \in 0..Len(history) : Attach(s, count)
                           \/ Read(s) \/ Keepalive(s) \/ Detach(s)
  BY DEF StreamNext
<1> QED BY <1>1, AttachIsSound, ReadIsSound, KeepaliveIsSound, DetachIsSound

LEMMA StreamInvImplies == StreamInv => StreamTypeOK /\ GapsAreMarked
<1> SUFFICES ASSUME StreamInv PROVE StreamTypeOK /\ GapsAreMarked
  OBVIOUS
<1>1. /\ logged \in Nat /\ history \in Seq(Nat) /\ Len(history) <= HistorySize
      /\ Len(history) <= logged /\ Len(history) \in Nat
      /\ phase \in [Streams -> {"none", "live", "stuck", "ended", "gone"}]
      /\ paused \subseteq needDrain /\ needDrain \subseteq Streams
      /\ dropped \in [Streams -> Nat] /\ wire \in [Streams -> Seq(Items)]
  BY DEF StreamInv, StreamTypes
<1>2. \A s \in Streams : StreamOK(s)
  BY DEF StreamInv
<1>3. history \in Seq(1..logged)
  <2>1. \A i \in 1..Len(history) : history[i] \in 1..logged
    <3> TAKE i \in 1..Len(history)
    <3>1. history[i] = logged - Len(history) + i
      BY DEF StreamInv
    <3> QED BY <1>1, <3>1
  <2>2. history = [i \in 1..Len(history) |-> history[i]]
    BY <1>1
  <2>3. history \in [1..Len(history) -> 1..logged]
    BY <2>1, <2>2
  <2> QED BY <1>1, <2>3
<1>4. dropped \in [Streams -> 0..MaxDrops]
  <2>1. \A s \in Streams : dropped[s] \in 0..MaxDrops
    BY <1>1, <1>2, StreamAssumption DEF StreamOK
  <2> QED BY <1>1, <2>1
<1>5. StreamTypeOK
  BY <1>1, <1>2, <1>3, <1>4 DEF StreamTypeOK, StreamOK
<1>6. GapsAreMarked
  <2> SUFFICES ASSUME NEW s \in Streams
               PROVE  /\ \A i \in DOMAIN wire[s] :
                            wire[s][i].entry # 0 =>
                                wire[s][i].entry = first[s] + Covered(wire[s], i - 1)
                      /\ Hearing(s) =>
                            first[s] + Covered(wire[s], Len(wire[s])) + dropped[s] = logged + 1
    BY DEF GapsAreMarked
  <2>1. DOMAIN wire[s] = 1..Len(wire[s])
    BY <1>1
  <2> QED BY <1>2, <2>1 DEF StreamOK, Numbered
<1> QED BY <1>5, <1>6

-----------------------------------------------------------------------------
(* The audit log: every entry goes to the streams and to the webhook.       *)
AuditInv == StreamInv /\ HookInv

LEMMA AuditInductive == AuditInv /\ [AuditNext]_auditVars => AuditInv'
<1> SUFFICES ASSUME StreamInv, HookInv, [AuditNext]_auditVars PROVE StreamInv' /\ HookInv'
  BY DEF AuditInv
<1>1. ASSUME UNCHANGED hookVars PROVE HookInv'
  BY <1>1 DEF HookInv, CloseFlushes, hookVars
<1>2. ASSUME UNCHANGED <<logged, streamVars>> PROVE StreamInv'
  <2>1. \A s \in Streams : StreamOK(s)'
    BY <1>2, OthersAreSound DEF streamVars
  <2>2. StreamTypes'
    BY <1>2 DEF StreamInv, StreamTypes, streamVars
  <2>3. \A i \in 1..Len(history') : history'[i] = logged' - Len(history') + i
    BY <1>2 DEF StreamInv, streamVars
  <2> QED BY <2>1, <2>2, <2>3 DEF StreamInv
<1>3. CASE WriteEntry
  <2>1. logged + 1 \in Nat
    BY DEF StreamInv, StreamTypes
  <2>2. StreamInv'
    BY <1>3, PublishIsSound DEF WriteEntry
  <2>3. HookInv'
    BY <1>3, <2>1, HookWriteIsSound DEF WriteEntry
  <2> QED BY <2>2, <2>3
<1>4. CASE StreamNext /\ UNCHANGED hookVars
  BY <1>1, <1>4, StreamNextIsSound
<1>5. CASE HookNext /\ UNCHANGED <<logged, streamVars>>
  BY <1>2, <1>5, HookNextIsSound
<1>6. CASE UNCHANGED auditVars
  <2>1. UNCHANGED hookVars /\ UNCHANGED <<logged, streamVars>>
    BY <1>6 DEF auditVars, hookVars, streamVars
  <2> QED BY <1>1, <1>2, <2>1
<1> QED BY <1>3, <1>4, <1>5, <1>6 DEF AuditNext

LEMMA AuditInvImplies == AuditInv => AuditTypeOK /\ GapsAreMarked /\ CloseFlushes
BY StreamInvImplies, HookInvImplies DEF AuditInv, AuditTypeOK

(* However many streams attach, read slowly, are paused, drained and given  *)
(* up: whoever adds up what a stream was told knows which entry is which.   *)
(* And when close() has settled, what it flushed was delivered or given up. *)
THEOREM AuditIsSound == AuditSpec => [](AuditTypeOK /\ GapsAreMarked /\ CloseFlushes)
<1>1. AuditInit => AuditInv
  BY StreamInitially, HookInitially DEF AuditInit, AuditInv
<1>2. AuditSpec => []AuditInv
  BY <1>1, AuditInductive, PTL DEF AuditSpec
<1> QED BY <1>2, AuditInvImplies, PTL

(* Both parts of the admin server together, as the runs check them.         *)
THEOREM AdminIsSound ==
    Spec => [](LimitersInStep /\ TrieDecides /\ TypeOK /\ GapsAreMarked /\ CloseFlushes)
<1> DEFINE Inv == RulesInv /\ AuditInv
<1>1. Init => Inv
  BY RulesInitially, StreamInitially, HookInitially DEF Init, AuditInit, AuditInv
<1>2. Inv /\ [Next]_adminVars => Inv'
  <2>1. [Next]_adminVars => [RulesNext]_rulesVars /\ [AuditNext]_auditVars
    BY DEF Next, adminVars
  <2> QED BY <2>1, RulesInductive, AuditInductive
<1>3. Inv => LimitersInStep /\ TrieDecides /\ TypeOK /\ GapsAreMarked /\ CloseFlushes
  BY RulesInvImplies, AuditInvImplies DEF TypeOK
<1> HIDE DEF Inv
<1> QED BY <1>1, <1>2, <1>3, PTL DEF Spec

(* The types of the audit log: nothing is over the bounds of its buffers.   *)
THEOREM TypeCorrect == Spec => []TypeOK
BY AdminIsSound, PTL

(* Whatever edits were made, the trie hands out a rule for a host exactly   *)
(* where some rule in force accepts it.                                     *)
THEOREM RulesDecide == Spec => []TrieDecides
BY AdminIsSound, PTL
=============================================================================
