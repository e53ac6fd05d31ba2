----------------------------- MODULE RunCommand -----------------------------
(***************************************************************************)
(* Processes of `ts-agent-proxy run` (cli/run.ts) that share the pidfile    *)
(* (cli/pidfile.ts), each with the child it runs and with the clients of its*)
(* admin server: the tails (cli/tail.ts), which find it through the pidfile,*)
(* and others. Provisioning the CA is CaCache's, and the server's own       *)
(* shutdown is ProxyServer's: it settles unless such a client holds it.     *)
(*                                                                          *)
(* A signal is handled between two events of the process. A process that is *)
(* gone stays gone, and its pid is not used again.                          *)
(***************************************************************************)
EXTENDS FiniteSets

CONSTANTS Runs, Nobody

ASSUME RunAssumption == Nobody \notin Runs

VARIABLES
    pidfile,    \* the process the pidfile names
    pc,         \* where runUnderProxy is
    requested,  \* processes whose shutdownPromise is resolved
    forwarded,  \* those with secondSignalSeen set
    killTimer,  \* those whose grace timer runs
    child,      \* "none", "alive", "killed" (it was sent SIGKILL), "gone"
    held        \* processes with an unfinished connection to their admin server

runVars == <<pidfile, pc, requested, forwarded, killTimer, child, held>>

Ended == {"refused", "exited", "dead"}

(* isProcessAlive                                                           *)
Alive(p) == pc[p] \notin {"new"} \union Ended

RunInit ==
    /\ pidfile = Nobody
    /\ pc = [p \in Runs |-> "new"]
    /\ requested = {} /\ forwarded = {} /\ killTimer = {}
    /\ child = [p \in Runs |-> "none"]
    /\ held = {}

Goto(p, to) == pc' = [pc EXCEPT ![p] = to]

-----------------------------------------------------------------------------
(* checkForLiveRun: a stale file is read, found stale, and then removed.    *)
CheckForLiveRun(p) ==
    /\ pc[p] = "new"
    /\ Goto(p, IF pidfile = Nobody THEN "starting"
               ELSE IF Alive(pidfile) THEN "refused" ELSE "stale")
    /\ UNCHANGED <<pidfile, requested, forwarded, killTimer, child, held>>

RemoveStale(p) ==
    /\ pc[p] = "stale"
    /\ pidfile' = Nobody
    /\ Goto(p, "starting")
    /\ UNCHANGED <<requested, forwarded, killTimer, child, held>>

(* The CA, the ports, the configuration or the certificates cannot be had.  *)
StartThrows(p) ==
    /\ pc[p] = "starting"
    /\ Goto(p, "exited")
    /\ UNCHANGED <<pidfile, requested, forwarded, killTimer, child, held>>

(* A port was taken meanwhile: start() never settles (ProxyServer).         *)
StartSticks(p) ==
    /\ pc[p] = "starting"
    /\ Goto(p, "stuck")
    /\ UNCHANGED <<pidfile, requested, forwarded, killTimer, child, held>>

(* Variant of Started: the pidfile is written first.                        *)
StartedWritesFirst(p) ==
    /\ pc[p] = "starting"
    /\ pidfile' = p
    /\ \/ /\ p \in requested
          /\ Goto(p, "withdrawing")
          /\ UNCHANGED child
       \/ /\ p \notin requested
          /\ Goto(p, "running")
          /\ \E c \in {"alive", "gone"} : child' = [child EXCEPT ![p] = c]
    /\ UNCHANGED <<requested, forwarded, killTimer, held>>

(* Variant of Started: the child is spawned before the signal is noticed.   *)
StartedSpawnsFirst(p) ==
    /\ pc[p] = "starting"
    /\ child' = [child EXCEPT ![p] = "alive"]
    /\ \/ /\ p \in requested
          /\ Goto(p, "withdrawing")
          /\ UNCHANGED pidfile
       \/ /\ p \notin requested
          /\ pidfile' = p
          /\ Goto(p, "running")
    /\ UNCHANGED <<requested, forwarded, killTimer, held>>

(* server.start() settled. A process that was signalled meanwhile only stops*)
(* its server; otherwise the pidfile is written, whatever it holds by now,  *)
(* and the child spawned. One that cannot be spawned is "gone".             *)
Started(p) ==
    /\ pc[p] = "starting"
    /\ \/ /\ p \in requested
          /\ Goto(p, "withdrawing")
          /\ UNCHANGED <<pidfile, child>>
       \/ /\ p \notin requested
          /\ pidfile' = p
          /\ Goto(p, "running")
          /\ \E c \in {"alive", "gone"} : child' = [child EXCEPT ![p] = c]
    /\ UNCHANGED <<requested, forwarded, killTimer, held>>

(* server.stop() settles, and the process returns.                          *)
Withdraw(p) ==
    /\ pc[p] = "withdrawing" /\ p \notin held
    /\ Goto(p, "exited")
    /\ UNCHANGED <<pidfile, requested, forwarded, killTimer, child, held>>

-----------------------------------------------------------------------------
SignalEarly(p) ==
    /\ pc[p] \in {"starting", "stuck"}
    /\ requested' = requested \union {p}
    /\ UNCHANGED <<pidfile, pc, forwarded, killTimer, child, held>>

(* forward is called by its own handler and, for the first signal, by the   *)
(* resolved shutdownPromise as well. The call after the first one kills.    *)
Kills(p) == p \in forwarded \/ p \notin requested

(* Variant of SignalRunning: signals are passed on, and that is all.        *)
SignalPassedOn(p) ==
    /\ pc[p] \in {"running", "stopping"}
    /\ requested' = requested \union {p}
    /\ forwarded' = forwarded \union {p}
    /\ UNCHANGED <<pidfile, pc, killTimer, child, held>>

SignalRunning(p) ==
    /\ pc[p] \in {"running", "stopping"}
    /\ requested' = requested \union {p}
    /\ forwarded' = forwarded \union {p}
    /\ killTimer' = IF p \in forwarded THEN killTimer ELSE killTimer \union {p}
    /\ child' = IF child[p] = "alive" /\ Kills(p) THEN [child EXCEPT ![p] = "killed"]
                                                  ELSE child
    /\ UNCHANGED <<pidfile, pc, held>>

(* SHUTDOWN_GRACE_MS are over.                                              *)
GraceEnds(p) ==
    /\ p \in killTimer
    /\ killTimer' = killTimer \ {p}
    /\ child' = IF child[p] = "alive" THEN [child EXCEPT ![p] = "killed"] ELSE child
    /\ UNCHANGED <<pidfile, pc, requested, forwarded, held>>

(* By itself, on the forwarded signal, or killed.                           *)
ChildExits(p) ==
    /\ child[p] \in {"alive", "killed"}
    /\ child' = [child EXCEPT ![p] = "gone"]
    /\ UNCHANGED <<pidfile, pc, requested, forwarded, killTimer, held>>

(* The child's 'exit' or 'error': finalize up to server.stop().             *)
Finalize(p) ==
    /\ pc[p] = "running" /\ child[p] = "gone"
    /\ Goto(p, "stopping")
    /\ killTimer' = killTimer \ {p}
    /\ UNCHANGED <<pidfile, requested, forwarded, child, held>>

(* Variant of Exit: the grace timer survives.                               *)
ExitTimed(p) ==
    /\ pc[p] = "stopping" /\ p \notin held
    /\ Goto(p, "exited")
    /\ pidfile' = Nobody
    /\ UNCHANGED <<requested, forwarded, killTimer, child, held>>

(* server.stop() settles, not while it is held; then removePidfile.         *)
Exit(p) ==
    /\ pc[p] = "stopping" /\ p \notin held
    /\ Goto(p, "exited")
    /\ pidfile' = Nobody
    /\ killTimer' = killTimer \ {p}
    /\ UNCHANGED <<requested, forwarded, child, held>>

(* SIGKILL, an uncaught exception, or a signal whose handler is used up.    *)
Dies(p) ==
    /\ Alive(p)
    /\ Goto(p, "dead")
    /\ killTimer' = killTimer \ {p} /\ held' = held \ {p}
    /\ UNCHANGED <<pidfile, requested, forwarded, child>>

-----------------------------------------------------------------------------
(* resolveAdminUrl: the pidfile's process, if it is alive. In server.stop() *)
(* its admin server listens until the proxy has drained.                    *)
TailStarts ==
    /\ pidfile # Nobody /\ pc[pidfile] \in {"running", "stopping"}
    /\ held' = held \union {pidfile}
    /\ UNCHANGED <<pidfile, pc, requested, forwarded, killTimer, child>>

(* Any other client, which need not send anything. One that connected while *)
(* start() still waited for the proxy's port is like one that does so after.*)
ClientConnects(p) ==
    /\ pc[p] \in {"running", "stopping", "withdrawing"}
    /\ held' = held \union {p}
    /\ UNCHANGED <<pidfile, pc, requested, forwarded, killTimer, child>>

(* The last of them is done, or leaves.                                     *)
ClientsLeave(p) ==
    /\ p \in held
    /\ held' = held \ {p}
    /\ UNCHANGED <<pidfile, pc, requested, forwarded, killTimer, child>>

RunNext ==
    \/ TailStarts
    \/ \E p \in Runs : \/ CheckForLiveRun(p) \/ RemoveStale(p)
                       \/ StartThrows(p) \/ StartSticks(p) \/ Started(p)
                       \/ Withdraw(p)
                       \/ SignalEarly(p) \/ SignalRunning(p) \/ GraceEnds(p)
                       \/ ChildExits(p) \/ Finalize(p) \/ Exit(p)
                       \/ Dies(p) \/ ClientConnects(p) \/ ClientsLeave(p)

RunSpec == RunInit /\ [][RunNext]_runVars

(* A process goes on, timers expire, and what was sent SIGKILL exits. Nobody*)
(* need start a process, send a signal or close a connection; a child may   *)
(* run on.                                                                  *)
RunFairSpec ==
    /\ RunSpec
    /\ \A p \in Runs : /\ WF_runVars(RemoveStale(p))
                       /\ WF_runVars(StartThrows(p) \/ StartSticks(p) \/ Started(p))
                       /\ WF_runVars(Withdraw(p))
                       /\ WF_runVars(GraceEnds(p))
                       /\ WF_runVars(child[p] = "killed" /\ ChildExits(p))
                       /\ WF_runVars(Finalize(p))
                       /\ WF_runVars(Exit(p))

-----------------------------------------------------------------------------
(* Types: a grace timer runs only for a child that was signalled, and only a*)
(* process that spawned has a child.                                        *)
RunTypeOK ==
    /\ pidfile \in Runs \union {Nobody}
    /\ pc \in [Runs -> {"new", "stale", "starting", "stuck", "withdrawing", "running",
                        "stopping"} \union Ended]
    /\ requested \subseteq Runs /\ forwarded \subseteq requested
    /\ killTimer \subseteq forwarded /\ held \subseteq Runs
    /\ child \in [Runs -> {"none", "alive", "killed", "gone"}]
    /\ \A p \in Runs : /\ p \in killTimer => pc[p] \in {"running", "stopping"}
                       /\ child[p] # "none" => pc[p] \in {"running", "stopping", "exited", "dead"}

(* The pidfile never names a process that is not yet up or that returned: a *)
(* tail that reads it finds a proxy, or one that died.                      *)
PidfileNamesRun == pidfile # Nobody => pc[pidfile] \in {"running", "stopping", "dead"}

(* A process that stops its server or returns, on whichever way, leaves no  *)
(* child behind that would talk to a proxy that is gone.                    *)
NoChildLeft ==
    \A p \in Runs : pc[p] \in {"withdrawing", "stopping", "exited"} => child[p] \in {"none", "gone"}

(* A signal ends the process, however its child takes it - unless start() is*)
(* stuck, or clients hold the admin server for ever: an audit stream, or a  *)
(* connection that sends nothing.                                           *)
SignalEndsRun ==
    \A p \in Runs :
        <>[](p \notin held) => (p \in requested ~> pc[p] \in Ended \union {"stuck"})

(* "Second Ctrl-C means the user wants out now, not in 10s": the first one  *)
(* leaves the child its grace time.                                         *)
GraceGiven ==
    [][\A p \in Runs : child[p] = "alive" /\ child'[p] = "killed"
                       => p \in requested \/ GraceEnds(p)]_runVars
=============================================================================
