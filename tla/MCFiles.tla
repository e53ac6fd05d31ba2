------------------------------ MODULE MCFiles ------------------------------
(***************************************************************************)
(* Three components that work on files other processes, or the same one    *)
(* behind its own back, work on too.  They share nothing, so a behaviour   *)
(* exercises one of them, chosen at the start: the state space is the sum  *)
(* of theirs, not the product.                                             *)
(***************************************************************************)
EXTENDS CaCache, FileDestination, ConfigWatcher

VARIABLE part

filesVars == <<caVars, fileVars, watcherVars, part>>

Init == /\ part \in {"ca", "log", "watcher"}
        /\ FileInit
        /\ IF part = "ca" THEN CaInit
                          ELSE CaInit /\ cert = Missing /\ key = Missing
        /\ IF part = "watcher" THEN WatcherInit ELSE WatcherInit /\ ~yaml

Next == /\ \/ part = "ca" /\ CaNext /\ UNCHANGED <<fileVars, watcherVars>>
           \/ part = "log" /\ FileNext /\ UNCHANGED <<caVars, watcherVars>>
           \/ part = "watcher" /\ WatcherNext /\ UNCHANGED <<caVars, fileVars>>
        /\ UNCHANGED part

\* The fairness of the components: outside its part a component stands still.
Spec == /\ Init /\ [][Next]_filesVars
        /\ \A p \in Processes : WF_caVars(part = "ca" /\ CaStep(p))
        /\ WF_watcherVars(part = "watcher" /\ Tick)
        /\ WF_watcherVars(part = "watcher" /\ WatcherProgress)

\* The type invariants of the three.
TypeOK == CaTypeOK /\ FileTypeOK /\ WatcherTypeOK
=============================================================================
