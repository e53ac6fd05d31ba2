------------------------------ MODULE CaCache ------------------------------
(***************************************************************************)
(* The CA that `ts-agent-proxy run` keeps in the user's cache directory     *)
(* (cli/ca-cache.ts): two files, replaced one after the other under a lock  *)
(* file, and read by CertManager.loadCa (proxy/mitm/cert-manager.ts).       *)
(*                                                                          *)
(* ensureCa is synchronous, but processes interleave between any two of its *)
(* file operations. inspectCa is one step: files are never removed and the  *)
(* certificate is read last.                                                *)
(*                                                                          *)
(* A certificate or key is the process that made it, Expiring (or not       *)
(* parseable) if it was there before, or Missing.                           *)
(***************************************************************************)
EXTENDS Naturals

CONSTANTS Processes, Missing, Expiring,
          Attempts  \* tries to get the lock (50)

ASSUME CaAssumption == /\ Missing \notin Processes /\ Expiring \notin Processes
                       /\ Attempts \in Nat \ {0}

VARIABLES
    cert, key,  \* ca.pem and ca-key.pem
    lock,       \* "free", "held", or "stale": older than 60 seconds
    pc,         \* where ensureCa is
    attempt,
    loaded      \* the pair a process uses

caVars == <<cert, key, lock, pc, attempt, loaded>>

Usable == key # Missing /\ cert \in Processes

Critical == {p \in Processes : pc[p] \in {"locked", "cert", "key", "unlock"}}
Ended == {"ready", "failed", "dead"}
Crashed == \E p \in Processes : pc[p] = "dead"

CaInit ==
    /\ cert \in {Missing, Expiring} /\ key \in {Missing, Expiring}
    /\ lock = "free"
    /\ pc = [p \in Processes |-> "new"]
    /\ attempt = [p \in Processes |-> 0]
    /\ loaded = [p \in Processes |-> <<Missing, Missing>>]

Goto(p, to) == pc' = [pc EXCEPT ![p] = to]

Inspect(p) ==
    /\ pc[p] = "new"
    /\ Goto(p, IF Usable THEN "provided" ELSE "try")
    /\ UNCHANGED <<cert, key, lock, attempt, loaded>>

(* Variant of TakeLock: opened with 'w', whether it exists or not.          *)
TakeLockAnyway(p) ==
    /\ pc[p] = "try"
    /\ lock' = "held"
    /\ Goto(p, "locked")
    /\ UNCHANGED <<cert, key, attempt, loaded>>

(* openSync(lockPath, 'wx')                                                 *)
TakeLock(p) ==
    /\ pc[p] = "try" /\ lock = "free"
    /\ lock' = "held"
    /\ Goto(p, "locked")
    /\ UNCHANGED <<cert, key, attempt, loaded>>

(* EEXIST: the age of the lock is looked up, and it is removed afterwards.  *)
LockTaken(p) ==
    /\ pc[p] = "try" /\ lock # "free"
    /\ Goto(p, IF lock = "stale" THEN "steal" ELSE "wait")
    /\ UNCHANGED <<cert, key, lock, attempt, loaded>>

Steal(p) ==
    /\ pc[p] = "steal"
    /\ lock' = "free"
    /\ Goto(p, "wait")
    /\ UNCHANGED <<cert, key, attempt, loaded>>

(* Variant of Wait: waits as long as it takes.                              *)
WaitForever(p) ==
    /\ pc[p] = "wait"
    /\ Goto(p, IF Usable THEN "provided" ELSE "try")
    /\ UNCHANGED <<cert, key, lock, attempt, loaded>>

(* 100 ms later.                                                            *)
Wait(p) ==
    /\ pc[p] = "wait"
    /\ attempt' = [attempt EXCEPT ![p] = @ + 1]
    /\ Goto(p, IF Usable THEN "provided"
               ELSE IF attempt[p] + 1 < Attempts THEN "try" ELSE "failed")
    /\ UNCHANGED <<cert, key, lock, loaded>>

(* Variant of Recheck: the CA found missing before the lock is generated.   *)
RecheckNot(p) ==
    /\ pc[p] = "locked"
    /\ Goto(p, "cert")
    /\ UNCHANGED <<cert, key, lock, attempt, loaded>>

Recheck(p) ==
    /\ pc[p] = "locked"
    /\ Goto(p, IF Usable THEN "unlock" ELSE "cert")
    /\ UNCHANGED <<cert, key, lock, attempt, loaded>>

(* generateCa                                                               *)
WriteCert(p) ==
    /\ pc[p] = "cert"
    /\ cert' = p
    /\ Goto(p, "key")
    /\ UNCHANGED <<key, lock, attempt, loaded>>

WriteKey(p) ==
    /\ pc[p] = "key"
    /\ key' = p
    /\ Goto(p, "unlock")
    /\ UNCHANGED <<cert, lock, attempt, loaded>>

(* The lock is removed by name, whosever it is by now.                      *)
Unlock(p) ==
    /\ pc[p] = "unlock"
    /\ lock' = "free"
    /\ Goto(p, "provided")
    /\ UNCHANGED <<cert, key, attempt, loaded>>

(* loadCa: the certificate, then the key.                                   *)
LoadCert(p) ==
    /\ pc[p] = "provided"
    /\ loaded' = [loaded EXCEPT ![p][1] = cert]
    /\ Goto(p, "loading")
    /\ UNCHANGED <<cert, key, lock, attempt>>

LoadKey(p) ==
    /\ pc[p] = "loading"
    /\ loaded' = [loaded EXCEPT ![p][2] = key]
    /\ Goto(p, "ready")
    /\ UNCHANGED <<cert, key, lock, attempt>>

Dies(p) ==
    /\ pc[p] \notin Ended \union {"new"}
    /\ Goto(p, "dead")
    /\ UNCHANGED <<cert, key, lock, attempt, loaded>>

(* No living process holds a lock for 60 seconds.                           *)
LockAges ==
    /\ lock = "held" /\ Critical = {}
    /\ lock' = "stale"
    /\ UNCHANGED <<cert, key, pc, attempt, loaded>>

CaStep(p) == \/ TakeLock(p) \/ LockTaken(p) \/ Steal(p) \/ Wait(p)
             \/ Recheck(p) \/ WriteCert(p) \/ WriteKey(p) \/ Unlock(p)
             \/ LoadCert(p) \/ LoadKey(p)

CaNext == LockAges \/ \E p \in Processes : Inspect(p) \/ CaStep(p) \/ Dies(p)

CaSpec == CaInit /\ [][CaNext]_caVars

(* A process that entered ensureCa goes on.                                 *)
CaFairness == \A p \in Processes : WF_caVars(CaStep(p))

CaFairSpec == CaSpec /\ CaFairness

-----------------------------------------------------------------------------
(* Types: the lock is held while a process is under it, unless one died.    *)
CaTypeOK ==
    /\ cert \in Processes \union {Missing, Expiring}
    /\ key \in Processes \union {Missing, Expiring}
    /\ lock \in {"free", "held", "stale"}
    /\ pc \in [Processes -> {"new", "try", "steal", "wait", "locked", "cert", "key",
                             "unlock", "provided", "loading"} \union Ended]
    /\ attempt \in [Processes -> 0..Attempts]
    /\ \A p \in Processes : \A f \in {1, 2} :
           loaded[p][f] \in Processes \union {Missing, Expiring}
    /\ ~Crashed => (lock = "held" <=> Critical # {})

(* One process at a time generates a CA, and what the others get is its     *)
(* pair: unless a process died, the files differ only while one writes them,*)
(* and a process uses halves of two CAs only if it read the old key in that *)
(* moment of a renewal.                                                     *)
OnePair ==
    ~Crashed =>
        /\ \A p, q \in Critical : p = q
        /\ Usable /\ cert # key => \E p \in Processes : pc[p] = "key"
        /\ \A p \in Processes : pc[p] = "ready" => loaded[p][2] \in {loaded[p][1], Expiring}

(* A usable CA is not replaced, as proxies may have loaded it - unless a    *)
(* process died and its lock was taken away by two others.                  *)
UsableStays == [][Usable /\ ~Crashed => cert' = cert]_caVars

(* Every process gets a CA or gives up, whoever died with the lock.         *)
EnsureSettles == \A p \in Processes : (pc[p] # "new") ~> (pc[p] \in Ended)
=============================================================================
