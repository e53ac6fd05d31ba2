---------------------------- MODULE Files_proofs ----------------------------
(***************************************************************************)
(* The CA cache, the rotated log file and the configuration watcher, for any*)
(* number of processes, files, entries and writes.  Each component has its  *)
(* inductive invariant; MCFiles, which runs one of them, has them all.      *)
(***************************************************************************)
EXTENDS MCFiles, FiniteSetTheorems, ProofLemmas

(***************************************************************************)
(* The CA cache.                                                            *)
(***************************************************************************)
Origin == Processes \union {Missing, Expiring}

(* Types the steps rely on: a process that still tries has attempts left.   *)
CaTypes ==
    /\ cert \in Origin /\ key \in Origin
    /\ lock \in {"free", "held", "stale"}
    /\ pc \in [Processes -> {"new", "try", "steal", "wait", "locked", "cert", "key",
                             "unlock", "provided", "loading"} \union Ended]
    /\ attempt \in [Processes -> 0..Attempts]
    /\ \A p \in Processes : pc[p] \in {"new", "try", "steal", "wait"} => attempt[p] < Attempts
    /\ loaded \in [Processes -> [{1, 2} -> Origin]]

(* As long as no process died: the lock has one holder, and no one has cause*)
(* to take it away.                                                         *)
OneHolder ==
    /\ lock = "held" <=> Critical # {}
    /\ lock # "stale"
    /\ \A p \in Processes : pc[p] # "steal"
    /\ \A p, q \in Critical : p = q

(* The files: the key of a process is that of its certificate, and only the *)
(* holder of the lock finds them unusable and changes that.                 *)
PairFiles ==
    /\ key \in Processes => key = cert
    /\ Usable /\ cert # key => \E p \in Processes : pc[p] = "key"
    /\ \A p \in Processes : /\ pc[p] = "cert" => ~Usable
                            /\ pc[p] = "key" => cert = p
                            /\ pc[p] \in {"unlock", "provided", "loading"} => Usable

(* What a process loads: the certificate in use, and then the key.          *)
PairLoaded ==
    \A p \in Processes : /\ pc[p] = "loading" => loaded[p][1] = cert
                         /\ pc[p] = "ready" => loaded[p][2] \in {loaded[p][1], Expiring}

CaInv == CaTypes /\ (~Crashed => OneHolder /\ PairFiles /\ PairLoaded)

(***************************************************************************)
(* The rotated log file.                                                    *)
(***************************************************************************)
StreamOf(n) == [at : Places \cup {Opening, Unlinked}, buffer : Seq(1 .. n), ended : BOOLEAN]

InFile(i) == ToSet(files[i])
Queued(k) == ToSet(streams[k].buffer)
At(k) == streams[k].at

(* Types the steps rely on: an open destination has a stream to write to, a *)
(* process that ended has none.                                             *)
LogTypes ==
    /\ files \in [DOMAIN files -> Seq(1 .. logged)] /\ DOMAIN files \subseteq Places
    /\ streams \in Seq(StreamOf(logged))
    /\ size \in 0 .. logged /\ logged \in 0 .. MaxEntries
    /\ open \in {"open", "closing", "closed", "down"}
    /\ lost \subseteq 1 .. logged /\ hasty \in BOOLEAN
    /\ open = "open" => streams # <<>> /\ ~streams[Current].ended
    /\ open = "down" => streams = <<>>

(* No entry is in two places.                                               *)
Once ==
    /\ \A i \in DOMAIN files : IsInjective(files[i])
    /\ \A k \in DOMAIN streams : IsInjective(streams[k].buffer)
    /\ \A i, j \in DOMAIN files : i # j => InFile(i) \cap InFile(j) = {}
    /\ \A i \in DOMAIN files, k \in DOMAIN streams : InFile(i) \cap Queued(k) = {}
    /\ \A k, l \in DOMAIN streams : k # l => Queued(k) \cap Queued(l) = {}

(* As long as no file was rotated before its stream had opened it: a stream *)
(* is at its own file, the older one at the older file; one that is not the *)
(* last was rotated away.                                                   *)
Placed ==
    /\ \A k \in DOMAIN streams : At(k) \in Places => At(k) \in DOMAIN files
    /\ \A k, l \in DOMAIN streams :
           k < l => At(k) >= 1 /\ (At(k) > At(l) \/ (At(k) = Unlinked /\ At(l) = Unlinked))
    /\ open = "open" => At(Current) \in {Opening, 0}

(* The entries are in order: in a file, in a stream, from an older file to a*)
(* younger one and from a file to the stream that writes to it.             *)
Below(S, T) == \A d \in S, e \in T : d < e
Increasing(s) == \A a, b \in 1 .. Len(s) : a < b => s[a] < s[b]

InOrder ==
    /\ \A i \in DOMAIN files : Increasing(files[i])
    /\ \A k \in DOMAIN streams : Increasing(streams[k].buffer)
    /\ \A i, j \in DOMAIN files : i > j => Below(InFile(i), InFile(j))
    /\ \A k, l \in DOMAIN streams : k < l => Below(Queued(k), Queued(l))
    /\ \A i \in DOMAIN files, k \in DOMAIN streams :
           IF i >= At(k) THEN Below(InFile(i), Queued(k)) ELSE Below(Queued(k), InFile(i))

(* An entry has been pushed as far as later ones were logged; the rest of   *)
(* the log is accounted for.                                                *)
Full(n) == n * MaxFileSize
Rest == Full(MaxFiles - 1)
Behind(i) == IF i = Unlinked THEN Rest ELSE size + Full(i - 1)

Unwritten == IF streams # <<>> /\ At(Current) \in {Opening, 0} THEN Len(streams[Current].buffer) ELSE 0

Pushed ==
    /\ SizeOnDisk + Unwritten <= size
    /\ \A i \in DOMAIN files : i >= 1 => \A e \in InFile(i) : logged - e >= Behind(i)
    /\ \A k \in DOMAIN streams : At(k) >= 1 => \A e \in Queued(k) : logged - e >= Behind(At(k))

Kept == \A e \in 1 .. logged : \/ e \in lost
                               \/ \E i \in DOMAIN files : e \in InFile(i)
                               \/ \E k \in DOMAIN streams : e \in Queued(k)
                               \/ logged - e >= Rest

LogInv == LogTypes /\ Once /\ (~hasty => Placed /\ InOrder /\ Pushed /\ Kept)

(***************************************************************************)
(* The watcher.                                                             *)
(***************************************************************************)
(* A file is not from the future.                                           *)
WatcherInv == WatcherTypeOK /\ file.mtime <= clock

-----------------------------------------------------------------------------
(* The CA cache.                                                            *)

LEMMA InitCa == CaInit => CaInv
<1> SUFFICES ASSUME CaInit PROVE CaInv
  OBVIOUS
<1>1. <<Missing, Missing>> \in [{1, 2} -> Origin]
  <2>1. <<Missing, Missing>> \in [1..2 -> Origin]
    BY DEF Origin
  <2>2. 1..2 = {1, 2}
    OBVIOUS
  <2> QED BY <2>1, <2>2
<1>2. loaded \in [Processes -> [{1, 2} -> Origin]]
  BY <1>1 DEF CaInit
<1>3. \A p \in Processes : attempt[p] \in 0..Attempts /\ attempt[p] < Attempts
  <2>1. 0 \in 0..Attempts /\ 0 < Attempts
    BY CaAssumption
  <2> QED BY <2>1 DEF CaInit
<1>4. CaTypes
  BY <1>2, <1>3 DEF CaInit, CaTypes, Origin, Ended
<1>5. OneHolder /\ PairFiles /\ PairLoaded
  BY CaAssumption DEF CaInit, OneHolder, PairFiles, PairLoaded, Critical, Usable
<1> QED BY <1>4, <1>5 DEF CaInv

(* The step of a process, as the invariant sees it.                         *)
LEMMA CaMoves ==
    ASSUME CaInv, NEW p \in Processes, NEW to, Goto(p, to)
    PROVE  /\ pc'[p] = to /\ \A q \in Processes \ {p} : pc'[q] = pc[q]
           /\ Crashed' => Crashed \/ to = "dead"
           /\ pc[p] # "dead" => (Crashed => Crashed')
BY DEF CaInv, CaTypes, Goto, Crashed

LEMMA CaTypesKept ==
    ASSUME CaInv, NEW p \in Processes, Inspect(p) \/ CaStep(p) \/ Dies(p) \/ LockAges
    PROVE  CaTypes'
<1> USE DEF Inspect, CaStep, TakeLock, LockTaken, Steal, Wait, Recheck, WriteCert, WriteKey,
            Unlock, LoadCert, LoadKey, Dies, LockAges
<1>1. cert' \in Origin /\ key' \in Origin /\ lock' \in {"free", "held", "stale"}
  BY DEF CaInv, CaTypes, Origin
<1>2. pc' \in [Processes -> {"new", "try", "steal", "wait", "locked", "cert", "key",
                             "unlock", "provided", "loading"} \union Ended]
  BY DEF CaInv, CaTypes, Goto, Ended
<1>3. /\ attempt' \in [Processes -> 0..Attempts]
      /\ \A q \in Processes : pc'[q] \in {"new", "try", "steal", "wait"} => attempt'[q] < Attempts
  <2>1. CASE Wait(p)
    <3>1. attempt[p] \in 0..Attempts /\ attempt[p] < Attempts
      BY <2>1 DEF CaInv, CaTypes
    <3>2. attempt[p] + 1 \in 0..Attempts
      BY <3>1, CaAssumption
    <3> QED BY <2>1, <3>1, <3>2 DEF CaInv, CaTypes, Goto
  <2>2. CASE ~Wait(p)
    BY <2>2 DEF CaInv, CaTypes, Goto
  <2> QED BY <2>1, <2>2
<1>4. loaded' \in [Processes -> [{1, 2} -> Origin]]
  BY DEF CaInv, CaTypes
<1> QED BY <1>1, <1>2, <1>3, <1>4 DEF CaTypes

(* Unless it dies, a process meets the others as the invariant says: one    *)
(* under the lock, and one, hence the same, that writes the files.          *)
LEMMA CaStepKeeps ==
    ASSUME CaInv, ~Crashed, NEW p \in Processes, Inspect(p) \/ CaStep(p) \/ LockAges
    PROVE  OneHolder' /\ PairFiles' /\ PairLoaded'
<1>0. OneHolder /\ PairFiles /\ PairLoaded /\ CaTypes
  BY DEF CaInv
<1> USE DEF CaTypes, Goto
<1>1. OneHolder'
  <2>1. CASE TakeLock(p)
    BY <1>0, <2>1 DEF TakeLock, OneHolder, Critical
  <2>2. CASE LockTaken(p)
    BY <1>0, <2>2 DEF LockTaken, OneHolder, Critical
  <2>3. CASE Unlock(p)
    BY <1>0, <2>3 DEF Unlock, OneHolder, Critical
  <2>4. CASE Inspect(p) \/ Wait(p) \/ LoadCert(p) \/ LoadKey(p)
    BY <1>0, <2>4 DEF Inspect, Wait, LoadCert, LoadKey, OneHolder, Critical
  <2>5. CASE Recheck(p) \/ WriteCert(p) \/ WriteKey(p)
    BY <1>0, <2>5 DEF Recheck, WriteCert, WriteKey, OneHolder, Critical
  <2>6. CASE Steal(p) \/ LockAges
    BY <1>0, <2>6 DEF Steal, LockAges, OneHolder
  <2> QED BY <2>1, <2>2, <2>3, <2>4, <2>5, <2>6 DEF CaStep
<1>2. PairFiles'
  <2>1. CASE Recheck(p)
    BY <1>0, <2>1 DEF Recheck, PairFiles, Usable
  <2>2. CASE WriteCert(p)
    <3>1. \A q \in Processes \ {p} : pc[q] \notin {"locked", "cert", "key", "unlock"}
      BY <1>0, <2>2 DEF WriteCert, OneHolder, Critical
    <3>2. ~Usable /\ key \notin Processes
      BY <1>0, <2>2, CaAssumption DEF WriteCert, PairFiles, Usable
    <3>3. /\ pc'[p] = "key" /\ \A q \in Processes \ {p} : pc'[q] = pc[q]
          /\ cert' = p /\ key' = key
      BY <1>0, <2>2 DEF WriteCert
    <3>4. \A q \in Processes \ {p} : pc[q] \notin {"cert", "key", "unlock", "provided", "loading"}
      BY <1>0, <3>1, <3>2 DEF PairFiles
    <3> QED BY <3>2, <3>3, <3>4 DEF PairFiles
  <2>3. CASE WriteKey(p)
    <3>1. \A q \in Processes \ {p} : pc[q] \notin {"locked", "cert", "key", "unlock"}
      BY <1>0, <2>3 DEF WriteKey, OneHolder, Critical
    <3> QED BY <1>0, <2>3, <3>1, CaAssumption DEF WriteKey, PairFiles, Usable
  <2>4. CASE TakeLock(p) \/ LockTaken(p) \/ Steal(p) \/ Unlock(p)
    BY <1>0, <2>4 DEF TakeLock, LockTaken, Steal, Unlock, PairFiles, Usable
  <2>5. CASE Inspect(p) \/ Wait(p)
    BY <1>0, <2>5 DEF Inspect, Wait, PairFiles, Usable
  <2>6. CASE LoadCert(p) \/ LoadKey(p) \/ LockAges
    BY <1>0, <2>6 DEF LoadCert, LoadKey, LockAges, PairFiles, Usable
  <2> QED BY <2>1, <2>2, <2>3, <2>4, <2>5, <2>6 DEF CaStep
<1>3. PairLoaded'
  <2>1. CASE LoadCert(p)
    <3>1. loaded'[p][1] = cert /\ \A q \in Processes \ {p} : loaded'[q] = loaded[q]
      BY <1>0, <2>1 DEF LoadCert
    <3> QED BY <1>0, <2>1, <3>1 DEF LoadCert, PairLoaded
  <2>2. CASE LoadKey(p)
    <3>1. /\ loaded'[p][2] = key /\ loaded'[p][1] = loaded[p][1]
          /\ \A q \in Processes \ {p} : loaded'[q] = loaded[q]
      BY <1>0, <2>2 DEF LoadKey
    <3>2. key \in {cert, Expiring} /\ loaded[p][1] = cert
      BY <1>0, <2>2 DEF LoadKey, PairFiles, PairLoaded, Usable, Origin
    <3> QED BY <1>0, <2>2, <3>1, <3>2 DEF LoadKey, PairLoaded
  <2>3. CASE WriteCert(p)
    <3>1. \A q \in Processes : pc[q] # "loading"
      BY <1>0, <2>3 DEF WriteCert, PairFiles
    <3> QED BY <1>0, <2>3, <3>1 DEF WriteCert, PairLoaded
  <2>4. CASE ~(LoadCert(p) \/ LoadKey(p) \/ WriteCert(p))
    BY <1>0, <2>4 DEF Inspect, CaStep, TakeLock, LockTaken, Steal, Wait, Recheck, WriteKey,
                      Unlock, LockAges, PairLoaded
  <2> QED BY <2>1, <2>2, <2>3, <2>4
<1> QED BY <1>1, <1>2, <1>3

LEMMA NextKeepsCa == CaInv /\ [CaNext]_caVars => CaInv'
<1> SUFFICES ASSUME CaInv, [CaNext]_caVars PROVE CaInv'
  OBVIOUS
<1>1. ASSUME NEW p \in Processes, Inspect(p) \/ CaStep(p) PROVE CaInv'
  <2>1. Crashed => Crashed'
    BY <1>1 DEF Crashed, CaInv, CaTypes, Goto, Inspect, CaStep, TakeLock, LockTaken, Steal, Wait,
                Recheck, WriteCert, WriteKey, Unlock, LoadCert, LoadKey
  <2> QED BY <1>1, <2>1, CaTypesKept, CaStepKeeps DEF CaInv
<1>2. ASSUME NEW p \in Processes, Dies(p) PROVE CaInv'
  <2>1. Crashed'
    BY <1>2 DEF Dies, Goto, Crashed, CaInv, CaTypes
  <2> QED BY <1>2, <2>1, CaTypesKept DEF CaInv
<1>3. CASE LockAges
  <2>1. UNCHANGED pc /\ (Crashed <=> Crashed') /\ CaTypes'
    BY <1>3 DEF LockAges, Crashed, CaInv, CaTypes
  <2>2. Crashed
    BY <1>3 DEF LockAges, CaInv, OneHolder
  <2> QED BY <2>1, <2>2 DEF CaInv
<1>4. CASE UNCHANGED caVars
  BY <1>4 DEF caVars, CaInv, CaTypes, OneHolder, PairFiles, PairLoaded, Crashed, Critical, Usable
<1> QED BY <1>1, <1>2, <1>3, <1>4 DEF CaNext

(* What the runs check is part of it.                                       *)
LEMMA CaInvSuffices == CaInv => CaTypeOK /\ OnePair
<1> SUFFICES ASSUME CaInv PROVE CaTypeOK /\ OnePair
  OBVIOUS
<1>1. \A p \in Processes : \A f \in {1, 2} : loaded[p][f] \in Processes \union {Missing, Expiring}
  BY DEF CaInv, CaTypes, Origin
<1> QED BY <1>1 DEF CaInv, CaTypes, CaTypeOK, OnePair, OneHolder, PairFiles, PairLoaded, Origin

(* The certificate is written by one who found the files unusable, and then *)
(* nobody else made them usable.                                            *)
LEMMA CaStepKeepsUsable ==
    CaInv /\ [CaNext]_caVars => (Usable /\ ~Crashed => cert' = cert)
BY DEF CaInv, PairFiles, CaNext, CaStep, Inspect, TakeLock, LockTaken, Steal, Wait, Recheck,
       WriteCert, WriteKey, Unlock, LoadCert, LoadKey, Dies, LockAges, caVars

LEMMA CaInvHolds == CaSpec => []CaInv
BY InitCa, NextKeepsCa, PTL DEF CaSpec

(* However many processes find no usable CA at once: one at a time makes    *)
(* one, and the others use both halves of it.                               *)
THEOREM CaIsOnePair == CaSpec => [](CaTypeOK /\ OnePair)
BY CaInvHolds, CaInvSuffices, PTL

(* No process replaces a CA that another one may have loaded.               *)
THEOREM UsableCaStays == CaSpec => UsableStays
<1>1. CaInv /\ [CaNext]_caVars => [Usable /\ ~Crashed => cert' = cert]_caVars
  BY CaStepKeepsUsable
<1> QED BY CaInvHolds, <1>1, PTL DEF CaSpec, UsableStays

-----------------------------------------------------------------------------
(* The watcher.                                                             *)

LEMMA InitWatcher == WatcherInit => WatcherInv
<1> SUFFICES ASSUME WatcherInit PROVE WatcherInv
  OBVIOUS
<1>1. clock \in 1 .. MaxClock + 1 /\ 0 \in 0 .. MaxWrites /\ 0 \in 0 .. MaxClock + 1
      /\ 0 \in 0 .. MaxClock
  BY WatcherAssumption DEF WatcherInit
<1>2. file \in [content : 0 .. MaxWrites, valid : BOOLEAN, mtime : 0 .. MaxClock]
  BY <1>1 DEF WatcherInit
<1>3. timer \in [set : BOOLEAN, at : 0 .. MaxClock + 1]
  BY <1>1 DEF WatcherInit, NoTimer
<1>4. inUse \in 0 .. file.content /\ known \in 0 .. file.mtime /\ file.mtime <= clock
  BY DEF WatcherInit
<1>5. event \in BOOLEAN /\ yaml \in BOOLEAN /\ watched \in BOOLEAN /\ missed \in BOOLEAN
  BY DEF WatcherInit
<1> QED BY <1>1, <1>2, <1>3, <1>4, <1>5 DEF WatcherInit, WatcherInv, WatcherTypeOK

(* The file is written at the present time, which is not before the last.   *)
LEMMA WritesKeepWatcher ==
    ASSUME WatcherInv, NEW valid \in BOOLEAN, WriteFile(valid) \/ ReplaceFile
    PROVE  WatcherInv'
<1>1. PICK v \in BOOLEAN : file' = [content |-> file.content + 1, valid |-> v, mtime |-> clock]
  BY DEF WriteFile, ReplaceFile
<1>2. /\ file.content \in 0 .. MaxWrites /\ file.content < MaxWrites
      /\ clock \in 1 .. MaxClock + 1 /\ clock <= MaxClock
      /\ file.mtime \in 0 .. MaxClock /\ file.mtime <= clock
      /\ inUse \in 0 .. file.content /\ known \in 0 .. file.mtime
  BY DEF WriteFile, ReplaceFile, WatcherInv, WatcherTypeOK
<1>3. file.content + 1 \in 0 .. MaxWrites /\ clock \in 0 .. MaxClock
  BY <1>2, WatcherAssumption
<1>4. /\ file' \in [content : 0 .. MaxWrites, valid : BOOLEAN, mtime : 0 .. MaxClock]
      /\ file'.content = file.content + 1 /\ file'.mtime = clock
  BY <1>1, <1>3
<1>5. UNCHANGED <<clock, inUse, phase, known, timer, yaml>>
  BY DEF WriteFile, ReplaceFile
<1>6. inUse' \in 0 .. file'.content /\ known' \in 0 .. file'.mtime /\ file'.mtime <= clock'
  BY <1>2, <1>4, <1>5, WatcherAssumption
<1>7. event' \in BOOLEAN /\ watched' \in BOOLEAN /\ missed' \in BOOLEAN
  BY DEF WriteFile, ReplaceFile, WatcherInv, WatcherTypeOK, Unseen
<1> QED BY <1>4, <1>5, <1>6, <1>7 DEF WatcherInv, WatcherTypeOK

(* What the watcher takes over is what the file is.                         *)
LEMMA WatcherStepsKeep ==
    ASSUME WatcherInv,
           Tick \/ WatcherProgress \/ ForceReload \/ StopWatching
    PROVE  WatcherInv'
<1>1. CASE Tick
  <2>1. clock \in 1 .. MaxClock + 1 /\ clock <= MaxClock /\ file.mtime \in 0 .. MaxClock
        /\ file.mtime <= clock
    BY <1>1 DEF Tick, WatcherInv, WatcherTypeOK
  <2>2. clock + 1 \in 1 .. MaxClock + 1 /\ file.mtime <= clock + 1
    BY <2>1, WatcherAssumption
  <2> QED BY <1>1, <2>2 DEF Tick, WatcherInv, WatcherTypeOK
<1>2. CASE StartWatching
  <2>1. file.mtime \in 0 .. file.mtime
    BY DEF WatcherInv, WatcherTypeOK
  <2> QED BY <1>2, <2>1 DEF StartWatching, WatcherInv, WatcherTypeOK
<1>3. CASE HandleChange
  <2>1. timer' \in [set : BOOLEAN, at : 0 .. MaxClock + 1]
    <3>1. clock \in 0 .. MaxClock + 1
      BY WatcherAssumption DEF WatcherInv, WatcherTypeOK
    <3> QED BY <1>3, <3>1 DEF HandleChange
  <2>2. event' \in BOOLEAN
    BY <1>3 DEF HandleChange
  <2> QED BY <1>3, <2>1, <2>2 DEF HandleChange, WatcherInv, WatcherTypeOK
<1>4. CASE DebouncedReload \/ ForceReload
  <2>1. file.mtime \in 0 .. file.mtime
    BY DEF WatcherInv, WatcherTypeOK
  <2>2. timer' \in [set : BOOLEAN, at : 0 .. MaxClock + 1]
    <3>1. 0 \in 0 .. MaxClock + 1
      BY WatcherAssumption
    <3>2. timer' = [set |-> FALSE, at |-> 0]
      BY <1>4 DEF DebouncedReload, ForceReload, Reload, NoTimer
    <3> QED BY <3>1, <3>2
  <2> QED BY <1>4, <2>1, <2>2 DEF DebouncedReload, ForceReload, Reload, WatcherInv, WatcherTypeOK
<1>5. CASE ReadFile
  <2>1. file.content \in 0 .. file.content
    BY DEF WatcherInv, WatcherTypeOK
  <2> QED BY <1>5, <2>1 DEF ReadFile, WatcherInv, WatcherTypeOK
<1>6. CASE StopWatching
  <2>1. timer' \in [set : BOOLEAN, at : 0 .. MaxClock + 1]
    <3>1. 0 \in 0 .. MaxClock + 1
      BY WatcherAssumption
    <3> QED BY <1>6, <3>1 DEF StopWatching, NoTimer
  <2>2. event' \in BOOLEAN
    BY <1>6 DEF StopWatching
  <2> QED BY <1>6, <2>1, <2>2 DEF StopWatching, WatcherInv, WatcherTypeOK
<1> QED BY <1>1, <1>2, <1>3, <1>4, <1>5, <1>6 DEF WatcherProgress

LEMMA NextKeepsWatcher == WatcherInv /\ [WatcherNext]_watcherVars => WatcherInv'
<1> SUFFICES ASSUME WatcherInv, [WatcherNext]_watcherVars PROVE WatcherInv'
  OBVIOUS
<1>1. ASSUME NEW valid \in BOOLEAN, WriteFile(valid) \/ ReplaceFile PROVE WatcherInv'
  BY <1>1, WritesKeepWatcher
<1>2. CASE Tick \/ WatcherProgress \/ ForceReload \/ StopWatching
  BY <1>2, WatcherStepsKeep
<1>3. CASE UNCHANGED watcherVars
  BY <1>3 DEF watcherVars, WatcherInv, WatcherTypeOK
<1> QED BY <1>1, <1>2, <1>3 DEF WatcherNext

(* Sequences, as far as the log needs them.                                 *)

LEMMA FunctionIsSeq ==
    ASSUME NEW S, NEW n \in Nat, NEW s, s = [l \in 1 .. n |-> s[l]], \A l \in 1 .. n : s[l] \in S
    PROVE  s \in Seq(S) /\ Len(s) = n
<1>1. s \in [1 .. n -> S]
  OBVIOUS
<1> QED BY <1>1

LEMMA EntriesOf == ASSUME NEW S, NEW s \in Seq(S) PROVE ToSet(s) \subseteq S
<1>1. \A a \in DOMAIN s : s[a] \in S
  OBVIOUS
<1> QED BY <1>1 DEF ToSet

LEMMA EmptyIs == ToSet(<<>>) = {} /\ Len(<<>>) = 0 /\ IsInjective(<<>>) /\ Increasing(<<>>)
<1>1. DOMAIN <<>> = {} /\ Len(<<>>) = 0
  OBVIOUS
<1>2. ToSet(<<>>) = {} /\ IsInjective(<<>>)
  BY <1>1 DEF ToSet, IsInjective
<1>3. Increasing(<<>>)
  BY <1>1 DEF Increasing
<1> QED BY <1>1, <1>2, <1>3

LEMMA AppendIs ==
    ASSUME NEW S, NEW s \in Seq(S), NEW e \in S
    PROVE  /\ Append(s, e) \in Seq(S) /\ Len(Append(s, e)) = Len(s) + 1 /\ Len(s) \in Nat
           /\ \A i \in 1 .. Len(s) : Append(s, e)[i] = s[i]
           /\ Append(s, e)[Len(s) + 1] = e
           /\ DOMAIN Append(s, e) = 1 .. Len(s) + 1 /\ DOMAIN s = 1 .. Len(s)
           /\ ToSet(Append(s, e)) = ToSet(s) \cup {e}
<1>1. /\ Append(s, e) \in Seq(S) /\ Len(Append(s, e)) = Len(s) + 1 /\ Len(s) \in Nat
      /\ \A i \in 1 .. Len(s) : Append(s, e)[i] = s[i]
      /\ Append(s, e)[Len(s) + 1] = e
      /\ DOMAIN Append(s, e) = 1 .. Len(s) + 1 /\ DOMAIN s = 1 .. Len(s)
  OBVIOUS
<1> QED BY <1>1 DEF ToSet

LEMMA TailIs ==
    ASSUME NEW S, NEW s \in Seq(S), s # <<>>
    PROVE  /\ Tail(s) \in Seq(S) /\ Len(Tail(s)) = Len(s) - 1 /\ Len(s) \in Nat \ {0}
           /\ \A i \in 1 .. Len(s) - 1 : Tail(s)[i] = s[i + 1] /\ i + 1 \in 1 .. Len(s)
           /\ s[1] = Head(s) /\ 1 \in 1 .. Len(s) /\ Head(s) \in S
           /\ DOMAIN Tail(s) = 1 .. Len(s) - 1 /\ DOMAIN s = 1 .. Len(s)
           /\ ToSet(s) = ToSet(Tail(s)) \cup {Head(s)}
<1>1. /\ Tail(s) \in Seq(S) /\ Len(Tail(s)) = Len(s) - 1 /\ Len(s) \in Nat \ {0}
      /\ \A i \in 1 .. Len(s) - 1 : Tail(s)[i] = s[i + 1] /\ i + 1 \in 1 .. Len(s)
      /\ s[1] = Head(s) /\ 1 \in 1 .. Len(s) /\ Head(s) \in S
      /\ DOMAIN Tail(s) = 1 .. Len(s) - 1 /\ DOMAIN s = 1 .. Len(s)
  OBVIOUS
<1>2. ASSUME NEW i \in 1 .. Len(s) PROVE s[i] \in ToSet(Tail(s)) \cup {Head(s)}
  <2>1. CASE i # 1
    <3>1. i - 1 \in 1 .. Len(s) - 1 /\ (i - 1) + 1 = i
      BY <1>1, <2>1
    <3>2. Tail(s)[i - 1] = s[i]
      BY <1>1, <3>1
    <3> QED BY <1>1, <3>1, <3>2 DEF ToSet
  <2>2. CASE i = 1
    BY <1>1, <2>2
  <2> QED BY <2>1, <2>2
<1>3. ToSet(Tail(s)) \cup {Head(s)} \subseteq ToSet(s)
  BY <1>1 DEF ToSet
<1> QED BY <1>1, <1>2, <1>3 DEF ToSet

LEMMA AppendKeeps ==
    ASSUME NEW n \in Nat, NEW s \in Seq(1 .. n), NEW e \in 1 .. n
    PROVE  /\ IsInjective(s) /\ e \notin ToSet(s) => IsInjective(Append(s, e))
           /\ Increasing(s) /\ (\A x \in ToSet(s) : x < e) => Increasing(Append(s, e))
<1>1. IsInjective(s) /\ e \notin ToSet(s) => IsInjective(Append(s, e))
  <2> SUFFICES ASSUME IsInjective(s), e \notin ToSet(s),
                      NEW a \in 1 .. Len(s) + 1, NEW b \in 1 .. Len(s) + 1,
                      Append(s, e)[a] = Append(s, e)[b]
               PROVE  a = b
    BY AppendIs DEF IsInjective
  <2>1. a \in 1 .. Len(s) \/ a = Len(s) + 1
    BY AppendIs
  <2>2. b \in 1 .. Len(s) \/ b = Len(s) + 1
    BY AppendIs
  <2> QED BY <2>1, <2>2, AppendIs DEF IsInjective, ToSet
<1>2. Increasing(s) /\ (\A x \in ToSet(s) : x < e) => Increasing(Append(s, e))
  <2> SUFFICES ASSUME Increasing(s), \A x \in ToSet(s) : x < e,
                      NEW a \in 1 .. Len(s) + 1, NEW b \in 1 .. Len(s) + 1, a < b
               PROVE  Append(s, e)[a] < Append(s, e)[b]
    <3>1. DOMAIN Append(s, e) = 1 .. Len(s) + 1 /\ Len(Append(s, e)) = Len(s) + 1
      BY AppendIs
    <3> DEFINE t == Append(s, e)
    <3> HIDE DEF t
    <3>2. (\A a, b \in 1 .. Len(t) : a < b => t[a] < t[b]) => Increasing(t)
      BY DEF Increasing
    <3> QED BY <3>1, <3>2 DEF t
  <2>1. Len(s) \in Nat /\ a \in 1 .. Len(s) /\ (b \in 1 .. Len(s) \/ b = Len(s) + 1)
    BY AppendIs
  <2>2. s[a] \in ToSet(s) /\ Append(s, e)[a] = s[a]
    BY <2>1, AppendIs DEF ToSet
  <2>3. CASE b \in 1 .. Len(s)
    BY <2>1, <2>2, <2>3, AppendIs DEF Increasing
  <2>4. CASE b = Len(s) + 1
    BY <2>2, <2>4, AppendIs
  <2> QED BY <2>1, <2>3, <2>4
<1> QED BY <1>1, <1>2

LEMMA TailKeeps ==
    ASSUME NEW n \in Nat, NEW s \in Seq(1 .. n), s # <<>>
    PROVE  /\ IsInjective(s) => IsInjective(Tail(s)) /\ Head(s) \notin ToSet(Tail(s))
           /\ Increasing(s) => Increasing(Tail(s)) /\ \A x \in ToSet(Tail(s)) : Head(s) < x
<1>1. \A a, b \in 1 .. Len(s) - 1 : (a + 1 = b + 1 <=> a = b) /\ (a < b => a + 1 < b + 1)
  OBVIOUS
<1>2. \A a \in 1 .. Len(s) - 1 : 1 < a + 1
  OBVIOUS
<1>3. IsInjective(s) => IsInjective(Tail(s))
  <2> SUFFICES ASSUME IsInjective(s), NEW a \in 1 .. Len(s) - 1, NEW b \in 1 .. Len(s) - 1,
                      Tail(s)[a] = Tail(s)[b]
               PROVE  a = b
    <3>1. DOMAIN Tail(s) = 1 .. Len(s) - 1
      BY TailIs
    <3> QED BY <3>1 DEF IsInjective
  <2>1. s[a + 1] = s[b + 1] /\ a + 1 \in DOMAIN s /\ b + 1 \in DOMAIN s
    BY TailIs
  <2>2. a + 1 = b + 1
    BY <2>1 DEF IsInjective
  <2> QED BY <1>1, <2>2
<1>4. IsInjective(s) => Head(s) \notin ToSet(Tail(s))
  BY <1>2, TailIs DEF IsInjective, ToSet
<1>5. Increasing(s) => Increasing(Tail(s))
  BY <1>1, TailIs DEF Increasing
<1>6. ASSUME Increasing(s), NEW x \in ToSet(Tail(s)) PROVE Head(s) < x
  <2>1. PICK j \in 1 .. Len(s) - 1 : x = Tail(s)[j]
    BY TailIs DEF ToSet
  <2>2. x = s[j + 1] /\ Head(s) = s[1] /\ j + 1 \in 1 .. Len(s) /\ 1 \in 1 .. Len(s) /\ 1 < j + 1
    BY <1>2, <2>1, TailIs
  <2> QED BY <1>6, <2>2 DEF Increasing
<1> QED BY <1>3, <1>4, <1>5, <1>6

(* Entries that are each there once are no more than were logged.           *)
LEMMA FewEntries ==
    ASSUME NEW n \in Nat, NEW s \in Seq(1 .. n), IsInjective(s)
    PROVE  Len(s) <= n
<1>1. IsFiniteSet(1 .. n) /\ IsFiniteSet(1 .. Len(s)) /\ Len(s) \in Nat
  BY FS_Interval
<1>2. Cardinality(1 .. n) = n /\ Cardinality(1 .. Len(s)) = Len(s)
  <2>1. ASSUME NEW m \in Nat PROVE Cardinality(1 .. m) = m
    BY FS_Interval
  <2> QED BY <1>1, <2>1
<1>3. s \in Injection(1 .. Len(s), 1 .. n)
  <2>1. s \in [1 .. Len(s) -> 1 .. n]
    OBVIOUS
  <2> QED BY <2>1 DEF IsInjective, Injection
<1> QED BY <1>1, <1>2, <1>3, FS_Injection

-----------------------------------------------------------------------------
(* What the operations do to the files and streams, entry by entry.         *)

LEMMA StreamsAre ==
    ASSUME LogTypes
    PROVE  /\ Len(streams) \in Nat /\ DOMAIN streams = 1 .. Len(streams) /\ Current = Len(streams)
           /\ \A k \in 1 .. Len(streams) : streams[k] \in StreamOf(logged)
           /\ streams # <<>> <=> Current \in 1 .. Len(streams)
BY DEF LogTypes, Current

LEMMA PlacesAre ==
    /\ \A i \in Places : i \in Nat /\ i <= MaxFiles - 1
    /\ Opening = -1 /\ Opening \in Int /\ Opening \notin Places
    /\ Unlinked \in Nat /\ Unlinked > MaxFiles /\ Unlinked \notin Places
    /\ 0 \in Places /\ MaxFiles \in Nat /\ MaxFiles - 1 \in Places /\ MaxFiles - 1 >= 1
BY FileAssumption DEF Places, Opening, Unlinked

LEMMA AtIs ==
    ASSUME LogTypes, NEW k \in 1 .. Len(streams)
    PROVE  At(k) \in Int /\ (At(k) \in Places \/ At(k) = Opening \/ At(k) = Unlinked)
<1>1. At(k) \in Places \cup {Opening, Unlinked}
  BY StreamsAre DEF At, StreamOf
<1> QED BY <1>1, PlacesAre

LEMMA FullIs ==
    /\ MaxFileSize \in Nat /\ Rest \in Int
    /\ \A n \in Int : Full(n) \in Int /\ Full(n + 1) = Full(n) + MaxFileSize
    /\ Full(0) = 0
<1>1. MaxFileSize \in Nat /\ MaxFiles \in Nat
  BY FileAssumption
<1>2. ASSUME NEW n \in Int
      PROVE  Full(n) \in Int /\ Full(n + 1) = Full(n) + MaxFileSize
  BY <1>1 DEF Full
<1>3. Full(0) = 0
  BY <1>1 DEF Full
<1> QED BY <1>1, <1>2, <1>3 DEF Rest

LEMMA BehindIs == ASSUME LogTypes, NEW i \in Int PROVE Behind(i) \in Int
<1>1. size \in Int
  BY FileAssumption DEF LogTypes
<1>2. i - 1 \in Int
  OBVIOUS
<1>3. Full(i - 1) \in Int /\ Rest \in Int
  BY <1>2, FullIs
<1> QED BY <1>1, <1>3 DEF Behind

LEMMA MoreEntries ==
    ASSUME NEW n \in Nat, NEW s \in Seq(1 .. n) PROVE s \in Seq(1 .. n + 1)
<1>1. 1 .. n \subseteq 1 .. n + 1
  OBVIOUS
<1> QED BY <1>1, SeqMonotonic

LEMMA StreamIs ==
    ASSUME NEW n \in Nat, NEW at \in Places \cup {Opening, Unlinked}, NEW buffer \in Seq(1 .. n),
           NEW ended \in BOOLEAN
    PROVE  [at |-> at, buffer |-> buffer, ended |-> ended] \in StreamOf(n)
BY DEF StreamOf

LEMMA StreamEnds ==
    ASSUME NEW at, NEW buffer, NEW ended
    PROVE  [[at |-> at, buffer |-> buffer, ended |-> ended] EXCEPT !.ended = TRUE]
             = [at |-> at, buffer |-> buffer, ended |-> TRUE]
<1> DEFINE v == TRUE
<1>1. [[at |-> at, buffer |-> buffer, ended |-> ended] EXCEPT !.ended = v]
        = [at |-> at, buffer |-> buffer, ended |-> v]
  <2> HIDE DEF v
  <2> QED OBVIOUS
<1> QED BY <1>1

(* Both a plain and a rotating write give the entry to the last stream.     *)
Entered(k) == IF k = Current THEN Append(streams[k].buffer, logged + 1) ELSE streams[k].buffer

LEMMA EnteredIs ==
    ASSUME LogTypes, open = "open", logged < MaxEntries, NEW k \in 1 .. Len(streams)
    PROVE  /\ Entered(k) \in Seq(1 .. logged + 1)
           /\ ToSet(Entered(k)) = IF k = Current THEN Queued(k) \cup {logged + 1} ELSE Queued(k)
           /\ Len(Entered(k)) = IF k = Current THEN Len(streams[k].buffer) + 1
                                               ELSE Len(streams[k].buffer)
           /\ [streams EXCEPT ![Current].buffer = Append(@, logged + 1)][k]
                = [at |-> At(k), buffer |-> Entered(k), ended |-> streams[k].ended]
<1>1. /\ logged \in Nat /\ logged + 1 \in 1 .. logged + 1 /\ streams[k] \in StreamOf(logged)
      /\ DOMAIN streams = 1 .. Len(streams)
  BY StreamsAre, FileAssumption DEF LogTypes
<1>2. streams[k].buffer \in Seq(1 .. logged) /\ streams[k].buffer \in Seq(1 .. logged + 1)
  BY <1>1, MoreEntries DEF StreamOf
<1>3. Entered(k) \in Seq(1 .. logged + 1)
  BY <1>1, <1>2, AppendIs DEF Entered
<1>4. ToSet(Entered(k)) = IF k = Current THEN Queued(k) \cup {logged + 1} ELSE Queued(k)
  <2>1. ToSet(Append(streams[k].buffer, logged + 1)) = ToSet(streams[k].buffer) \cup {logged + 1}
    BY <1>1, <1>2, AppendIs
  <2> QED BY <2>1 DEF Entered, Queued
<1>5. Len(Entered(k)) = IF k = Current THEN Len(streams[k].buffer) + 1 ELSE Len(streams[k].buffer)
  BY <1>1, <1>2, AppendIs DEF Entered
<1>6. streams[k] = [at |-> At(k), buffer |-> streams[k].buffer, ended |-> streams[k].ended]
  BY <1>1 DEF StreamOf, At
<1>7. [streams EXCEPT ![Current].buffer = Append(@, logged + 1)][k]
        = [at |-> At(k), buffer |-> Entered(k), ended |-> streams[k].ended]
  <2>1. CASE k = Current
    <3>1. [streams EXCEPT ![Current].buffer = Append(@, logged + 1)][k]
            = [streams[k] EXCEPT !.buffer = Append(streams[k].buffer, logged + 1)]
      BY <1>1, <2>1
    <3>2. Entered(k) = Append(streams[k].buffer, logged + 1)
      BY <2>1 DEF Entered
    <3>3. \A b : [streams[k] EXCEPT !.buffer = b]
                  = [at |-> At(k), buffer |-> b, ended |-> streams[k].ended]
      BY <1>6
    <3> QED BY <3>1, <3>2, <3>3
  <2>2. CASE k # Current
    BY <1>1, <1>6, <2>2 DEF Entered
  <2> QED BY <2>1, <2>2
<1> QED BY <1>3, <1>4, <1>5, <1>7

LEMMA PlainLogIs ==
    ASSUME LogTypes, Log, size + 1 < MaxFileSize
    PROVE  /\ open = "open" /\ logged < MaxEntries
           /\ logged' = logged + 1 /\ size' = size + 1
           /\ UNCHANGED <<files, hasty, open, lost>>
           /\ streams' \in Seq(StreamOf(logged + 1)) /\ Len(streams') = Len(streams)
           /\ \A k \in 1 .. Len(streams) :
                 /\ streams'[k].at = At(k) /\ streams'[k].buffer = Entered(k)
                 /\ streams'[k].ended = streams[k].ended
<1>1. /\ open = "open" /\ logged < MaxEntries
      /\ logged' = logged + 1 /\ size' = size + 1
      /\ UNCHANGED <<files, hasty, open, lost>>
      /\ streams' = [streams EXCEPT ![Current].buffer = Append(@, logged + 1)]
  <2>1. ~(size + 1 >= MaxFileSize)
    BY FileAssumption DEF LogTypes
  <2> QED BY <2>1 DEF Log
<1>2. \A k \in 1 .. Len(streams) :
         streams'[k] = [at |-> At(k), buffer |-> Entered(k), ended |-> streams[k].ended]
  BY <1>1, EnteredIs
<1>3. DOMAIN streams' = 1 .. Len(streams) /\ Len(streams) \in Nat
      /\ streams' = [k \in 1 .. Len(streams) |-> streams'[k]]
  BY <1>1, StreamsAre
<1>4. ASSUME NEW k \in 1 .. Len(streams) PROVE streams'[k] \in StreamOf(logged + 1)
  <2>1. At(k) \in Places \cup {Opening, Unlinked} /\ streams[k].ended \in BOOLEAN
    BY StreamsAre DEF StreamOf, At
  <2>2. Entered(k) \in Seq(1 .. logged + 1)
    BY <1>1, EnteredIs
  <2>3. logged + 1 \in Nat
    BY FileAssumption DEF LogTypes
  <2> QED BY <1>2, <2>1, <2>2, <2>3, StreamIs
<1>5. streams' \in [1 .. Len(streams) -> StreamOf(logged + 1)]
  BY <1>3, <1>4
<1>6. streams' \in Seq(StreamOf(logged + 1)) /\ Len(streams') = Len(streams)
  BY <1>3, <1>5
<1>7. \A k \in 1 .. Len(streams) : streams'[k].ended = streams[k].ended
  BY <1>1, StreamsAre DEF StreamOf
<1>8. \A k \in 1 .. Len(streams) : streams'[k].at = At(k) /\ streams'[k].buffer = Entered(k)
  BY <1>1, StreamsAre DEF StreamOf, At, Entered
<1> QED BY <1>1, <1>6, <1>7, <1>8

Shift(at) == IF at \in Places THEN NextPlace(at) ELSE at

LEMMA ShiftIs ==
    ASSUME NEW i \in Places
    PROVE  /\ NextPlace(i) = IF i = MaxFiles - 1 THEN Unlinked ELSE i + 1
           /\ NextPlace(i) \in Places \cup {Unlinked}
           /\ NextPlace(i) >= 1
BY FileAssumption DEF Places, NextPlace, Unlinked

LEMMA RotateIs ==
    ASSUME LogTypes, Log, size + 1 >= MaxFileSize
    PROVE  /\ open = "open" /\ logged < MaxEntries /\ UNCHANGED <<open, lost>>
           /\ logged' = logged + 1 /\ size' = 0 /\ files' = Shifted
           /\ hasty' \in BOOLEAN /\ (~hasty' => ~hasty /\ At(Current) # Opening)
           /\ streams' \in Seq(StreamOf(logged + 1)) /\ Len(streams') = Len(streams) + 1
           /\ \A k \in 1 .. Len(streams) :
                 streams'[k].at = Shift(At(k)) /\ streams'[k].buffer = Entered(k)
           /\ streams'[Len(streams) + 1] = NewStream
<1> DEFINE written == [streams EXCEPT ![Current].buffer = Append(@, logged + 1)]
           moved == [k \in DOMAIN streams |-> [Moved(written[k]) EXCEPT !.ended = TRUE]]
<1>1. /\ open = "open" /\ logged < MaxEntries /\ UNCHANGED <<open, lost>>
      /\ logged' = logged + 1 /\ size' = 0 /\ files' = Shifted
      /\ hasty' = (hasty \/ streams[Current].at = Opening)
      /\ streams' = Append(moved, NewStream)
  BY DEF Log
<1>2. ASSUME NEW k \in 1 .. Len(streams)
      PROVE  /\ moved[k].at = Shift(At(k)) /\ moved[k].buffer = Entered(k)
             /\ moved[k] \in StreamOf(logged + 1)
  <2>1. written[k] = [at |-> At(k), buffer |-> Entered(k), ended |-> streams[k].ended]
    BY <1>1, EnteredIs
  <2> HIDE DEF written
  <2>2. moved[k] = [at |-> Shift(At(k)), buffer |-> Entered(k), ended |-> TRUE]
    <3>1. Moved(written[k]) = [at |-> Shift(At(k)), buffer |-> Entered(k), ended |-> streams[k].ended]
      BY <2>1 DEF Moved, Shift
    <3>2. moved[k] = [Moved(written[k]) EXCEPT !.ended = TRUE]
      BY StreamsAre
    <3> HIDE DEF moved
    <3> QED BY <3>1, <3>2, StreamEnds
  <2>3. At(k) \in Places \cup {Opening, Unlinked} /\ Shift(At(k)) \in Places \cup {Opening, Unlinked}
    BY ShiftIs, StreamsAre DEF At, StreamOf, Shift
  <2>4. Entered(k) \in Seq(1 .. logged + 1)
    BY <1>1, EnteredIs
  <2> HIDE DEF moved
  <2>5. moved[k] \in StreamOf(logged + 1)
    BY <2>2, <2>3, <2>4 DEF StreamOf
  <2>6. moved[k].at = Shift(At(k)) /\ moved[k].buffer = Entered(k)
    BY <2>2
  <2> QED BY <2>5, <2>6
<1>3. moved = [k \in 1 .. Len(streams) |-> moved[k]]
  BY StreamsAre
<1> HIDE DEF moved
<1>4. moved \in [1 .. Len(streams) -> StreamOf(logged + 1)]
  BY <1>2, <1>3
<1>5. moved \in Seq(StreamOf(logged + 1)) /\ Len(moved) = Len(streams)
  BY <1>4, StreamsAre
<1>6. NewStream \in StreamOf(logged + 1)
  BY EmptySeq DEF NewStream, StreamOf
<1>7. /\ streams' \in Seq(StreamOf(logged + 1)) /\ Len(streams') = Len(streams) + 1
      /\ \A k \in 1 .. Len(streams) : streams'[k] = moved[k]
      /\ streams'[Len(streams) + 1] = NewStream
  BY <1>1, <1>5, <1>6, AppendIs
<1>8. hasty' \in BOOLEAN /\ (~hasty' => ~hasty /\ At(Current) # Opening)
  BY <1>1 DEF At, LogTypes
<1> QED BY <1>1, <1>2, <1>7, <1>8

LEMMA ShiftedIs ==
    ASSUME LogTypes, files' = Shifted
    PROVE  /\ files' \in [DOMAIN files' -> Seq(1 .. logged)] /\ DOMAIN files' \subseteq Places
           /\ \A j \in DOMAIN files' : j >= 1 /\ j - 1 \in DOMAIN files /\ files'[j] = files[j - 1]
           /\ \A i \in DOMAIN files : i # MaxFiles - 1 => i + 1 \in DOMAIN files'
<1>1. /\ DOMAIN files' = {NextPlace(i) : i \in DOMAIN files} \ {Unlinked}
      /\ \A j \in DOMAIN files' : files'[j] = files[j - 1]
      /\ files' = [j \in DOMAIN files' |-> files'[j]]
  BY DEF Shifted
<1>2. \A i \in DOMAIN files : i \in Places
  BY DEF LogTypes
<1>4. ASSUME NEW j \in DOMAIN files' PROVE j \in Places /\ j >= 1 /\ j - 1 \in DOMAIN files
  <2>1. PICK i \in DOMAIN files : j = NextPlace(i) /\ j # Unlinked
    BY <1>1
  <2>2. j = i + 1 /\ j \in Places
    BY <1>2, <2>1, ShiftIs
  <2> QED BY <1>2, <2>2, FileAssumption DEF Places
<1>5. ASSUME NEW i \in DOMAIN files, i # MaxFiles - 1 PROVE i + 1 \in DOMAIN files'
  <2>1. NextPlace(i) = i + 1 /\ i + 1 # Unlinked
    BY <1>2, <1>5, ShiftIs, FileAssumption DEF Places, Unlinked
  <2> QED BY <1>1, <2>1
<1>6. \A j \in DOMAIN files' : files'[j] \in Seq(1 .. logged)
  BY <1>1, <1>4 DEF LogTypes
<1> QED BY <1>1, <1>4, <1>5, <1>6

LEMMA OpenFileIs ==
    ASSUME LogTypes, NEW k \in DOMAIN streams, OpenFile(k)
    PROVE  /\ UNCHANGED <<size, open, logged, lost, hasty>> /\ At(k) = Opening
           /\ streams' \in Seq(StreamOf(logged)) /\ Len(streams') = Len(streams)
           /\ \A l \in 1 .. Len(streams) :
                 /\ streams'[l].at = IF l = k THEN 0 ELSE At(l)
                 /\ streams'[l].buffer = streams[l].buffer /\ streams'[l].ended = streams[l].ended
           /\ DOMAIN files' = DOMAIN files \cup {0} /\ DOMAIN files' \subseteq Places
           /\ files' \in [DOMAIN files' -> Seq(1 .. logged)]
           /\ \A i \in DOMAIN files : files'[i] = files[i]
           /\ 0 \notin DOMAIN files => files'[0] = <<>>
<1>1. 0 \in Places
  BY FileAssumption DEF Places
<1>2. /\ streams' = [streams EXCEPT ![k].at = 0]
      /\ UNCHANGED <<size, open, logged, lost, hasty>> /\ At(k) = Opening
  BY DEF OpenFile, At
<1>3. streams' \in Seq(StreamOf(logged)) /\ Len(streams') = Len(streams)
  <2>1. /\ streams' = [l \in 1 .. Len(streams) |-> streams'[l]]
        /\ \A l \in 1 .. Len(streams) : streams'[l] = IF l = k THEN [streams[l] EXCEPT !.at = 0]
                                                               ELSE streams[l]
    BY <1>2, StreamsAre
  <2>2. \A l \in 1 .. Len(streams) : [streams[l] EXCEPT !.at = 0] \in StreamOf(logged)
    BY <1>1, StreamsAre DEF StreamOf
  <2> QED BY <2>1, <2>2, StreamsAre, FunctionIsSeq
<1>4. \A l \in 1 .. Len(streams) :
         /\ streams'[l].at = IF l = k THEN 0 ELSE At(l)
         /\ streams'[l].buffer = streams[l].buffer /\ streams'[l].ended = streams[l].ended
  BY <1>2, StreamsAre DEF At, StreamOf
<1>5. /\ DOMAIN files' = DOMAIN files \cup {0} /\ DOMAIN files' \subseteq Places
      /\ files' = [i \in DOMAIN files' |-> files'[i]]
      /\ \A i \in DOMAIN files : files'[i] = files[i]
      /\ 0 \notin DOMAIN files => files'[0] = <<>>
  BY <1>1 DEF OpenFile, LogTypes
<1>6. <<>> \in Seq(1 .. logged)
  BY EmptySeq
<1>7. files' \in [DOMAIN files' -> Seq(1 .. logged)]
  BY <1>5, <1>6 DEF LogTypes
<1> QED BY <1>2, <1>3, <1>4, <1>5, <1>7

LEMMA WriteOutIs ==
    ASSUME LogTypes, NEW k \in DOMAIN streams, WriteOut(k)
    PROVE  /\ UNCHANGED <<size, open, logged, lost, hasty>>
           /\ At(k) # Opening /\ streams[k].buffer # <<>> /\ streams[k].buffer \in Seq(1 .. logged)
           /\ streams' \in Seq(StreamOf(logged)) /\ Len(streams') = Len(streams)
           /\ \A l \in 1 .. Len(streams) :
                 /\ streams'[l].at = At(l) /\ streams'[l].ended = streams[l].ended
                 /\ streams'[l].buffer = IF l = k THEN Tail(streams[k].buffer)
                                                  ELSE streams[l].buffer
           /\ DOMAIN files' = DOMAIN files
           /\ files' \in [DOMAIN files -> Seq(1 .. logged)]
           /\ \A i \in DOMAIN files :
                 files'[i] = IF i = At(k) THEN Append(files[i], Head(streams[k].buffer))
                                          ELSE files[i]
<1>1. /\ streams' = [streams EXCEPT ![k].buffer = Tail(@)]
      /\ UNCHANGED <<size, open, logged, lost, hasty>>
      /\ At(k) # Opening /\ streams[k].buffer # <<>> /\ streams[k].buffer \in Seq(1 .. logged)
  BY StreamsAre DEF WriteOut, At, StreamOf
<1>2. Tail(streams[k].buffer) \in Seq(1 .. logged) /\ Head(streams[k].buffer) \in 1 .. logged
  BY <1>1, TailIs
<1>3. streams' \in Seq(StreamOf(logged)) /\ Len(streams') = Len(streams)
  <2>1. /\ streams' = [l \in 1 .. Len(streams) |-> streams'[l]]
        /\ \A l \in 1 .. Len(streams) :
              streams'[l] = IF l = k THEN [streams[l] EXCEPT !.buffer = Tail(streams[k].buffer)]
                                     ELSE streams[l]
    BY <1>1, StreamsAre
  <2>2. [streams[k] EXCEPT !.buffer = Tail(streams[k].buffer)] \in StreamOf(logged)
    BY <1>2, StreamsAre DEF StreamOf
  <2>3. \A l \in 1 .. Len(streams) : streams'[l] \in StreamOf(logged)
    BY <2>1, <2>2, StreamsAre
  <2> QED BY <2>1, <2>3, StreamsAre, FunctionIsSeq
<1>4. \A l \in 1 .. Len(streams) :
         /\ streams'[l].at = At(l) /\ streams'[l].ended = streams[l].ended
         /\ streams'[l].buffer = IF l = k THEN Tail(streams[k].buffer) ELSE streams[l].buffer
  BY <1>1, StreamsAre DEF At, StreamOf
<1>5. /\ DOMAIN files' = DOMAIN files /\ files' = [i \in DOMAIN files |-> files'[i]]
      /\ \A i \in DOMAIN files :
            files'[i] = IF i = At(k) THEN Append(files[i], Head(streams[k].buffer)) ELSE files[i]
  BY DEF WriteOut, At, LogTypes
<1>6. \A i \in DOMAIN files : files[i] \in Seq(1 .. logged)
  BY DEF LogTypes
<1>7. \A i \in DOMAIN files : files'[i] \in Seq(1 .. logged)
  <2>1. \A i \in DOMAIN files : Append(files[i], Head(streams[k].buffer)) \in Seq(1 .. logged)
    BY <1>2, <1>6, AppendIs
  <2> QED BY <1>5, <1>6, <2>1
<1>8. files' \in [DOMAIN files -> Seq(1 .. logged)]
  BY <1>5, <1>7
<1> QED BY <1>1, <1>3, <1>4, <1>5, <1>8

LEMMA FinishIs ==
    ASSUME LogTypes, NEW k \in DOMAIN streams, Finish(k)
    PROVE  /\ UNCHANGED <<files, size, logged, lost, hasty>>
           /\ k \in 1 .. Len(streams) /\ streams[k].buffer = <<>> /\ streams[k].ended
           /\ open' \in {"open", "closing", "closed"}
           /\ open' = "open" => open = "open" /\ k # Len(streams)
           /\ streams' \in Seq(StreamOf(logged)) /\ Len(streams') = Len(streams) - 1
           /\ \A l \in 1 .. Len(streams) - 1 :
                 streams'[l] = IF l < k THEN streams[l] ELSE streams[l + 1]
<1>1. /\ UNCHANGED <<files, size, logged, lost, hasty>>
      /\ k \in 1 .. Len(streams) /\ streams[k].buffer = <<>> /\ streams[k].ended
      /\ streams' = RemoveAt(streams, k)
      /\ open' = IF k = Current /\ open = "closing" THEN "closed" ELSE open
  BY StreamsAre DEF Finish
<1>2. open' = "open" => open = "open" /\ k # Len(streams)
  BY <1>1, StreamsAre DEF LogTypes
<1> QED BY <1>1, <1>2, RemoveAtIs DEF LogTypes

LEMMA CloseIs ==
    ASSUME LogTypes, Close
    PROVE  /\ UNCHANGED <<files, size, logged, lost, hasty>> /\ open' = "closing"
           /\ streams' \in Seq(StreamOf(logged)) /\ Len(streams') = Len(streams)
           /\ \A l \in 1 .. Len(streams) :
                 streams'[l].at = At(l) /\ streams'[l].buffer = streams[l].buffer
<1>1. /\ UNCHANGED <<files, size, logged, lost, hasty>> /\ open' = "closing"
      /\ streams' = [streams EXCEPT ![Current].ended = TRUE]
      /\ Current \in 1 .. Len(streams)
  BY StreamsAre DEF Close, LogTypes
<1>2. \A l \in 1 .. Len(streams) : streams'[l] = IF l = Current THEN [streams[l] EXCEPT !.ended = TRUE]
                                                                 ELSE streams[l]
  BY <1>1, StreamsAre
<1>3. ASSUME NEW l \in 1 .. Len(streams)
      PROVE  /\ streams'[l].at = At(l) /\ streams'[l].buffer = streams[l].buffer
             /\ streams'[l] \in StreamOf(logged)
  <2>1. /\ streams[l] = [at |-> At(l), buffer |-> streams[l].buffer, ended |-> streams[l].ended]
        /\ At(l) \in Places \cup {Opening, Unlinked} /\ streams[l].buffer \in Seq(1 .. logged)
        /\ logged \in Nat
    BY StreamsAre, FileAssumption DEF StreamOf, At, LogTypes
  <2>2. [streams[l] EXCEPT !.ended = TRUE]
          = [at |-> At(l), buffer |-> streams[l].buffer, ended |-> TRUE]
    BY <2>1, StreamEnds
  <2>3. [streams[l] EXCEPT !.ended = TRUE] \in StreamOf(logged)
    <3>1. [at |-> At(l), buffer |-> streams[l].buffer, ended |-> TRUE] \in StreamOf(logged)
      BY <2>1, StreamIs
    <3> QED BY <2>2, <3>1, Zenon
  <2> QED BY <1>2, <2>1, <2>2, <2>3, StreamsAre
<1>4. DOMAIN streams' = 1 .. Len(streams) /\ streams' = [l \in 1 .. Len(streams) |-> streams'[l]]
  BY <1>1, StreamsAre
<1>5. streams' \in [1 .. Len(streams) -> StreamOf(logged)]
  BY <1>3, <1>4
<1>6. streams' \in Seq(StreamOf(logged)) /\ Len(streams') = Len(streams)
  BY <1>5, StreamsAre
<1> QED BY <1>1, <1>3, <1>6

-----------------------------------------------------------------------------
(* An entry is written, with a rotation (by = 1) or without.                *)
Writes(by) ==
    /\ open = "open" /\ logged < MaxEntries /\ logged' = logged + 1
    /\ DOMAIN streams' = 1 .. Len(streams) + by
    /\ \A k \in 1 .. Len(streams) : streams'[k].buffer = Entered(k)
    /\ by = 1 => streams'[Len(streams) + 1].buffer = <<>>
    /\ \A j \in DOMAIN files' : j \in Int /\ j - by \in DOMAIN files /\ files'[j] = files[j - by]

LEMMA EntriesLogged ==
    ASSUME LogTypes
    PROVE  /\ logged \in Nat /\ \A i \in DOMAIN files : InFile(i) \subseteq 1 .. logged
           /\ \A k \in 1 .. Len(streams) : Queued(k) \subseteq 1 .. logged
<1>1. \A i \in DOMAIN files : files[i] \in Seq(1 .. logged)
  BY DEF LogTypes
<1>2. \A k \in 1 .. Len(streams) : streams[k].buffer \in Seq(1 .. logged)
  BY StreamsAre DEF StreamOf
<1>3. \A s \in Seq(1 .. logged) : ToSet(s) \subseteq 1 .. logged
  BY EntriesOf
<1>4. logged \in Nat
  BY FileAssumption DEF LogTypes
<1> QED BY <1>1, <1>2, <1>3, <1>4 DEF InFile, Queued

LEMMA WritesAre ==
    ASSUME LogTypes, NEW by \in {0, 1}, Writes(by)
    PROVE  /\ \A j \in DOMAIN files' :
                 j \in Int /\ j - by \in DOMAIN files /\ InFile(j)' = InFile(j - by)
           /\ \A k \in 1 .. Len(streams) :
                 Queued(k)' = IF k = Current THEN Queued(k) \cup {logged + 1} ELSE Queued(k)
           /\ \A k : by = 1 /\ k = Len(streams) + 1 => Queued(k)' = {}
           /\ \A i \in DOMAIN files : logged + 1 \notin InFile(i)
           /\ \A k \in 1 .. Len(streams) : logged + 1 \notin Queued(k)
<1>1. \A k \in 1 .. Len(streams) :
         Queued(k)' = IF k = Current THEN Queued(k) \cup {logged + 1} ELSE Queued(k)
  BY EnteredIs DEF Writes, Queued
<1>2. \A k : by = 1 /\ k = Len(streams) + 1 => Queued(k)' = {}
  BY EmptyIs DEF Writes, Queued
<1> QED BY <1>1, <1>2, EntriesLogged DEF Writes, InFile

LEMMA WritesKeepOnce ==
    ASSUME LogTypes, Once, NEW by \in {0, 1}, Writes(by)
    PROVE  Once'
<1>0. DOMAIN streams' = 1 .. Len(streams) + by /\ DOMAIN streams = 1 .. Len(streams)
      /\ Len(streams) \in Nat
      /\ \A k \in DOMAIN streams' : k \in 1 .. Len(streams) \/ (by = 1 /\ k = Len(streams) + 1)
  BY StreamsAre DEF Writes
<1>1. \A i \in DOMAIN files' : IsInjective(files'[i])
  BY DEF Writes, Once
<1>2. ASSUME NEW k \in DOMAIN streams' PROVE IsInjective(streams'[k].buffer)
  <2>1. CASE k \in 1 .. Len(streams)
    <3>1. streams[k].buffer \in Seq(1 .. logged + 1) /\ logged + 1 \in 1 .. logged + 1
          /\ IsInjective(streams[k].buffer) /\ logged + 1 \notin ToSet(streams[k].buffer)
      BY <1>0, <2>1, StreamsAre, EntriesLogged, MoreEntries, WritesAre DEF StreamOf, Once, Queued
    <3>2. IsInjective(Append(streams[k].buffer, logged + 1))
      BY <3>1, EntriesLogged, AppendKeeps
    <3> QED BY <2>1, <3>1, <3>2 DEF Writes, Entered
  <2>2. CASE by = 1 /\ k = Len(streams) + 1
    BY <2>2, EmptyIs DEF Writes, IsInjective
  <2> QED BY <1>0, <2>1, <2>2
<1>3. ASSUME NEW i \in DOMAIN files', NEW j \in DOMAIN files', i # j
      PROVE  InFile(i)' \cap InFile(j)' = {}
  <2>1. i - by # j - by
    BY <1>3, WritesAre
  <2> QED BY <2>1, WritesAre DEF Once
<1>4. ASSUME NEW k \in DOMAIN streams'
      PROVE  \/ Queued(k)' = {}
             \/ /\ k \in DOMAIN streams
                /\ Queued(k)' = IF k = Current THEN Queued(k) \cup {logged + 1} ELSE Queued(k)
  <2>1. CASE k \in 1 .. Len(streams)
    BY <1>0, <2>1, WritesAre
  <2>2. CASE by = 1 /\ k = Len(streams) + 1
    BY <2>2, WritesAre
  <2> QED BY <1>0, <2>1, <2>2
<1>5. ASSUME NEW i \in DOMAIN files', NEW k \in DOMAIN streams'
      PROVE  InFile(i)' \cap Queued(k)' = {}
  <2>1. i - by \in DOMAIN files /\ InFile(i)' = InFile(i - by) /\ logged + 1 \notin InFile(i - by)
    BY WritesAre
  <2>2. k \in DOMAIN streams => InFile(i - by) \cap Queued(k) = {}
    BY <2>1 DEF Once
  <2> QED BY <1>4, <2>1, <2>2
<1>6. ASSUME NEW k \in DOMAIN streams', NEW l \in DOMAIN streams', k # l
      PROVE  Queued(k)' \cap Queued(l)' = {}
  <2>1. k \in DOMAIN streams /\ l \in DOMAIN streams
          => /\ Queued(k) \cap Queued(l) = {}
             /\ logged + 1 \notin Queued(k) /\ logged + 1 \notin Queued(l)
    BY <1>0, <1>6, WritesAre DEF Once
  <2> QED BY <1>4, <1>6, <2>1
<1> QED BY <1>1, <1>2, <1>3, <1>5, <1>6 DEF Once

(* The new entry is younger than all there are, and goes to the last stream.*)
LEMMA WritesKeepOrder ==
    ASSUME LogTypes, InOrder, NEW by \in {0, 1}, Writes(by)
    PROVE  /\ \A i \in DOMAIN files' : Increasing(files'[i])
           /\ \A k \in DOMAIN streams' : Increasing(streams'[k].buffer)
           /\ \A i, j \in DOMAIN files' : i > j => Below(InFile(i)', InFile(j)')
           /\ \A k, l \in DOMAIN streams' : k < l => Below(Queued(k)', Queued(l)')
<1>0. /\ DOMAIN streams' = 1 .. Len(streams) + by /\ DOMAIN streams = 1 .. Len(streams)
      /\ Len(streams) \in Nat /\ Current = Len(streams)
      /\ \A k \in DOMAIN streams' : k \in 1 .. Len(streams) \/ (by = 1 /\ k = Len(streams) + 1)
  BY StreamsAre DEF Writes
<1>1. \A i \in DOMAIN files' : Increasing(files'[i])
  BY DEF Writes, InOrder
<1>2. ASSUME NEW k \in DOMAIN streams' PROVE Increasing(streams'[k].buffer)
  <2>1. CASE k \in 1 .. Len(streams)
    <3>1. streams[k].buffer \in Seq(1 .. logged + 1) /\ logged + 1 \in 1 .. logged + 1
          /\ Increasing(streams[k].buffer) /\ logged + 1 \in Nat
      BY <1>0, <2>1, StreamsAre, EntriesLogged, MoreEntries DEF StreamOf, InOrder
    <3>2. \A x \in ToSet(streams[k].buffer) : x < logged + 1
      BY <2>1, EntriesLogged DEF Queued
    <3>3. Increasing(Append(streams[k].buffer, logged + 1))
      BY <3>1, <3>2, AppendKeeps
    <3> QED BY <2>1, <3>1, <3>3 DEF Writes, Entered
  <2>2. CASE by = 1 /\ k = Len(streams) + 1
    BY <2>2, EmptyIs DEF Writes, Increasing
  <2> QED BY <1>0, <2>1, <2>2
<1>3. ASSUME NEW i \in DOMAIN files', NEW j \in DOMAIN files', i > j
      PROVE  Below(InFile(i)', InFile(j)')
  <2>1. i - by > j - by
    BY <1>3, WritesAre
  <2> QED BY <2>1, WritesAre DEF InOrder
<1>4. ASSUME NEW k \in DOMAIN streams', NEW l \in DOMAIN streams', k < l
      PROVE  Below(Queued(k)', Queued(l)')
  <2>2. CASE l \in 1 .. Len(streams)
    <3>2. k \in 1 .. Len(streams) /\ k # Current
      BY <1>0, <1>4, <2>2
    <3>3. Queued(k)' = Queued(k)
      BY <3>2, WritesAre
    <3>1. Below(Queued(k), Queued(l)) /\ \A d \in Queued(k) : d < logged + 1
      BY <1>0, <1>4, <2>2, <3>2, EntriesLogged DEF InOrder
    <3> QED BY <2>2, <3>3, <3>1, WritesAre DEF Below
  <2>3. CASE by = 1 /\ l = Len(streams) + 1
    <3>1. Queued(l)' = {}
      BY <2>3, WritesAre
    <3> QED BY <3>1 DEF Below
  <2> QED BY <1>0, <2>2, <2>3
<1> QED BY <1>1, <1>2, <1>3, <1>4

LEMMA PlainLogWrites == ASSUME LogTypes, Log, size + 1 < MaxFileSize PROVE Writes(0)
<1>1. \A j \in DOMAIN files' : j \in Int /\ j - 0 \in DOMAIN files /\ files'[j] = files[j - 0]
  <2>1. \A j \in DOMAIN files : j \in Int /\ j - 0 = j
    BY DEF LogTypes, Places
  <2> QED BY <2>1, PlainLogIs
<1>2. DOMAIN streams' = 1 .. Len(streams) /\ 1 .. Len(streams) = 1 .. Len(streams) + 0
  BY PlainLogIs, StreamsAre
<1>3. \A k \in 1 .. Len(streams) : streams'[k].buffer = Entered(k)
  BY PlainLogIs
<1>4. open = "open" /\ logged < MaxEntries /\ logged' = logged + 1
  BY PlainLogIs
<1> QED BY <1>1, <1>2, <1>3, <1>4 DEF Writes

LEMMA RotateWrites == ASSUME LogTypes, Log, size + 1 >= MaxFileSize PROVE Writes(1)
<1>1. DOMAIN streams' = 1 .. Len(streams) + 1
  BY RotateIs
<1>2. \A j \in DOMAIN files' : j \in Int /\ j - 1 \in DOMAIN files /\ files'[j] = files[j - 1]
  BY RotateIs, ShiftedIs DEF Places
<1>3. streams'[Len(streams) + 1].buffer = <<>>
  BY RotateIs DEF NewStream
<1>4. \A k \in 1 .. Len(streams) : streams'[k].buffer = Entered(k)
  BY RotateIs
<1>5. open = "open" /\ logged < MaxEntries /\ logged' = logged + 1
  BY RotateIs
<1> QED BY <1>1, <1>2, <1>3, <1>4, <1>5 DEF Writes

LEMMA LogKeepsTypes == ASSUME LogTypes, Log PROVE LogTypes'
<1>1. /\ logged \in Nat /\ logged' = logged + 1 /\ logged' \in 0 .. MaxEntries
      /\ size \in 0 .. logged /\ 0 \in 0 .. logged' /\ size + 1 \in 0 .. logged'
      /\ open' = "open" /\ lost' = lost /\ lost' \subseteq 1 .. logged'
  <2>1. /\ logged \in 0 .. MaxEntries /\ logged < MaxEntries /\ logged' = logged + 1
        /\ MaxEntries \in Nat /\ size \in 0 .. logged
        /\ open' = "open" /\ lost' = lost /\ lost \subseteq 1 .. logged
    BY FileAssumption DEF Log, LogTypes
  <2>2. 1 .. logged \subseteq 1 .. logged + 1
    BY <2>1
  <2> QED BY <2>1, <2>2
<1>2. CASE size + 1 < MaxFileSize
  <2>1. files' \in [DOMAIN files' -> Seq(1 .. logged')] /\ DOMAIN files' \subseteq Places
    BY <1>1, <1>2, PlainLogIs, MoreEntries DEF LogTypes
  <2>2. streams' \in Seq(StreamOf(logged')) /\ Len(streams') = Len(streams)
    BY <1>1, <1>2, PlainLogIs
  <2>3. Len(streams) \in 1 .. Len(streams) /\ ~streams[Len(streams)].ended
    BY <1>2, PlainLogIs, StreamsAre DEF LogTypes
  <2>4. streams' # <<>> /\ ~streams'[Len(streams')].ended
    BY <1>2, <2>2, <2>3, PlainLogIs
  <2> QED BY <1>1, <1>2, <2>1, <2>2, <2>4, PlainLogIs DEF LogTypes, Current
<1>3. CASE size + 1 >= MaxFileSize
  <2>1. files' \in [DOMAIN files' -> Seq(1 .. logged)] /\ DOMAIN files' \subseteq Places
    BY <1>3, RotateIs, ShiftedIs
  <2>2. files' \in [DOMAIN files' -> Seq(1 .. logged')]
    BY <1>1, <2>1, MoreEntries
  <2>3. streams' \in Seq(StreamOf(logged')) /\ Len(streams') = Len(streams) + 1
    BY <1>1, <1>3, RotateIs
  <2>4. streams' # <<>> /\ ~streams'[Len(streams')].ended
    BY <1>3, <2>3, RotateIs, StreamsAre DEF NewStream
  <2>5. size' = 0 /\ hasty' \in BOOLEAN
    BY <1>3, RotateIs
  <2> QED BY <1>1, <2>1, <2>2, <2>3, <2>4, <2>5 DEF LogTypes, Current
<1> QED BY <1>1, <1>2, <1>3, FileAssumption

(* The entry is written to the last stream, whose file has still the first  *)
(* name.                                                                    *)
LEMMA PlainLogKeeps ==
    ASSUME LogInv, ~hasty, Log, size + 1 < MaxFileSize
    PROVE  Placed' /\ InOrder' /\ Pushed' /\ Kept'
<1>0. LogTypes /\ Once /\ Placed /\ InOrder /\ Pushed /\ Kept /\ Writes(0)
  BY PlainLogWrites DEF LogInv
<1>1. /\ DOMAIN streams' = 1 .. Len(streams) /\ DOMAIN streams = 1 .. Len(streams)
      /\ Len(streams) \in Nat /\ Len(streams') = Len(streams)
      /\ Current = Len(streams) /\ Current' = Current /\ Current \in 1 .. Len(streams)
      /\ \A k \in 1 .. Len(streams) : At(k)' = At(k) /\ At(k) \in Int
      /\ UNCHANGED <<files, open>> /\ logged' = logged + 1 /\ size' = size + 1 /\ open = "open"
  <2>1. \A k \in 1 .. Len(streams) : At(k) \in Int
    BY <1>0, AtIs
  <2> QED BY <1>0, <2>1, PlainLogIs, StreamsAre DEF At, Current, LogTypes
<1>2. /\ \A i \in DOMAIN files : InFile(i)' = InFile(i) /\ i \in Nat
      /\ \A k \in 1 .. Len(streams) :
            Queued(k)' = IF k = Current THEN Queued(k) \cup {logged + 1} ELSE Queued(k)
  BY <1>0, <1>1, WritesAre DEF InFile, LogTypes, Places
<1>3. At(Current) \in {Opening, 0} /\ At(Current)' \in {Opening, 0}
  BY <1>0, <1>1 DEF Placed
<1>4. Placed'
  BY <1>0, <1>1, <1>3 DEF Placed
<1>5. InOrder'
  <2>1. ASSUME NEW i \in DOMAIN files, NEW k \in 1 .. Len(streams)
        PROVE  IF i >= At(k) THEN Below(InFile(i), Queued(k)') ELSE Below(Queued(k)', InFile(i))
    <3>1. IF i >= At(k) THEN Below(InFile(i), Queued(k)) ELSE Below(Queued(k), InFile(i))
      BY <1>0, <1>1 DEF InOrder
    <3>2. k = Current => i >= At(k)
      BY <1>2, <1>3 DEF Opening
    <3>3. \A d \in InFile(i) : d < logged + 1
      BY <1>0, EntriesLogged
    <3> QED BY <1>2, <3>1, <3>2, <3>3 DEF Below
  <2>2. /\ \A i \in DOMAIN files' : Increasing(files'[i])
        /\ \A k \in DOMAIN streams' : Increasing(streams'[k].buffer)
        /\ \A i, j \in DOMAIN files' : i > j => Below(InFile(i)', InFile(j)')
        /\ \A k, l \in DOMAIN streams' : k < l => Below(Queued(k)', Queued(l)')
    BY <1>0, WritesKeepOrder
  <2> QED BY <1>1, <1>2, <2>1, <2>2 DEF InOrder
<1>6. Pushed'
  <2>1. SizeOnDisk' + Unwritten' <= size'
    <3>1. streams # <<>> /\ streams' # <<>>
      BY <1>1
    <3>2. Unwritten = Len(streams[Current].buffer)
          /\ Unwritten' = Len(streams'[Current].buffer)
      BY <1>1, <1>3, <3>1 DEF Unwritten
    <3>3. Len(streams'[Current].buffer) = Len(streams[Current].buffer) + 1
      BY <1>0, <1>1, EnteredIs DEF Writes
    <3>4. SizeOnDisk' = SizeOnDisk /\ SizeOnDisk \in Nat /\ size \in Nat
          /\ Len(streams[Current].buffer) \in Nat
      BY <1>0, <1>1, StreamsAre DEF SizeOnDisk, LogTypes, StreamOf
    <3> QED BY <1>0, <1>1, <3>2, <3>3, <3>4 DEF Pushed
  <2>2. ASSUME NEW i \in Int
        PROVE  Behind(i) \in Int /\ Behind(i)' <= Behind(i) + 1 /\ Behind(i)' \in Int
    <3>1. size \in Int /\ i - 1 \in Int /\ Full(i - 1) \in Int /\ Rest \in Int
      BY <1>0, FullIs, FileAssumption DEF LogTypes
    <3>2. /\ Behind(i) = IF i = Unlinked THEN Rest ELSE size + Full(i - 1)
          /\ Behind(i)' = IF i = Unlinked THEN Rest ELSE size' + Full(i - 1)
      BY DEF Behind
    <3> QED BY <1>1, <3>1, <3>2
  <2>3. ASSUME NEW i \in DOMAIN files, i >= 1, NEW e \in InFile(i) PROVE logged' - e >= Behind(i)'
    <3>1. logged - e >= Behind(i) /\ e \in Int /\ logged \in Int /\ i \in Int
      BY <1>0, <1>2, <2>3, EntriesLogged DEF Pushed
    <3>2. Behind(i) \in Int /\ Behind(i)' <= Behind(i) + 1 /\ Behind(i)' \in Int
      BY <2>2, <3>1
    <3> QED BY <1>1, <3>1, <3>2
  <2>4. ASSUME NEW k \in 1 .. Len(streams), At(k) >= 1, NEW e \in Queued(k)
        PROVE  logged' - e >= Behind(At(k))'
    <3>0. k \in DOMAIN streams
      BY <1>1
    <3>1. logged - e >= Behind(At(k)) /\ e \in Int /\ logged \in Int /\ At(k) \in Int
      <4>1. logged - e >= Behind(At(k))
        BY <1>0, <2>4, <3>0 DEF Pushed
      <4>2. e \in Int /\ logged \in Int
        BY <1>0, <3>0, EntriesLogged
      <4>3. At(k) \in Int
        BY <1>1
      <4> QED BY <4>1, <4>2, <4>3
    <3>2. /\ Behind(At(k))' <= Behind(At(k)) + 1
          /\ Behind(At(k))' \in Int /\ Behind(At(k)) \in Int
      <4>1. PICK i \in Int : i = At(k) /\ i = At(k)'
        BY <1>1, <3>1
      <4>2. Behind(i) \in Int /\ Behind(i)' <= Behind(i) + 1 /\ Behind(i)' \in Int
        BY <2>2
      <4> QED BY <4>1, <4>2
    <3> QED BY <1>1, <3>1, <3>2
  <2>5. \A k \in 1 .. Len(streams) : At(k) >= 1 => Queued(k)' = Queued(k)
    BY <1>2, <1>3 DEF Opening
  <2> QED BY <1>1, <1>2, <2>1, <2>3, <2>4, <2>5 DEF Pushed
<1>7. Kept'
  <2> SUFFICES ASSUME NEW e \in 1 .. logged + 1
               PROVE  \/ e \in lost'
                      \/ \E i \in DOMAIN files' : e \in InFile(i)'
                      \/ \E k \in DOMAIN streams' : e \in Queued(k)'
                      \/ logged' - e >= Rest
    BY <1>1 DEF Kept, Rest
  <2>1. CASE e = logged + 1
    BY <1>1, <1>2, <2>1
  <2>2. CASE e \in 1 .. logged
    <3>1. Rest \in Int /\ logged \in Int
      BY <1>0, EntriesLogged, FullIs
    <3>2. lost' = lost
      BY <1>0, PlainLogIs
    <3>3. e \in lost \/ logged - e >= Rest => e \in lost' \/ logged' - e >= Rest
      BY <1>1, <2>2, <3>1, <3>2
    <3>4. (\E i \in DOMAIN files : e \in InFile(i)) => \E i \in DOMAIN files' : e \in InFile(i)'
      BY <1>1, <1>2
    <3>5. (\E k \in DOMAIN streams : e \in Queued(k))
            => \E k \in DOMAIN streams' : e \in Queued(k)'
      BY <1>1, <1>2
    <3> QED BY <1>0, <2>2, <3>3, <3>4, <3>5 DEF Kept
  <2> QED BY <1>0, <2>1, <2>2, EntriesLogged
<1> QED BY <1>4, <1>5, <1>6, <1>7

(* Files and streams move together, so a stream stays at its file, and what *)
(* leaves the last place is behind as many entries as the others hold.      *)
LEMMA ShiftOrder ==
    ASSUME NEW a \in Places \cup {Unlinked}, NEW b \in Places \cup {Unlinked}
    PROVE  /\ Shift(a) \in Places \cup {Unlinked} /\ Shift(a) >= 1
           /\ a > b => Shift(a) > Shift(b) \/ (Shift(a) = Unlinked /\ Shift(b) = Unlinked)
           /\ a = Unlinked => Shift(a) = Unlinked
           /\ b \in Places /\ b # MaxFiles - 1 => (b + 1 >= Shift(a) <=> b >= a)
           /\ a \in Places => Shift(a) = IF a = MaxFiles - 1 THEN Unlinked ELSE a + 1
BY PlacesAre, FileAssumption DEF Shift, NextPlace, Places, Unlinked

LEMMA RotateKeeps ==
    ASSUME LogInv, Log, size + 1 >= MaxFileSize, ~hasty'
    PROVE  Placed' /\ InOrder' /\ Pushed' /\ Kept'
<1>0. ~hasty /\ LogTypes /\ Once /\ Placed /\ InOrder /\ Pushed /\ Kept /\ Writes(1)
  BY RotateIs, RotateWrites DEF LogInv
<1> DEFINE n == Len(streams)
<1>1. /\ DOMAIN streams' = 1 .. n + 1 /\ DOMAIN streams = 1 .. n
      /\ n \in Nat /\ Len(streams') = n + 1
      /\ Current = n /\ Current' = n + 1 /\ n \in 1 .. n
      /\ \A k \in DOMAIN streams' : k \in 1 .. n \/ k = n + 1
      /\ logged' = logged + 1 /\ size' = 0 /\ lost' = lost /\ open = "open"
  BY <1>0, RotateIs, StreamsAre DEF Current, LogTypes, Writes
<1>2. \A k \in 1 .. n : At(k) \in Places \cup {Unlinked} /\ At(k) \in Nat
  <2>1. At(n) # Opening
    BY <1>0, <1>1, RotateIs
  <2>2. \A k \in 1 .. n : k # n => At(k) >= 1
    <3> HIDE DEF n
    <3>1. \A k \in 1 .. n : k # n => k < n /\ k \in DOMAIN streams /\ n \in DOMAIN streams
      BY <1>1
    <3> QED BY <1>0, <3>1 DEF Placed
  <2> QED BY <1>0, <2>1, <2>2, AtIs, PlacesAre
<1>3. At(n) = 0
  BY <1>0, <1>1, <1>2, PlacesAre DEF Placed
<1>4. \A k \in 1 .. n : At(k)' = Shift(At(k))
  BY <1>0, RotateIs DEF At
<1>5. \A k : k = n + 1 => At(k)' = Opening /\ Queued(k)' = {} /\ streams'[k].buffer = <<>>
  <2>1. streams'[n + 1] = [at |-> Opening, buffer |-> <<>>, ended |-> FALSE]
    BY <1>0, RotateIs DEF NewStream
  <2> QED BY <2>1, EmptyIs DEF At, Queued
<1>6. \A k \in 1 .. n :
         Queued(k)' = IF k = n THEN Queued(k) \cup {logged + 1} ELSE Queued(k)
  BY <1>0, <1>1, WritesAre
<1>7. \A j \in DOMAIN files' : /\ j \in Places /\ j >= 1 /\ j \in Nat
                               /\ j - 1 \in DOMAIN files /\ j - 1 \in Places
                               /\ j - 1 # MaxFiles - 1 /\ (j - 1) + 1 = j
                               /\ InFile(j)' = InFile(j - 1)
  <2>1. \A j \in DOMAIN files' : j \in Int /\ InFile(j)' = InFile(j - 1)
    BY <1>0, WritesAre
  <2>2. files' = Shifted
    BY <1>0, RotateIs
  <2>3. \A j \in DOMAIN files' : j \in Places /\ j >= 1 /\ j - 1 \in DOMAIN files
    BY <1>0, <2>2, ShiftedIs
  <2>4. DOMAIN files \subseteq Places
    BY <1>0 DEF LogTypes
  <2>5. ASSUME NEW j \in DOMAIN files'
        PROVE  j \in Nat /\ j - 1 \in Places /\ j - 1 # MaxFiles - 1 /\ (j - 1) + 1 = j
    BY <2>1, <2>3, <2>4, PlacesAre
  <2> QED BY <2>1, <2>3, <2>5
<1>8. \A i \in DOMAIN files : /\ i \in Places /\ i \in Nat
                              /\ i # MaxFiles - 1 => i + 1 \in DOMAIN files'
  BY <1>0, RotateIs, ShiftedIs, PlacesAre DEF LogTypes
<1> HIDE DEF n
<1>9. Placed'
  <2>1. ASSUME NEW k \in 1 .. n, At(k)' \in Places PROVE At(k)' \in DOMAIN files'
    <3>1. At(k) \in Places /\ At(k) # MaxFiles - 1 /\ At(k)' = At(k) + 1
      BY <1>2, <1>4, <2>1, ShiftOrder, PlacesAre
    <3>2. At(k) \in DOMAIN files
      BY <1>0, <1>1, <3>1 DEF Placed
    <3> QED BY <1>8, <3>1, <3>2
  <2>2. ASSUME NEW k \in 1 .. n, NEW l \in 1 .. n, k < l
        PROVE  At(k)' >= 1 /\ (At(k)' > At(l)' \/ (At(k)' = Unlinked /\ At(l)' = Unlinked))
    <3>1. At(k) > At(l) \/ (At(k) = Unlinked /\ At(l) = Unlinked)
      BY <1>0, <1>1, <2>2 DEF Placed
    <3> QED BY <1>2, <1>4, <3>1, ShiftOrder
  <2>3. \A k \in 1 .. n : At(k)' \in Nat /\ At(k)' >= 1
    BY <1>2, <1>4, ShiftOrder, PlacesAre
  <2>4. Opening \notin Places /\ \A m \in Nat : m > Opening
    BY PlacesAre
  <2>5. \A k \in DOMAIN streams' : At(k)' \in Places => At(k)' \in DOMAIN files'
    BY <1>1, <1>5, <2>1, <2>4
  <2>6. ASSUME NEW k \in DOMAIN streams', NEW l \in DOMAIN streams', k < l
        PROVE  At(k)' >= 1 /\ (At(k)' > At(l)' \/ (At(k)' = Unlinked /\ At(l)' = Unlinked))
    <3>1. k \in 1 .. n
      BY <1>1, <2>6
    <3>2. CASE l \in 1 .. n
      BY <2>2, <2>6, <3>1, <3>2
    <3>3. CASE l = n + 1
      BY <1>5, <2>3, <2>4, <3>1, <3>3
    <3> QED BY <1>1, <3>2, <3>3
  <2>7. At(Current)' \in {Opening, 0}
    BY <1>1, <1>5 DEF At
  <2> QED BY <2>5, <2>6, <2>7 DEF Placed
<1>10. InOrder'
  <2>1. /\ \A i \in DOMAIN files' : Increasing(files'[i])
        /\ \A k \in DOMAIN streams' : Increasing(streams'[k].buffer)
        /\ \A i, j \in DOMAIN files' : i > j => Below(InFile(i)', InFile(j)')
        /\ \A k, l \in DOMAIN streams' : k < l => Below(Queued(k)', Queued(l)')
    BY <1>0, WritesKeepOrder
  <2>2. ASSUME NEW j \in DOMAIN files', NEW k \in 1 .. n
        PROVE  IF j >= At(k)' THEN Below(InFile(j)', Queued(k)') ELSE Below(Queued(k)', InFile(j)')
    <3>1. j >= At(k)' <=> j - 1 >= At(k)
      BY <1>2, <1>4, <1>7, ShiftOrder
    <3>2. IF j - 1 >= At(k) THEN Below(InFile(j - 1), Queued(k)) ELSE Below(Queued(k), InFile(j - 1))
      BY <1>0, <1>1, <1>7 DEF InOrder
    <3>3. k = n => j - 1 >= At(k)
      BY <1>3, <1>7
    <3>4. \A d \in InFile(j - 1) : d < logged + 1
      BY <1>0, <1>7, EntriesLogged
    <3> QED BY <1>6, <1>7, <3>1, <3>2, <3>3, <3>4 DEF Below
  <2>3. ASSUME NEW j \in DOMAIN files', NEW k, k = n + 1
        PROVE  IF j >= At(k)' THEN Below(InFile(j)', Queued(k)') ELSE Below(Queued(k)', InFile(j)')
    <3>1. Queued(k)' = {}
      BY <1>5, <2>3
    <3> QED BY <3>1 DEF Below
  <2> QED BY <1>1, <2>1, <2>2, <2>3 DEF InOrder
<1>11. /\ size \in Nat /\ logged \in Nat /\ size + 1 >= MaxFileSize
       /\ MaxFileSize \in Nat /\ Rest \in Int /\ Rest = Full((MaxFiles - 2) + 1)
       /\ MaxFiles - 2 \in Int /\ (MaxFiles - 1) - 1 = MaxFiles - 2
  <2>1. MaxFiles - 2 \in Int /\ (MaxFiles - 1) - 1 = MaxFiles - 2 /\ (MaxFiles - 2) + 1 = MaxFiles - 1
    BY FileAssumption
  <2> QED BY <1>0, <2>1, FullIs, EntriesLogged DEF Rest, LogTypes
<1>12. \A i : Behind(i)' = IF i = Unlinked THEN Rest ELSE 0 + Full(i - 1)
  BY <1>1 DEF Behind
(* An entry that is as far back as its place says is so when it has moved.  *)
<1>13. ASSUME NEW i \in Places, i >= 1, NEW e \in Int, logged - e >= Behind(i)
       PROVE  logged' - e >= IF i = MaxFiles - 1 THEN Rest ELSE Full(i)
  <2>1. i \in Int /\ i - 1 \in Int /\ (i - 1) + 1 = i /\ i # Unlinked
    BY PlacesAre
  <2>2. logged - e >= size + Full(i - 1) /\ Full(i - 1) \in Int
    BY <1>13, <2>1, FullIs DEF Behind
  <2>3. Full(i) = Full(i - 1) + MaxFileSize
    BY <2>1, FullIs
  <2>4. i = MaxFiles - 1 => Rest = Full(i)
    BY DEF Rest
  <2> QED BY <1>1, <1>11, <2>2, <2>3, <2>4
<1>14. Pushed'
  <2>1. SizeOnDisk' + Unwritten' <= size'
    <3>1. 0 \notin DOMAIN files'
      BY <1>7
    <3>2. SizeOnDisk' = 0
      BY <3>1 DEF SizeOnDisk
    <3>3. Unwritten' = 0
      BY <1>1, <1>5, EmptyIs DEF Unwritten
    <3> QED BY <1>1, <3>2, <3>3
  <2>2. ASSUME NEW j \in DOMAIN files', NEW e \in InFile(j)'
        PROVE  logged' - e >= Behind(j)'
    <3>1. j - 1 \in DOMAIN files /\ e \in InFile(j - 1) /\ e \in 1 .. logged
      BY <1>0, <1>7, <2>2, EntriesLogged
    <3>2. Behind(j)' = Full(j - 1) /\ Full(j - 1) \in Int
      <4>1. j # Unlinked /\ j - 1 \in Int
        BY <1>7, PlacesAre
      <4>2. Full(j - 1) \in Int
        BY <4>1, FullIs
      <4>3. Behind(j)' = 0 + Full(j - 1)
        BY <1>12, <4>1
      <4> QED BY <4>2, <4>3
    <3>3. CASE j = 1
      BY <1>1, <1>11, <3>1, <3>2, <3>3, FullIs
    <3>4. CASE j # 1
      <4>1. j - 1 \in Places /\ j - 1 >= 1 /\ j - 1 # MaxFiles - 1
        BY <1>7, <3>4
      <4>2. logged - e >= Behind(j - 1)
        BY <1>0, <3>1, <4>1 DEF Pushed
      <4> QED BY <1>13, <3>1, <3>2, <4>1, <4>2
    <3> QED BY <3>3, <3>4
  <2>3. ASSUME NEW k \in 1 .. n, NEW e \in Queued(k)'
        PROVE  logged' - e >= Behind(At(k))'
    <3>1. e \in 1 .. logged + 1 /\ (k # n => e \in Queued(k) /\ e \in 1 .. logged)
      BY <1>0, <1>1, <1>6, <1>11, <2>3, EntriesLogged
    <3>2. Behind(At(k))' = IF Shift(At(k)) = Unlinked THEN Rest ELSE 0 + Full(Shift(At(k)) - 1)
      <4>1. PICK a : a = At(k)'
        OBVIOUS
      <4>2. Behind(a)' = Behind(At(k))'
        BY <4>1
      <4> QED BY <1>4, <1>12, <4>1, <4>2
    <3>3. CASE k = n
      <4>1. Shift(At(k)) = 1 /\ Unlinked # 1
        BY <1>3, <3>3, ShiftOrder, PlacesAre
      <4>2. Behind(At(k))' = 0
        BY <3>2, <4>1, FullIs
      <4> QED BY <1>1, <1>11, <3>1, <4>2
    <3>4. CASE k # n
      <4>1. e \in Queued(k) /\ At(k) >= 1 /\ logged - e >= Behind(At(k)) /\ e \in Int
        <5>1. At(k) >= 1
          <6>1. k < n /\ k \in DOMAIN streams /\ n \in DOMAIN streams
            BY <1>1, <3>4
          <6> QED BY <1>0, <6>1 DEF Placed
        <5> QED BY <1>0, <1>1, <3>1, <3>4, <5>1 DEF Pushed
      <4>2. CASE At(k) = Unlinked
        <5>1. Behind(At(k))' = Rest /\ Behind(At(k)) = Rest
          BY <3>2, <4>2, ShiftOrder DEF Behind
        <5> QED BY <1>1, <1>11, <4>1, <5>1
      <4>3. CASE At(k) \in Places
        <5>1. logged' - e >= IF At(k) = MaxFiles - 1 THEN Rest ELSE Full(At(k))
          BY <1>13, <4>1, <4>3
        <5>2. Shift(At(k)) = IF At(k) = MaxFiles - 1 THEN Unlinked ELSE At(k) + 1
          BY <4>3, ShiftOrder
        <5>3. At(k) # MaxFiles - 1 => At(k) + 1 # Unlinked /\ (At(k) + 1) - 1 = At(k)
                                      /\ 0 + Full(At(k)) = Full(At(k))
          <6>1. At(k) + 1 # Unlinked <=> At(k) # MaxFiles
            BY <4>3, PlacesAre DEF Unlinked
          <6>2. At(k) \in Nat /\ At(k) <= MaxFiles - 1 /\ (At(k) + 1) - 1 = At(k)
            BY <4>3, PlacesAre
          <6>3. Full(At(k)) \in Int
            BY <6>2, FullIs
          <6> QED BY <6>1, <6>2, <6>3, PlacesAre
        <5> QED BY <3>2, <5>1, <5>2, <5>3
      <4> QED BY <1>2, <4>2, <4>3
    <3> QED BY <3>3, <3>4
  <2>4. \A k \in DOMAIN streams' : At(k)' >= 1 => \A e \in Queued(k)' : logged' - e >= Behind(At(k))'
    BY <1>1, <1>5, <2>3
  <2> QED BY <2>1, <2>2, <2>4 DEF Pushed
<1>15. Kept'
  <2> SUFFICES ASSUME NEW e \in 1 .. logged + 1
               PROVE  \/ e \in lost'
                      \/ \E j \in DOMAIN files' : e \in InFile(j)'
                      \/ \E k \in DOMAIN streams' : e \in Queued(k)'
                      \/ logged' - e >= Rest
    BY <1>1 DEF Kept, Rest
  <2>1. CASE e = logged + 1
    BY <1>1, <1>6, <2>1
  <2>2. CASE e \in 1 .. logged
    <3>1. CASE e \in lost \/ logged - e >= Rest
      BY <1>1, <1>11, <2>2, <3>1
    <3>2. ASSUME NEW i \in DOMAIN files, e \in InFile(i)
          PROVE  (\E j \in DOMAIN files' : e \in InFile(j)') \/ logged' - e >= Rest
      <4>1. CASE i = MaxFiles - 1
        <5>1. logged - e >= Behind(i) /\ i \in Places /\ i >= 1
          BY <1>0, <3>2, <4>1, PlacesAre DEF Pushed
        <5> QED BY <1>13, <4>1, <5>1
      <4>2. CASE i # MaxFiles - 1
        <5>1. PICK j : j = i + 1
          OBVIOUS
        <5>2. j \in DOMAIN files' /\ j - 1 = i
          BY <1>8, <4>2, <5>1
        <5> QED BY <1>7, <3>2, <5>2
      <4> QED BY <4>1, <4>2
    <3>3. ASSUME NEW k \in 1 .. n, e \in Queued(k)
          PROVE  \E l \in DOMAIN streams' : e \in Queued(l)'
      BY <1>1, <1>6, <3>3
    <3> QED BY <1>0, <1>1, <2>2, <3>1, <3>2, <3>3 DEF Kept
  <2> QED BY <1>11, <2>1, <2>2
<1> QED BY <1>9, <1>10, <1>14, <1>15

(* A stream opens the current file, as the last stream does if no rotation  *)
(* was hasty.                                                               *)
LEMMA OpenFileKeeps ==
    ASSUME LogInv, NEW k \in DOMAIN streams, OpenFile(k)
    PROVE  LogInv'
<1>0. LogTypes /\ Once /\ (~hasty => Placed /\ InOrder /\ Pushed /\ Kept)
  BY DEF LogInv
<1>1. /\ DOMAIN streams' = 1 .. Len(streams) /\ DOMAIN streams = 1 .. Len(streams)
      /\ Len(streams) \in Nat /\ Len(streams') = Len(streams) /\ Current' = Current
      /\ Current = Len(streams) /\ k \in 1 .. Len(streams)
      /\ UNCHANGED <<size, open, logged, lost, hasty>> /\ At(k) = Opening
      /\ \A l \in 1 .. Len(streams) : /\ At(l)' = IF l = k THEN 0 ELSE At(l)
                                      /\ streams'[l].buffer = streams[l].buffer
                                      /\ Queued(l)' = Queued(l)
  BY <1>0, OpenFileIs, StreamsAre DEF Current, At, Queued
<1>2. /\ DOMAIN files' = DOMAIN files \cup {0}
      /\ \A i \in DOMAIN files' : \/ i \in DOMAIN files /\ files'[i] = files[i] /\ InFile(i)' = InFile(i)
                                  \/ i = 0 /\ files'[i] = <<>> /\ InFile(i)' = {}
  BY <1>0, OpenFileIs, EmptyIs DEF InFile
<1>3. LogTypes'
  <2>1. open = "open" => ~streams'[Current].ended /\ streams' # <<>>
    BY <1>0, <1>1, OpenFileIs, StreamsAre DEF LogTypes
  <2>2. open # "down"
    BY <1>0, <1>1 DEF LogTypes
  <2> QED BY <1>0, <1>1, <2>1, <2>2, OpenFileIs DEF LogTypes
<1>4. Once'
  BY <1>0, <1>1, <1>2, EmptyIs DEF Once
<1>5. ASSUME ~hasty' PROVE Placed' /\ InOrder' /\ Pushed' /\ Kept'
  <2>0. Placed /\ InOrder /\ Pushed /\ Kept
    BY <1>0, <1>1, <1>5
  <2>1. \A l \in 1 .. Len(streams) : l < k => At(l) >= 1
    BY <1>1, <2>0 DEF Placed
  <2>2. k = Len(streams)
    <3>1. k < Len(streams) => Opening >= 1
      BY <1>1, <2>0 DEF Placed
    <3> QED BY <1>1, <3>1, PlacesAre
  <2>3. \A l \in 1 .. Len(streams) : At(l) \in Int
    BY <1>0, AtIs
  <2>4. Placed'
    <3>1. \A l \in 1 .. Len(streams) : At(l)' \in Places => At(l)' \in DOMAIN files'
      BY <1>1, <1>2, <2>0 DEF Placed
    <3>2. ASSUME NEW l \in 1 .. Len(streams), NEW m \in 1 .. Len(streams), l < m
          PROVE  At(l)' >= 1 /\ (At(l)' > At(m)' \/ (At(l)' = Unlinked /\ At(m)' = Unlinked))
      <4>1. l # k /\ At(l)' = At(l) /\ At(l) >= 1
        <5>0. Len(streams) \in Nat
          BY <1>1
        <5>1. l # k
          BY <2>2, <3>2, <5>0
        <5>2. At(l) >= 1
          BY <1>1, <2>0, <3>2 DEF Placed
        <5> QED BY <1>1, <5>1, <5>2
      <4>2. CASE m = k
        BY <1>1, <2>3, <4>1, <4>2
      <4>3. CASE m # k
        BY <1>1, <2>0, <3>2, <4>1, <4>3 DEF Placed
      <4> QED BY <4>2, <4>3
    <3>3. open' = "open" => At(Current)' \in {Opening, 0}
      <4>1. PICK c \in 1 .. Len(streams) : c = k /\ c = Current /\ c = Current'
        BY <1>1, <2>2
      <4>2. At(c)' = 0
        BY <1>1, <4>1
      <4> QED BY <4>1, <4>2
    <3> QED BY <1>1, <3>1, <3>2, <3>3 DEF Placed
  <2>5. InOrder'
    <3>1. \A i \in DOMAIN files' : Increasing(files'[i])
      BY <1>2, <2>0, EmptyIs DEF InOrder
    <3>2. \A l \in DOMAIN streams' : Increasing(streams'[l].buffer)
      BY <1>1, <2>0 DEF InOrder
    <3>3. \A i, j \in DOMAIN files' : i > j => Below(InFile(i)', InFile(j)')
      BY <1>2, <2>0 DEF InOrder, Below
    <3>4. \A l, m \in DOMAIN streams' : l < m => Below(Queued(l)', Queued(m)')
      BY <1>1, <2>0 DEF InOrder
    <3>5. ASSUME NEW i \in DOMAIN files', NEW l \in 1 .. Len(streams)
          PROVE  IF i >= At(l)' THEN Below(InFile(i)', Queued(l)') ELSE Below(Queued(l)', InFile(i)')
      <4>1. CASE i \in DOMAIN files /\ InFile(i)' = InFile(i)
        <5>1. i \in Nat
          BY <1>0, <4>1, PlacesAre DEF LogTypes
        <5>2. i >= At(l)' <=> i >= At(l)
          BY <1>1, <5>1, PlacesAre
        <5> QED BY <1>1, <2>0, <4>1, <5>2 DEF InOrder
      <4>2. CASE InFile(i)' = {}
        BY <4>2 DEF Below
      <4> QED BY <1>2, <4>1, <4>2
    <3> QED BY <1>1, <3>1, <3>2, <3>3, <3>4, <3>5 DEF InOrder
  <2>6. Pushed'
    <3>1. SizeOnDisk' = SizeOnDisk
      BY <1>2, EmptyIs DEF SizeOnDisk
    <3>2. Unwritten' = Unwritten
      <4>1. PICK c \in 1 .. Len(streams) : c = k /\ c = Current /\ c = Current'
        BY <1>1, <2>2
      <4>2. At(c)' = 0 /\ At(c) = Opening /\ streams # <<>> /\ streams' # <<>>
            /\ streams'[c].buffer = streams[c].buffer
        BY <1>1, <4>1
      <4> QED BY <4>1, <4>2 DEF Unwritten
    <3>3. ASSUME NEW i \in DOMAIN files', i >= 1, NEW e \in InFile(i)'
          PROVE  logged' - e >= Behind(i)'
      <4>1. i \in DOMAIN files /\ e \in InFile(i)
        BY <1>2, <3>3
      <4> QED BY <1>1, <2>0, <3>3, <4>1 DEF Pushed, Behind
    <3>4. ASSUME NEW l \in 1 .. Len(streams), At(l)' >= 1, NEW e \in Queued(l)'
          PROVE  logged' - e >= Behind(At(l))'
      <4>1. l # k /\ At(l)' = At(l) /\ e \in Queued(l)
        BY <1>1, <3>4
      <4>2. logged - e >= Behind(At(l))
        BY <1>1, <2>0, <3>4, <4>1 DEF Pushed
      <4> QED BY <1>1, <4>1, <4>2 DEF Behind
    <3> QED BY <1>1, <2>0, <3>1, <3>2, <3>3, <3>4 DEF Pushed
  <2>7. Kept'
    <3>1. \A i \in DOMAIN files : i \in DOMAIN files' /\ InFile(i) \subseteq InFile(i)'
      BY <1>0, OpenFileIs DEF InFile
    <3> QED BY <1>1, <2>0, <3>1 DEF Kept
  <2> QED BY <2>4, <2>5, <2>6, <2>7
<1> QED BY <1>3, <1>4, <1>5 DEF LogInv

(* The oldest entry of a stream goes to the end of its file, between those  *)
(* of the older streams and those of the younger ones.                      *)
LEMMA WriteOutKeeps ==
    ASSUME LogInv, NEW k \in DOMAIN streams, WriteOut(k)
    PROVE  LogInv'
<1> DEFINE b == streams[k].buffer
           h == Head(b)
<1>0. LogTypes /\ Once /\ (~hasty => Placed /\ InOrder /\ Pushed /\ Kept)
  BY DEF LogInv
<1>1. /\ DOMAIN streams' = 1 .. Len(streams) /\ DOMAIN streams = 1 .. Len(streams)
      /\ Len(streams) \in Nat /\ Len(streams') = Len(streams) /\ Current' = Current
      /\ Current = Len(streams) /\ k \in 1 .. Len(streams) /\ logged \in Nat
      /\ UNCHANGED <<size, open, logged, lost, hasty>>
      /\ b \in Seq(1 .. logged) /\ b # <<>> /\ h \in 1 .. logged
      /\ \A l \in 1 .. Len(streams) :
            /\ At(l)' = At(l) /\ streams'[l].ended = streams[l].ended
            /\ streams'[l].buffer = IF l = k THEN Tail(b) ELSE streams[l].buffer
  BY <1>0, WriteOutIs, StreamsAre, TailIs, EntriesLogged DEF Current, At
<1>2. /\ Queued(k) = ToSet(Tail(b)) \cup {h}
      /\ \A l \in 1 .. Len(streams) : Queued(l)' = IF l = k THEN ToSet(Tail(b)) ELSE Queued(l)
  BY <1>1, TailIs DEF Queued
<1>3. \A i \in DOMAIN files : files[i] \in Seq(1 .. logged) /\ i \in Nat
  BY <1>0, PlacesAre DEF LogTypes
<1>4. /\ DOMAIN files' = DOMAIN files
      /\ \A i \in DOMAIN files :
            /\ files'[i] = IF i = At(k) THEN Append(files[i], h) ELSE files[i]
            /\ InFile(i)' = IF i = At(k) THEN InFile(i) \cup {h} ELSE InFile(i)
  <2>1. \A i \in DOMAIN files : ToSet(Append(files[i], h)) = ToSet(files[i]) \cup {h}
    BY <1>1, <1>3, AppendIs
  <2> QED BY <1>0, <2>1, WriteOutIs DEF InFile
<1> HIDE DEF b, h
<1>5. LogTypes'
  <2>1. open = "open" => ~streams'[Current].ended /\ streams' # <<>>
    BY <1>0, <1>1, StreamsAre DEF LogTypes
  <2>2. open # "down"
    BY <1>0, <1>1 DEF LogTypes
  <2> QED BY <1>0, <1>1, <1>4, <2>1, <2>2, WriteOutIs DEF LogTypes
<1>6. Once'
  <2>1. IsInjective(Tail(b)) /\ h \notin ToSet(Tail(b))
    BY <1>0, <1>1, TailKeeps DEF Once, b, h
  <2>2. \A i \in DOMAIN files : h \notin InFile(i)
    BY <1>0, <1>2 DEF Once
  <2>3. \A l \in 1 .. Len(streams) : l # k => h \notin Queued(l)
    BY <1>0, <1>1, <1>2 DEF Once
  <2>4. \A i \in DOMAIN files' : IsInjective(files'[i])
    <3>1. \A i \in DOMAIN files : IsInjective(Append(files[i], h))
      BY <1>0, <1>1, <1>3, <2>2, AppendKeeps DEF Once, InFile
    <3> QED BY <1>0, <1>4, <3>1 DEF Once
  <2>5. \A l \in DOMAIN streams' : IsInjective(streams'[l].buffer)
    BY <1>0, <1>1, <2>1 DEF Once
  <2>6. \A i, j \in DOMAIN files' : i # j => InFile(i)' \cap InFile(j)' = {}
    BY <1>0, <1>4, <2>2 DEF Once
  <2>7. \A i \in DOMAIN files', l \in DOMAIN streams' : InFile(i)' \cap Queued(l)' = {}
    <3>1. ASSUME NEW i \in DOMAIN files, NEW l \in 1 .. Len(streams)
          PROVE  InFile(i)' \cap Queued(l)' = {}
      <4>1. InFile(i) \cap Queued(l) = {} /\ h \notin InFile(i)
        BY <1>0, <1>1, <2>2 DEF Once
      <4>2. h \notin Queued(l)' /\ Queued(l)' \subseteq Queued(l)
        BY <1>2, <2>1, <2>3
      <4> QED BY <1>4, <4>1, <4>2
    <3> QED BY <1>1, <1>4, <3>1
  <2>8. \A l, m \in DOMAIN streams' : l # m => Queued(l)' \cap Queued(m)' = {}
    <3>1. \A l \in 1 .. Len(streams) : Queued(l)' \subseteq Queued(l)
      BY <1>2
    <3> QED BY <1>0, <1>1, <3>1 DEF Once
  <2> QED BY <2>4, <2>5, <2>6, <2>7, <2>8 DEF Once
<1>7. ASSUME ~hasty' PROVE Placed' /\ InOrder' /\ Pushed' /\ Kept'
  <2>0. Placed /\ InOrder /\ Pushed /\ Kept
    BY <1>0, <1>1, <1>7
  <2>1. \A l \in 1 .. Len(streams) : At(l) \in Int
    BY <1>0, AtIs
  <2>2. Placed'
    <3>1. open' = "open" => At(Current)' \in {Opening, 0}
      <4>1. open' = "open" => Current \in 1 .. Len(streams)
        BY <1>0, <1>1, StreamsAre DEF LogTypes
      <4> QED BY <1>1, <2>0, <4>1 DEF Placed, At
    <3> QED BY <1>1, <1>4, <2>0, <3>1 DEF Placed
  <2>3. InOrder'
    <3>1. ASSUME NEW i \in DOMAIN files PROVE Increasing(files'[i])
      <4>1. CASE i = At(k)
        <5>1. \A x \in ToSet(files[i]) : x < h
          BY <1>1, <1>2, <1>3, <2>0, <4>1 DEF InOrder, Below, InFile
        <5>2. Increasing(Append(files[i], h))
          BY <1>1, <1>3, <2>0, <5>1, AppendKeeps DEF InOrder
        <5> QED BY <1>4, <4>1, <5>2
      <4>2. CASE i # At(k)
        BY <1>4, <2>0, <4>2 DEF InOrder
      <4> QED BY <4>1, <4>2
    <3>2. Increasing(Tail(b)) /\ \A x \in ToSet(Tail(b)) : h < x
      BY <1>1, <2>0, TailKeeps DEF InOrder, b, h
    <3>3. \A l \in 1 .. Len(streams) : Increasing(streams'[l].buffer)
      BY <1>1, <2>0, <3>2 DEF InOrder
    <3>4. ASSUME NEW i \in DOMAIN files, NEW j \in DOMAIN files, i > j
          PROVE  Below(InFile(i)', InFile(j)')
      <4>1. Below(InFile(i), InFile(j))
        BY <2>0, <3>4 DEF InOrder
      <4>0. h \in Queued(k) /\ i \in Nat /\ j \in Nat /\ k \in DOMAIN streams
        BY <1>1, <1>2, <1>3
      <4>2. i = At(k) => \A e \in InFile(j) : h < e
        <5>1. i = At(k) => ~(j >= At(k))
          BY <3>4, <4>0
        <5>2. i = At(k) => Below(Queued(k), InFile(j))
          BY <2>0, <4>0, <5>1 DEF InOrder
        <5> QED BY <4>0, <5>2 DEF Below
      <4>3. j = At(k) => \A d \in InFile(i) : d < h
        <5>1. j = At(k) => i >= At(k)
          BY <3>4, <4>0
        <5>2. j = At(k) => Below(InFile(i), Queued(k))
          BY <2>0, <4>0, <5>1 DEF InOrder
        <5> QED BY <4>0, <5>2 DEF Below
      <4> QED BY <1>3, <1>4, <3>4, <4>1, <4>2, <4>3 DEF Below
    <3>5. \A l \in 1 .. Len(streams) : Queued(l)' \subseteq Queued(l)
      BY <1>2
    <3>6. \A l, m \in 1 .. Len(streams) : l < m => Below(Queued(l)', Queued(m)')
      BY <1>1, <2>0, <3>5 DEF InOrder, Below
    <3>7. ASSUME NEW i \in DOMAIN files, NEW l \in 1 .. Len(streams)
          PROVE  IF i >= At(l) THEN Below(InFile(i)', Queued(l)') ELSE Below(Queued(l)', InFile(i)')
      <4>1. IF i >= At(l) THEN Below(InFile(i), Queued(l)') ELSE Below(Queued(l)', InFile(i))
        BY <1>1, <2>0, <3>5 DEF InOrder, Below
      <4>2. CASE i # At(k)
        BY <1>4, <4>1, <4>2
      <4>3. CASE i = At(k)
        <5>0. At(k) # Unlinked
          BY <1>0, <4>3, PlacesAre DEF LogTypes
        <5>1. CASE l = k
          BY <1>2, <1>3, <1>4, <3>2, <4>1, <4>3, <5>1 DEF Below
        <5>2. CASE l < k
          <6>1. At(l) > At(k)
            BY <1>1, <2>0, <5>0, <5>2 DEF Placed
          <6>2. Below(Queued(l), Queued(k))
            BY <1>1, <2>0, <5>2 DEF InOrder
          <6>3. Below(Queued(l)', {h})
            BY <1>2, <3>5, <6>2 DEF Below
          <6>4. ~(i >= At(l)) /\ At(k) = i
            BY <1>3, <2>1, <4>3, <6>1
          <6>5. Below(Queued(l)', InFile(i)) /\ InFile(i)' = InFile(i) \cup {h}
            BY <1>4, <4>1, <4>3, <6>4
          <6> QED BY <6>3, <6>4, <6>5 DEF Below
        <5>3. CASE l > k
          <6>1. At(k) > At(l)
            BY <1>1, <2>0, <5>0, <5>3 DEF Placed
          <6>2. Below(Queued(k), Queued(l))
            BY <1>1, <2>0, <5>3 DEF InOrder
          <6>3. Below({h}, Queued(l)')
            BY <1>2, <3>5, <6>2 DEF Below
          <6>4. i >= At(l)
            BY <1>3, <2>1, <4>3, <6>1
          <6>5. Below(InFile(i), Queued(l)') /\ InFile(i)' = InFile(i) \cup {h}
            BY <1>4, <4>1, <4>3, <6>4
          <6> QED BY <6>3, <6>4, <6>5 DEF Below
        <5> QED BY <1>1, <5>1, <5>2, <5>3
      <4> QED BY <4>2, <4>3
    <3> QED BY <1>1, <1>4, <3>1, <3>3, <3>4, <3>6, <3>7 DEF InOrder
  <2>4. Pushed'
    <3>1. SizeOnDisk' + Unwritten' <= size'
      <4>1. /\ SizeOnDisk \in Nat /\ SizeOnDisk + Unwritten <= size /\ streams # <<>> /\ streams' # <<>>
            /\ Current \in 1 .. Len(streams)
            /\ Unwritten' = IF At(Current) \in {Opening, 0} THEN Len(streams'[Current].buffer) ELSE 0
            /\ Unwritten = IF At(Current) \in {Opening, 0} THEN Len(streams[Current].buffer) ELSE 0
        <5>1. streams # <<>> /\ streams' # <<>> /\ Current \in 1 .. Len(streams)
          BY <1>1
        <5>2. At(Current)' = At(Current)
          BY <1>1, <5>1 DEF At
        <5>3. SizeOnDisk \in Nat /\ SizeOnDisk + Unwritten <= size
          BY <1>3, <2>0 DEF SizeOnDisk, Pushed
        <5>4. Unwritten' = IF At(Current) \in {Opening, 0} THEN Len(streams'[Current].buffer) ELSE 0
          BY <1>1, <5>1, <5>2 DEF Unwritten
        <5>5. Unwritten = IF At(Current) \in {Opening, 0} THEN Len(streams[Current].buffer) ELSE 0
          BY <5>1 DEF Unwritten
        <5> QED BY <5>1, <5>3, <5>4, <5>5
      <4>2. /\ Len(Tail(b)) = Len(b) - 1 /\ Len(b) \in Nat \ {0}
            /\ \A i \in DOMAIN files : Len(Append(files[i], h)) = Len(files[i]) + 1 /\ Len(files[i]) \in Nat
            /\ size \in Nat
        BY <1>0, <1>1, <1>3, TailIs, AppendIs, EntriesLogged DEF LogTypes
      <4>3. CASE At(k) = 0
        <5>1. k = Current /\ 0 \in DOMAIN files
          <6>1. k \in DOMAIN streams /\ At(k) \in Places /\ ~(At(k) >= 1)
            BY <1>1, <4>3, PlacesAre
          <6> QED BY <1>1, <2>0, <4>3, <6>1 DEF Placed
        <5>2. SizeOnDisk' = SizeOnDisk + 1
          BY <1>4, <4>2, <4>3, <5>1 DEF SizeOnDisk
        <5>3. Unwritten' = Len(b) - 1 /\ Unwritten = Len(b)
          BY <1>1, <4>1, <4>2, <4>3, <5>1 DEF b
        <5>4. SizeOnDisk + Len(b) <= size /\ size' = size /\ Len(b) \in Nat /\ size \in Nat
              /\ SizeOnDisk \in Nat
          BY <1>1, <4>1, <4>2, <5>3
        <5> QED BY <5>2, <5>3, <5>4
      <4>4. CASE At(k) # 0
        <5>1. SizeOnDisk' = SizeOnDisk
          BY <1>4, <4>4 DEF SizeOnDisk
        <5>2. k = Current => At(Current) \notin {Opening, 0}
          BY <1>0, <4>4, WriteOutIs
        <5>3. Unwritten' = Unwritten
          BY <1>1, <4>1, <5>2
        <5> QED BY <1>1, <4>1, <5>1, <5>3
      <4> QED BY <4>3, <4>4
    <3>2. ASSUME NEW i \in DOMAIN files, i >= 1, NEW e \in InFile(i)'
          PROVE  logged' - e >= Behind(i)'
      <4>1. Behind(i)' = Behind(i)
        BY <1>1 DEF Behind
      <4>2. logged - e >= Behind(i)
        BY <1>1, <1>2, <1>4, <2>0, <3>2 DEF Pushed
      <4> QED BY <1>1, <4>1, <4>2
    <3>3. ASSUME NEW l \in 1 .. Len(streams), At(l)' >= 1, NEW e \in Queued(l)'
          PROVE  logged' - e >= Behind(At(l))'
      <4>1. At(l)' = At(l) /\ e \in Queued(l)
        BY <1>1, <1>2
      <4>2. logged - e >= Behind(At(l))
        BY <1>1, <2>0, <3>3, <4>1 DEF Pushed
      <4> QED BY <1>1, <4>1, <4>2 DEF Behind
    <3> QED BY <1>1, <1>4, <3>1, <3>2, <3>3 DEF Pushed
  <2>5. Kept'
    <3>1. \A i \in DOMAIN files : InFile(i) \subseteq InFile(i)'
      BY <1>4
    <3>2. \A l \in 1 .. Len(streams) : Queued(l) \subseteq Queued(l)' \cup {h}
      BY <1>2
    <3>3. (\E i \in DOMAIN files : h \in InFile(i)') \/ logged - h >= Rest
      <4>1. CASE At(k) \in Places
        <5>1. At(k) \in DOMAIN files
          BY <2>0, <4>1 DEF Placed
        <5> QED BY <1>4, <5>1
      <4>2. CASE At(k) = Unlinked
        <5>1. logged - h >= Behind(At(k))
          <6>1. At(k) >= 1 /\ k \in DOMAIN streams /\ h \in Queued(k)
            BY <1>1, <1>2, <4>2, PlacesAre
          <6> QED BY <2>0, <6>1 DEF Pushed
        <5> QED BY <4>2, <5>1 DEF Behind
      <4> QED BY <1>0, <1>1, <4>1, <4>2, AtIs, WriteOutIs
    <3> QED BY <1>1, <1>4, <2>0, <3>1, <3>2, <3>3 DEF Kept
  <2> QED BY <2>2, <2>3, <2>4, <2>5
<1> QED BY <1>5, <1>6, <1>7 DEF LogInv

(* A finished stream has nothing left; the others keep their order.         *)
LEMMA FinishKeeps ==
    ASSUME LogInv, NEW k \in DOMAIN streams, Finish(k)
    PROVE  LogInv'
<1> DEFINE n == Len(streams)
           from(l) == IF l < k THEN l ELSE l + 1
<1>0. LogTypes /\ Once /\ (~hasty => Placed /\ InOrder /\ Pushed /\ Kept)
  BY DEF LogInv
<1>1. /\ UNCHANGED <<files, size, logged, lost, hasty>> /\ open' \in {"open", "closing", "closed"}
      /\ k \in 1 .. n /\ n \in Nat /\ DOMAIN streams = 1 .. n /\ Current = n
      /\ DOMAIN streams' = 1 .. n - 1 /\ Len(streams') = n - 1 /\ Current' = n - 1
      /\ streams[k].buffer = <<>> /\ Queued(k) = {}
      /\ open' = "open" => open = "open" /\ k # n
      /\ streams' \in Seq(StreamOf(logged))
  <2>1. n \in Nat /\ DOMAIN streams = 1 .. n /\ Current = n /\ Queued(k) = {}
    BY <1>0, FinishIs, StreamsAre, EmptyIs DEF Queued
  <2>2. streams' \in Seq(StreamOf(logged)) /\ Len(streams') = n - 1
    BY <1>0, FinishIs
  <2>3. DOMAIN streams' = 1 .. n - 1 /\ Current' = n - 1
    BY <2>2 DEF Current
  <2> QED BY <1>0, <2>1, <2>2, <2>3, FinishIs
<1>2. \A l \in 1 .. n - 1 : /\ from(l) \in 1 .. n /\ from(l) # k
                            /\ streams'[l] = streams[from(l)]
                            /\ \A m \in 1 .. n - 1 : /\ l < m => from(l) < from(m)
                                                     /\ l # m => from(l) # from(m)
  BY <1>0, <1>1, FinishIs
<1>3. \A j \in 1 .. n : j # k => \E l \in 1 .. n - 1 : from(l) = j
  <2> SUFFICES ASSUME NEW j \in 1 .. n, j # k PROVE \E l \in 1 .. n - 1 : from(l) = j
    OBVIOUS
  <2>1. CASE j < k
    BY <1>1, <2>1
  <2>2. CASE j > k
    <3>1. j - 1 \in 1 .. n - 1 /\ from(j - 1) = j
      BY <1>1, <2>2
    <3> QED BY <3>1
  <2> QED BY <1>1, <2>1, <2>2
<1>4. k # n => n - 1 \in 1 .. n - 1 /\ from(n - 1) = n
  <2>1. k \in Int /\ k <= n /\ k >= 1 /\ n \in Int
    BY <1>1
  <2> HIDE DEF n
  <2>2. k # n => ~(n - 1 < k) /\ n - 1 + 1 = n /\ n - 1 >= 1
    BY <2>1
  <2> QED BY <2>1, <2>2
<1> HIDE DEF from
<1>5. \A l \in 1 .. n - 1 : /\ At(l)' = At(from(l)) /\ Queued(l)' = Queued(from(l))
                            /\ streams'[l].buffer = streams[from(l)].buffer
  BY <1>2 DEF At, Queued
<1>6. LogTypes'
  <2>1. open' = "open" => streams' # <<>> /\ ~streams'[Current'].ended
    <3>1. open' = "open" => n - 1 \in 1 .. n - 1 /\ streams'[n - 1] = streams[n] /\ ~streams[n].ended
      BY <1>0, <1>1, <1>2, <1>4 DEF LogTypes
    <3> QED BY <1>1, <3>1
  <2> QED BY <1>0, <1>1, <2>1 DEF LogTypes
<1>7. Once'
  <2>1. files' = files /\ \A i : InFile(i)' = InFile(i)
    BY <1>1 DEF InFile
  <2>2. \A l \in DOMAIN streams' : IsInjective(streams'[l].buffer)
    BY <1>0, <1>1, <1>2, <1>5 DEF Once
  <2>3. \A i \in DOMAIN files, l \in DOMAIN streams' : InFile(i) \cap Queued(l)' = {}
    BY <1>0, <1>1, <1>2, <1>5 DEF Once
  <2>4. \A l, m \in DOMAIN streams' : l # m => Queued(l)' \cap Queued(m)' = {}
    BY <1>0, <1>1, <1>2, <1>5 DEF Once
  <2> QED BY <1>0, <2>1, <2>2, <2>3, <2>4 DEF Once
<1>8. ASSUME ~hasty' PROVE Placed' /\ InOrder' /\ Pushed' /\ Kept'
  <2>0. Placed /\ InOrder /\ Pushed /\ Kept
    BY <1>0, <1>1, <1>8
  <2>1. Placed'
    <3>1. \A l \in 1 .. n - 1 : At(l)' \in Places => At(l)' \in DOMAIN files'
      BY <1>1, <1>2, <1>5, <2>0 DEF Placed
    <3>2. ASSUME NEW l \in 1 .. n - 1, NEW m \in 1 .. n - 1, l < m
          PROVE  At(l)' >= 1 /\ (At(l)' > At(m)' \/ (At(l)' = Unlinked /\ At(m)' = Unlinked))
      <4>1. from(l) < from(m) /\ from(l) \in 1 .. n /\ from(m) \in 1 .. n
        BY <1>2, <3>2
      <4>2. /\ At(from(l)) >= 1
            /\ At(from(l)) > At(from(m)) \/ (At(from(l)) = Unlinked /\ At(from(m)) = Unlinked)
        BY <1>1, <2>0, <4>1 DEF Placed
      <4> QED BY <1>5, <4>2
    <3>3. open' = "open" => At(Current)' \in {Opening, 0}
      <4>1. open' = "open" => open = "open" /\ streams'[n - 1] = streams[n]
        BY <1>1, <1>2, <1>4
      <4>2. open = "open" => At(Current) \in {Opening, 0}
        BY <2>0 DEF Placed
      <4> QED BY <1>1, <4>1, <4>2 DEF At
    <3> QED BY <1>1, <3>1, <3>2, <3>3 DEF Placed
  <2>2. InOrder'
    <3>1. \A l \in 1 .. n - 1 : Increasing(streams'[l].buffer)
      BY <1>1, <1>2, <1>5, <2>0 DEF InOrder
    <3>2. \A l, m \in 1 .. n - 1 : l < m => Below(Queued(l)', Queued(m)')
      BY <1>1, <1>2, <1>5, <2>0 DEF InOrder
    <3>3. \A i \in DOMAIN files, l \in 1 .. n - 1 :
             IF i >= At(l)' THEN Below(InFile(i), Queued(l)') ELSE Below(Queued(l)', InFile(i))
      BY <1>1, <1>2, <1>5, <2>0 DEF InOrder
    <3>4. files' = files /\ \A i : InFile(i)' = InFile(i)
      BY <1>1 DEF InFile
    <3> QED BY <1>1, <2>0, <3>1, <3>2, <3>3, <3>4 DEF InOrder
  <2>3. Pushed'
    <3>1. SizeOnDisk' + Unwritten' <= size'
      <4>0. SizeOnDisk' = SizeOnDisk /\ SizeOnDisk \in Nat /\ SizeOnDisk + Unwritten <= size
            /\ size \in Nat /\ streams # <<>>
        BY <1>0, <1>1, <2>0, EntriesLogged DEF SizeOnDisk, Pushed, LogTypes
      <4>1. CASE k # n
        <5>1. streams'[n - 1] = streams[n] /\ n - 1 \in 1 .. n - 1 /\ streams' # <<>>
          BY <1>1, <1>2, <1>4, <4>1
        <5>2. Unwritten' = Unwritten
          BY <1>1, <4>0, <5>1 DEF Unwritten, At
        <5> QED BY <1>1, <4>0, <5>2
      <4>2. CASE k = n
        <5>1. Unwritten = 0
          BY <1>1, <4>2, EmptyIs DEF Unwritten
        <5>2. Unwritten' = 0
          <6>1. CASE n = 1
            BY <1>1, <6>1 DEF Unwritten
          <6>2. CASE n # 1
            <7>1. n - 1 \in 1 .. n - 1 /\ n - 1 \in 1 .. n /\ n - 1 < n /\ n \in 1 .. n
              BY <1>1, <6>2
            <7>2. At(n - 1) >= 1
              BY <1>1, <2>0, <7>1 DEF Placed
            <7>3. from(n - 1) = n - 1
              <8>1. n - 1 < k
                BY <4>2, <7>1
              <8> QED BY <8>1 DEF from
            <7>4. streams'[n - 1].at = At(n - 1)
              BY <1>2, <7>1, <7>3 DEF At
            <7>5. At(n - 1) \notin {Opening, 0}
              BY <7>2, PlacesAre
            <7> QED BY <1>1, <7>4, <7>5 DEF Unwritten, At
          <6> QED BY <6>1, <6>2
        <5> QED BY <1>1, <4>0, <5>1, <5>2
      <4> QED BY <4>1, <4>2
    <3>2. ASSUME NEW l \in 1 .. n - 1, At(l)' >= 1, NEW e \in Queued(l)'
          PROVE  logged' - e >= Behind(At(l))'
      <4>1. At(l)' = At(from(l)) /\ e \in Queued(from(l)) /\ from(l) \in 1 .. n
        BY <1>2, <1>5
      <4>2. logged - e >= Behind(At(from(l)))
        BY <1>1, <2>0, <3>2, <4>1 DEF Pushed
      <4> QED BY <1>1, <4>1, <4>2 DEF Behind
    <3>3. files' = files /\ \A i : InFile(i)' = InFile(i) /\ Behind(i)' = Behind(i)
      BY <1>1 DEF InFile, Behind
    <3> QED BY <1>1, <2>0, <3>1, <3>2, <3>3 DEF Pushed
  <2>4. Kept'
    <3>1. \A e : (\E j \in DOMAIN streams : e \in Queued(j)) => \E l \in DOMAIN streams' : e \in Queued(l)'
      BY <1>1, <1>3, <1>5
    <3> QED BY <1>1, <2>0, <3>1 DEF Kept, InFile
  <2> QED BY <2>1, <2>2, <2>3, <2>4
<1> QED BY <1>6, <1>7, <1>8 DEF LogInv

LEMMA CloseKeeps ==
    ASSUME LogInv, Close PROVE LogInv'
<1>0. LogTypes /\ Once /\ (~hasty => Placed /\ InOrder /\ Pushed /\ Kept)
  BY DEF LogInv
<1>1. /\ UNCHANGED <<files, size, logged, lost, hasty>> /\ open' = "closing"
      /\ streams' \in Seq(StreamOf(logged)) /\ DOMAIN streams' = DOMAIN streams
      /\ Len(streams') = Len(streams) /\ Len(streams) \in Nat /\ DOMAIN streams = 1 .. Len(streams)
      /\ Current' = Current /\ Current = Len(streams)
      /\ \A l \in DOMAIN streams : /\ At(l)' = At(l) /\ Queued(l)' = Queued(l)
                                   /\ streams'[l].buffer = streams[l].buffer
      /\ \A i : InFile(i)' = InFile(i)
  BY <1>0, CloseIs, StreamsAre DEF Current, At, Queued, InFile
<1>2. LogTypes'
  BY <1>0, <1>1 DEF LogTypes
<1>3. Once'
  BY <1>0, <1>1 DEF Once
<1>4. ASSUME ~hasty' PROVE Placed' /\ InOrder' /\ Pushed' /\ Kept'
  <2>0. Placed /\ InOrder /\ Pushed /\ Kept
    BY <1>0, <1>1, <1>4
  <2>1. Placed'
    BY <1>1, <2>0 DEF Placed
  <2>2. InOrder'
    BY <1>1, <2>0 DEF InOrder
  <2>3. Pushed'
    <3>1. SizeOnDisk' = SizeOnDisk /\ Unwritten' = Unwritten
      <4>1. streams # <<>> <=> streams' # <<>>
        BY <1>1
      <4>2. streams # <<>> => Current \in DOMAIN streams
        BY <1>0, StreamsAre
      <4> QED BY <1>1, <4>1, <4>2 DEF SizeOnDisk, Unwritten, At
    <3>2. \A i : Behind(i)' = Behind(i)
      BY <1>1 DEF Behind
    <3>3. ASSUME NEW l \in DOMAIN streams, At(l)' >= 1, NEW e \in Queued(l)'
          PROVE  logged' - e >= Behind(At(l))'
      <4>1. logged - e >= Behind(At(l))
        BY <1>1, <2>0, <3>3 DEF Pushed
      <4> QED BY <1>1, <4>1 DEF Behind
    <3> QED BY <1>1, <2>0, <3>1, <3>2, <3>3 DEF Pushed
  <2>4. Kept'
    BY <1>1, <2>0 DEF Kept
  <2> QED BY <2>1, <2>2, <2>3, <2>4
<1> QED BY <1>2, <1>3, <1>4 DEF LogInv

LEMMA ProcessEndsKeeps ==
    ASSUME LogInv, ProcessEnds PROVE LogInv'
<1>0. LogTypes /\ Once /\ (~hasty => Placed /\ InOrder /\ Pushed /\ Kept)
  BY DEF LogInv
<1>1. /\ UNCHANGED <<files, size, logged, hasty>> /\ open' = "down"
      /\ streams' = <<>> /\ DOMAIN streams' = {}
      /\ lost' = lost \cup UNION {Queued(k) : k \in DOMAIN streams}
      /\ \A i : InFile(i)' = InFile(i) /\ Behind(i)' = Behind(i)
  BY DEF ProcessEnds, Queued, InFile, Behind
<1>2. LogTypes'
  <2>1. lost' \subseteq 1 .. logged
    BY <1>0, <1>1, EntriesLogged, StreamsAre DEF LogTypes
  <2>2. streams' \in Seq(StreamOf(logged'))
    BY <1>1, EmptySeq
  <2> QED BY <1>0, <1>1, <2>1, <2>2 DEF LogTypes
<1>3. Once'
  BY <1>0, <1>1 DEF Once
<1>4. ASSUME ~hasty' PROVE Placed' /\ InOrder' /\ Pushed' /\ Kept'
  <2>0. Placed /\ InOrder /\ Pushed /\ Kept
    BY <1>0, <1>1, <1>4
  <2>1. Placed'
    BY <1>1 DEF Placed
  <2>2. InOrder'
    BY <1>1, <2>0 DEF InOrder
  <2>3. SizeOnDisk' + Unwritten' <= size'
    <3>1. Unwritten \in Nat
      BY <1>0, StreamsAre DEF Unwritten, StreamOf
    <3>2. SizeOnDisk \in Nat /\ size \in Nat
      BY <1>0, EntriesLogged DEF SizeOnDisk, LogTypes
    <3>3. SizeOnDisk' = SizeOnDisk /\ Unwritten' = 0 /\ size' = size
      BY <1>1 DEF SizeOnDisk, Unwritten
    <3>4. SizeOnDisk + Unwritten <= size
      BY <2>0 DEF Pushed
    <3> QED BY <3>1, <3>2, <3>3, <3>4
  <2>4. Pushed'
    BY <1>1, <2>0, <2>3 DEF Pushed
  <2>5. Kept'
    BY <1>1, <2>0 DEF Kept
  <2> QED BY <2>1, <2>2, <2>4, <2>5
<1> QED BY <1>2, <1>3, <1>4 DEF LogInv

(* The next process counts what is on disk, no more than the last one did.  *)
LEMMA RestartKeeps ==
    ASSUME LogInv, Restart PROVE LogInv'
<1>0. LogTypes /\ Once /\ (~hasty => Placed /\ InOrder /\ Pushed /\ Kept)
  BY DEF LogInv
<1>1. /\ UNCHANGED <<files, logged, lost, hasty>> /\ open' = "open" /\ size' = SizeOnDisk
      /\ streams = <<>> /\ DOMAIN streams = {}
      /\ streams' = <<NewStream>> /\ DOMAIN streams' = {1} /\ Len(streams') = 1 /\ Current' = 1
      /\ streams'[1] = NewStream
      /\ \A i : InFile(i)' = InFile(i)
  BY <1>0 DEF Restart, InFile, LogTypes, Current
<1>2. At(1)' = Opening /\ streams'[1].buffer = <<>> /\ Queued(1)' = {} /\ ~streams'[1].ended
  BY <1>1, EmptyIs DEF At, Queued, NewStream
<1>3. SizeOnDisk \in 0 .. logged
  <2>1. CASE 0 \in DOMAIN files
    <3>1. files[0] \in Seq(1 .. logged) /\ IsInjective(files[0]) /\ logged \in Nat
      BY <1>0, <2>1, EntriesLogged DEF LogTypes, Once
    <3> QED BY <2>1, <3>1, FewEntries DEF SizeOnDisk
  <2>2. CASE 0 \notin DOMAIN files
    BY <1>0, <2>2, EntriesLogged DEF SizeOnDisk
  <2> QED BY <2>1, <2>2
<1>4. LogTypes'
  <2>1. NewStream \in StreamOf(logged)
    BY EmptySeq DEF NewStream, StreamOf
  <2>2. streams' \in Seq(StreamOf(logged))
    BY <1>1, <2>1
  <2> QED BY <1>0, <1>1, <1>2, <1>3, <2>2 DEF LogTypes
<1>5. Once'
  BY <1>0, <1>1, <1>2, EmptyIs DEF Once
<1>6. ASSUME ~hasty' PROVE Placed' /\ InOrder' /\ Pushed' /\ Kept'
  <2>0. Placed /\ InOrder /\ Pushed /\ Kept
    BY <1>0, <1>1, <1>6
  <2>1. Placed'
    <3>1. At(Current)' = Opening
      BY <1>1, <1>2 DEF At
    <3> QED BY <1>1, <1>2, <3>1, PlacesAre DEF Placed
  <2>2. InOrder'
    BY <1>1, <1>2, <2>0, EmptyIs DEF InOrder, Below
  <2>3. Pushed'
    <3>0. SizeOnDisk' = SizeOnDisk /\ SizeOnDisk \in Int /\ size \in Int
      BY <1>0, <1>1, <1>3, EntriesLogged DEF SizeOnDisk, LogTypes
    <3>1. Unwritten = 0 /\ Unwritten' = 0
      BY <1>1, <1>2, EmptyIs DEF Unwritten
    <3>2. SizeOnDisk <= size
      BY <2>0, <3>0, <3>1 DEF Pushed
    <3>3. ASSUME NEW i \in DOMAIN files, i >= 1, NEW e \in InFile(i)
          PROVE  logged' - e >= Behind(i)'
      <4>0. i \in Int /\ e \in Int /\ logged \in Int /\ Full(i - 1) \in Int /\ Rest \in Int
        BY <1>0, EntriesLogged, FullIs DEF LogTypes, Places
      <4>1. logged - e >= Behind(i)
        BY <2>0, <3>3 DEF Pushed
      <4>2. /\ Behind(i) = IF i = Unlinked THEN Rest ELSE size + Full(i - 1)
            /\ Behind(i)' = IF i = Unlinked THEN Rest ELSE SizeOnDisk + Full(i - 1)
        BY <1>1 DEF Behind
      <4> QED BY <1>1, <3>0, <3>2, <4>0, <4>1, <4>2
    <3> QED BY <1>1, <1>2, <3>0, <3>1, <3>3, PlacesAre DEF Pushed
  <2>4. Kept'
    BY <1>1, <2>0 DEF Kept
  <2> QED BY <2>1, <2>2, <2>3, <2>4
<1> QED BY <1>4, <1>5, <1>6 DEF LogInv

LEMMA InitLog == FileInit => LogInv
<1> SUFFICES ASSUME FileInit PROVE LogInv
  OBVIOUS
<1>1. /\ DOMAIN files = {} /\ files = [i \in DOMAIN files |-> files[i]]
      /\ streams = <<NewStream>> /\ DOMAIN streams = {1} /\ Len(streams) = 1 /\ Current = 1
      /\ streams[1] = NewStream /\ size = 0 /\ open = "open" /\ logged = 0 /\ lost = {} /\ ~hasty
  BY DEF FileInit, Current
<1>2. At(1) = Opening /\ streams[1].buffer = <<>> /\ Queued(1) = {} /\ ~streams[1].ended
  BY <1>1, EmptyIs DEF At, Queued, NewStream
<1>3. LogTypes
  <2>1. NewStream \in StreamOf(logged)
    BY EmptySeq DEF NewStream, StreamOf
  <2>2. streams \in Seq(StreamOf(logged)) /\ streams # <<>>
    BY <1>1, <2>1
  <2>3. files \in [DOMAIN files -> Seq(1 .. logged)] /\ DOMAIN files \subseteq Places
    BY <1>1
  <2>4. hasty \in BOOLEAN
    BY DEF FileInit
  <2> QED BY <1>1, <1>2, <2>2, <2>3, <2>4, FileAssumption DEF LogTypes
<1>4. Once
  BY <1>1, <1>2, EmptyIs DEF Once
<1>5. Placed
  BY <1>1, <1>2, PlacesAre DEF Placed
<1>6. InOrder
  BY <1>1, <1>2, EmptyIs DEF InOrder
<1>7. Pushed
  <2>1. SizeOnDisk = 0 /\ Unwritten = 0
    BY <1>1, <1>2, EmptyIs DEF SizeOnDisk, Unwritten
  <2> QED BY <1>1, <1>2, <2>1 DEF Pushed
<1>8. Kept
  BY <1>1 DEF Kept
<1> QED BY <1>3, <1>4, <1>5, <1>6, <1>7, <1>8 DEF LogInv

LEMMA LogKeeps == ASSUME LogInv, Log PROVE LogInv'
<1>0. LogTypes /\ Once /\ size \in Nat
  BY EntriesLogged DEF LogInv, LogTypes
<1>1. LogTypes'
  BY <1>0, LogKeepsTypes
<1>2. CASE size + 1 < MaxFileSize
  <2>1. Once'
    BY <1>0, <1>2, PlainLogWrites, WritesKeepOnce
  <2>2. hasty' = hasty
    BY <1>0, <1>2, PlainLogIs
  <2> QED BY <1>1, <1>2, <2>1, <2>2, PlainLogKeeps DEF LogInv
<1>3. CASE size + 1 >= MaxFileSize
  <2>1. Once'
    BY <1>0, <1>3, RotateWrites, WritesKeepOnce
  <2> QED BY <1>1, <1>3, <2>1, RotateKeeps DEF LogInv
<1> QED BY <1>0, <1>2, <1>3, FileAssumption

LEMMA NextKeepsLog == LogInv /\ [FileNext]_fileVars => LogInv'
<1> SUFFICES ASSUME LogInv, [FileNext]_fileVars PROVE LogInv'
  OBVIOUS
<1>1. CASE UNCHANGED fileVars
  BY <1>1 DEF LogInv, LogTypes, Once, Placed, InOrder, Pushed, Kept, fileVars, InFile, Queued, At,
              Current, Behind, SizeOnDisk, Unwritten
<1>2. CASE FileNext
  BY <1>2, LogKeeps, CloseKeeps, ProcessEndsKeeps, RestartKeeps, OpenFileKeeps, WriteOutKeeps,
     FinishKeeps DEF FileNext
<1> QED BY <1>1, <1>2

LEMMA LogInvSuffices == LogInv => FileTypeOK /\ Retention
<1> SUFFICES ASSUME LogInv PROVE FileTypeOK /\ Retention
  OBVIOUS
<1>0. LogTypes /\ Once
  BY DEF LogInv
<1>1. FileTypeOK
  <2>1. size \in 0 .. MaxEntries
    BY <1>0, FileAssumption DEF LogTypes
  <2> QED BY <1>0, <2>1, StreamsAre DEF FileTypeOK, LogTypes, StreamOf
<1>2. ASSUME ~hasty
      PROVE  LET Rank(e) == CHOOSE i \in DOMAIN files : e \in ToSet(files[i])
             IN  /\ \A d, e \in InFiles : d < e => Rank(d) >= Rank(e)
                 /\ \A i \in DOMAIN files :
                       \A j \in 1 .. Len(files[i]) - 1 : files[i][j] < files[i][j + 1]
                 /\ \A e \in 1 .. logged \ (lost \cup InFiles \cup InStreams) :
                       logged - e >= (MaxFiles - 1) * MaxFileSize
  <2> DEFINE Rank(e) == CHOOSE i \in DOMAIN files : e \in ToSet(files[i])
  <2>0. InOrder /\ Kept
    BY <1>2 DEF LogInv
  <2>1. ASSUME NEW d \in InFiles, NEW e \in InFiles, d < e PROVE Rank(d) >= Rank(e)
    <3>1. Rank(d) \in DOMAIN files /\ d \in InFile(Rank(d))
      BY DEF InFiles, InFile
    <3>2. Rank(e) \in DOMAIN files /\ e \in InFile(Rank(e))
      BY DEF InFiles, InFile
    <3> HIDE DEF Rank
    <3>3. Rank(d) \in Int /\ Rank(e) \in Int /\ d \in Int /\ e \in Int
      BY <1>0, <3>1, <3>2, EntriesLogged, PlacesAre DEF LogTypes
    <3>4. ~(Rank(e) > Rank(d))
      <4>1. Rank(e) > Rank(d) => e < d
        BY <2>0, <3>1, <3>2 DEF InOrder, Below
      <4> QED BY <2>1, <3>3, <4>1
    <3> QED BY <3>3, <3>4
  <2>2. ASSUME NEW i \in DOMAIN files, NEW j \in 1 .. Len(files[i]) - 1
        PROVE  files[i][j] < files[i][j + 1]
    <3>1. Len(files[i]) \in Nat
      BY <1>0 DEF LogTypes
    <3>2. j \in 1 .. Len(files[i]) /\ j + 1 \in 1 .. Len(files[i]) /\ j < j + 1
      BY <3>1
    <3> QED BY <2>0, <3>2 DEF InOrder, Increasing
  <2>3. ASSUME NEW e \in 1 .. logged \ (lost \cup InFiles \cup InStreams)
        PROVE  logged - e >= (MaxFiles - 1) * MaxFileSize
    BY <2>0 DEF Kept, InFiles, InStreams, InFile, Queued, Rest, Full
  <2> QED BY <2>1, <2>2, <2>3
<1> QED BY <1>1, <1>2 DEF Retention

(* Whatever the files and their number: as long as no file was rotated      *)
(* before its stream had opened it, the log that FileDestination leaves on  *)
(* disk is in order, across rotations, streams that write to renamed files, *)
(* process ends and restarts, and what is missing was in a stream when a    *)
(* process ended or is older than MaxFiles - 1 full files.  No entry is     *)
(* ever there twice, hasty rotation or not.                                 *)
THEOREM LogEndIsKept == FileSpec => [](FileTypeOK /\ Once /\ Retention)
<1>1. LogInv => FileTypeOK /\ Once /\ Retention
  BY LogInvSuffices DEF LogInv
<1> QED BY <1>1, InitLog, NextKeepsLog, PTL DEF FileSpec

-----------------------------------------------------------------------------
(* config/watcher.ts: what is in use was read from a file that was written, *)
(* and no time is known that the file did not have.                         *)
THEOREM WatcherTypes == WatcherSpec => []WatcherTypeOK
<1>1. WatcherInv => WatcherTypeOK
  BY DEF WatcherInv
<1> QED BY <1>1, InitWatcher, NextKeepsWatcher, PTL DEF WatcherSpec

(* MCFiles: a component moves as it does by itself, or stands still.        *)
FilesInv == CaInv /\ LogInv /\ WatcherInv

LEMMA FilesInvHolds == Spec => []FilesInv
<1>1. Init => FilesInv
  BY InitCa, InitLog, InitWatcher DEF Init, FilesInv
<1>2. FilesInv /\ [Next]_filesVars => FilesInv'
  <2> SUFFICES ASSUME FilesInv, [Next]_filesVars PROVE FilesInv'
    OBVIOUS
  <2>1. [CaNext]_caVars /\ [FileNext]_fileVars /\ [WatcherNext]_watcherVars
    BY DEF Next, filesVars
  <2> QED BY <2>1, NextKeepsCa, NextKeepsLog, NextKeepsWatcher DEF FilesInv
<1> QED BY <1>1, <1>2, PTL DEF Spec

(* The files and those who use them, together as the run checks them: one   *)
(* pair of certificate and key, which stays, and a log whose end is kept in *)
(* order.                                                                   *)
THEOREM FilesAreSound == Spec => [](TypeOK /\ OnePair /\ Retention) /\ UsableStays
<1>1. FilesInv => TypeOK /\ OnePair /\ Retention
  BY CaInvSuffices, LogInvSuffices DEF FilesInv, WatcherInv, TypeOK
<1>2. FilesInv /\ [Next]_filesVars => [Usable /\ ~Crashed => cert' = cert]_caVars
  BY CaStepKeepsUsable DEF Next, filesVars, FilesInv
<1> QED BY <1>1, <1>2, FilesInvHolds, PTL DEF Spec, UsableStays

(* The types of all three, and which process may be at which file.          *)
THEOREM TypeCorrect == Spec => []TypeOK
BY FilesAreSound, PTL
=============================================================================
