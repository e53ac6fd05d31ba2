--------------------------- MODULE ConfigWatcher ---------------------------
(***************************************************************************)
(* The allowlist file and the process that watches it:                     *)
(* src/config/watcher.ts as src/index.ts uses it.  main() loads the file,  *)
(* then awaits the start of the server, then starts the watcher.  A change *)
(* event starts a debounce timer, whose reload looks at the file's         *)
(* modification time, and only if that is a new one, reads the file.  An   *)
(* editor may write between any two of these steps.                        *)
(*                                                                         *)
(* The content of the file is the number of the write that made it.  Time  *)
(* is counted in ticks of modification times; the debounce delay is longer *)
(* than one.                                                               *)
(***************************************************************************)
EXTENDS Naturals

CONSTANTS MaxWrites,  \* bound: writes of the file
          MaxClock    \* bound: the ticks in which it is written

ASSUME WatcherAssumption == MaxWrites \in Nat /\ MaxClock \in Nat

VARIABLES
    clock,
    file,     \* the file: content, whether that is valid, modification time
    inUse,    \* the content of the configuration in use
    phase,    \* the process: "starting", "watching", "reading" (between the two
              \* halves of a reload), or "stopped"
    known,    \* lastMtime
    event,    \* a change event is to be delivered
    timer,    \* the debounce timer: set, and at what time
    yaml,     \* the file is YAML, which main() reads and the watcher does not
    watched,  \* the watcher is attached to the file that has the name now
    missed    \* no event or time tells of the last write (history)

watcherVars == <<clock, file, inUse, phase, known, event, timer, yaml, watched, missed>>

NoTimer == [set |-> FALSE, at |-> 0]

\* main() has loaded a valid file.
WatcherInit == /\ clock = 1
               /\ file = [content |-> 0, valid |-> TRUE, mtime |-> 0]
               /\ inUse = 0
               /\ phase = "starting"
               /\ known = 0 /\ event = FALSE /\ timer = NoTimer
               /\ yaml \in BOOLEAN
               /\ watched = TRUE
               /\ missed = FALSE

-----------------------------------------------------------------------------
\* Before the server has started nobody looks; and a reload tells writes of the
\* same tick apart only by whether it had read the file by then.
Unseen == phase = "starting" \/ (phase = "watching" /\ known = clock)

\* The file is written in place, perhaps incompletely.
WriteFile(valid) ==
    /\ file.content < MaxWrites /\ clock <= MaxClock
    /\ file' = [content |-> file.content + 1, valid |-> valid, mtime |-> clock]
    /\ event' = (event \/ (watched /\ phase \in {"watching", "reading"}))
    /\ missed' = (Unseen \/ ~watched)
    /\ UNCHANGED <<clock, inUse, phase, known, timer, yaml, watched>>

\* A new file is renamed over it: a 'rename' event, which is ignored, and from
\* now on the file of that name is not the one watched (unless watching is still
\* to begin).
ReplaceFile ==
    /\ file.content < MaxWrites /\ clock <= MaxClock
    /\ file' = [content |-> file.content + 1, valid |-> TRUE, mtime |-> clock]
    /\ watched' = (phase = "starting")
    /\ missed' = TRUE
    /\ UNCHANGED <<clock, inUse, phase, known, event, timer, yaml>>

\* Beyond MaxClock, when nothing is written any more, time is not counted.
Tick == /\ clock' = clock + 1 /\ clock <= MaxClock
        /\ UNCHANGED <<file, inUse, phase, known, event, timer, yaml, watched, missed>>

\* ConfigWatcher.start: the time of the file now, whatever was loaded before.
StartWatching == /\ phase = "starting"
                 /\ phase' = "watching"
                 /\ known' = file.mtime
                 /\ UNCHANGED <<clock, file, inUse, event, timer, yaml, watched, missed>>

\* handleChange
HandleChange == /\ event /\ phase = "watching"
                /\ event' = FALSE
                /\ timer' = [set |-> TRUE, at |-> clock]
                /\ UNCHANGED <<clock, file, inUse, phase, known, yaml, watched, missed>>

\* Variant of Reload: the times are compared with a coarser clock.
ReloadCoarse == /\ known' = file.mtime
                /\ phase' = IF file.mtime <= known + 1 THEN phase ELSE "reading"
                /\ timer' = NoTimer
                /\ UNCHANGED <<clock, file, inUse, event, yaml, watched, missed>>

\* reload, first half: stat, and the end of it when the time is a known one.
Reload == /\ known' = file.mtime
          /\ phase' = IF known = file.mtime THEN phase ELSE "reading"
          /\ timer' = NoTimer
          /\ UNCHANGED <<clock, file, inUse, event, yaml, watched, missed>>

DebouncedReload == /\ phase = "watching" /\ timer.set /\ (timer.at < clock \/ clock > MaxClock)
                   /\ Reload

\* forceReload, which is without the debounce but not without the comparison.
ForceReload == phase = "watching" /\ Reload

\* reload, second half: read, parse, onReload; or onError.
ReadFile == /\ phase = "reading"
            /\ phase' = "watching"
            /\ inUse' = IF file.valid /\ ~yaml THEN file.content ELSE inUse
            /\ UNCHANGED <<clock, file, known, event, timer, yaml, watched, missed>>

StopWatching == /\ phase = "watching"
                /\ phase' = "stopped"
                /\ event' = FALSE /\ timer' = NoTimer
                /\ UNCHANGED <<clock, file, inUse, known, yaml, watched, missed>>

WatcherProgress == StartWatching \/ HandleChange \/ DebouncedReload \/ ReadFile

WatcherNext == \/ \E valid \in BOOLEAN : WriteFile(valid)
               \/ ReplaceFile \/ Tick \/ WatcherProgress \/ ForceReload \/ StopWatching

\* Time passes, events are delivered, timers fire and reloads end.
WatcherFairness == WF_watcherVars(Tick) /\ WF_watcherVars(WatcherProgress)

WatcherSpec == WatcherInit /\ [][WatcherNext]_watcherVars /\ WatcherFairness

-----------------------------------------------------------------------------
WatcherTypeOK ==
    /\ clock \in 1 .. MaxClock + 1
    /\ file \in [content : 0 .. MaxWrites, valid : BOOLEAN, mtime : 0 .. MaxClock]
    /\ inUse \in 0 .. file.content
    /\ phase \in {"starting", "watching", "reading", "stopped"}
    /\ known \in 0 .. file.mtime
    /\ event \in BOOLEAN /\ yaml \in BOOLEAN /\ watched \in BOOLEAN /\ missed \in BOOLEAN
    /\ timer \in [set : BOOLEAN, at : 0 .. MaxClock + 1]

\* A valid JSON file that was written is in use in the end, however the writes,
\* the events, the debounce and the two halves of a reload fall - except for a
\* write while the server was starting, a write in the tick of a reload that had
\* read the file already, and a file renamed over the one watched.
WatcherCatchesUp ==
    [](file.valid /\ ~yaml
         => <>(inUse = file.content \/ ~file.valid \/ missed \/ phase = "stopped"))
=============================================================================
