-------------------------- MODULE FileDestination --------------------------
(***************************************************************************)
(* The rotated log file, FileDestination of                                *)
(* src/logging/log-destinations.ts.  Files are renamed at once, on the     *)
(* thread that logs; streams are opened and written to behind its back.  A *)
(* stream opened before a rename goes on writing to the file under its new *)
(* name, and one whose open is still to come will open whatever has the    *)
(* name by then.                                                           *)
(*                                                                         *)
(* Entries are numbered, every entry has size 1, and position i is the     *)
(* file path.i, position 0 the file itself.                                *)
(***************************************************************************)
EXTENDS Integers, Sequences, SequencesExt

CONSTANTS MaxFileSize,  \* config.maxSize
          MaxFiles,     \* config.maxFiles
          MaxEntries    \* bound: entries logged

ASSUME FileAssumption == /\ MaxFileSize \in Nat \ {0}
                         /\ MaxFiles \in Nat \ {0, 1}
                         /\ MaxEntries \in Nat

VARIABLES
    files,    \* the files there are: position -> the entries in it
    streams,  \* the streams not finished: where each writes to, what it has yet to
              \* write, and whether it was ended; the last one is the current one
    size,     \* currentSize
    open,     \* the destination: "open", "closing", "closed", "down"
    logged,   \* number of entries given to write (history)
    lost,     \* entries that were in a stream when the process ended (history)
    hasty     \* a file was rotated before its stream had opened it (history)

fileVars == <<files, streams, size, open, logged, lost, hasty>>

Opening == -1
Unlinked == MaxFiles + 1
Places == 0 .. MaxFiles - 1

Current == Len(streams)

NewStream == [at |-> Opening, buffer |-> <<>>, ended |-> FALSE]

SizeOnDisk == IF 0 \in DOMAIN files THEN Len(files[0]) ELSE 0

FileInit == /\ files = [i \in {} |-> <<>>]
            /\ streams = <<NewStream>>
            /\ size = 0
            /\ open = "open"
            /\ logged = 0 /\ lost = {} /\ hasty = FALSE

-----------------------------------------------------------------------------
\* rotate: the oldest file is removed, each of the others takes the next name,
\* whether there is a current file to make room for or not.
NextPlace(i) == IF i = MaxFiles - 1 /\ i > 0 THEN Unlinked ELSE i + 1

Shifted == [j \in {NextPlace(i) : i \in DOMAIN files} \ {Unlinked} |-> files[j - 1]]

Moved(s) == IF s.at \in Places THEN [s EXCEPT !.at = NextPlace(@)] ELSE s

\* write: the entry goes to the current stream, which a full file ends.
Log ==
    LET e == logged + 1
        written == [streams EXCEPT ![Current].buffer = Append(@, e)]
        full == size + 1 >= MaxFileSize
    IN  /\ open = "open" /\ logged < MaxEntries
        /\ logged' = e
        /\ IF full
           THEN /\ files' = Shifted
                /\ streams' = Append([k \in DOMAIN streams |->
                                         [Moved(written[k]) EXCEPT !.ended = TRUE]], NewStream)
                /\ size' = 0
                /\ hasty' = (hasty \/ streams[Current].at = Opening)
           ELSE /\ streams' = written
                /\ size' = size + 1
                /\ UNCHANGED <<files, hasty>>
        /\ UNCHANGED <<open, lost>>

\* Variant of OpenFile: the file is emptied (flags 'w').
OpenFileAnew(k) == /\ streams[k].at = Opening
                   /\ streams' = [streams EXCEPT ![k].at = 0]
                   /\ files' = [i \in DOMAIN files \cup {0} |->
                                   IF i # 0 THEN files[i] ELSE <<>>]
                   /\ UNCHANGED <<size, open, logged, lost, hasty>>

\* A stream opens the file of that name, and makes it if there is none.
OpenFile(k) == /\ streams[k].at = Opening
               /\ streams' = [streams EXCEPT ![k].at = 0]
               /\ files' = [i \in DOMAIN files \cup {0} |->
                               IF i \in DOMAIN files THEN files[i] ELSE <<>>]
               /\ UNCHANGED <<size, open, logged, lost, hasty>>

WriteOut(k) ==
    LET at == streams[k].at IN
    /\ at # Opening /\ streams[k].buffer # <<>>
    /\ files' = IF at \in DOMAIN files
                THEN [files EXCEPT ![at] = Append(@, Head(streams[k].buffer))]
                ELSE files
    /\ streams' = [streams EXCEPT ![k].buffer = Tail(@)]
    /\ UNCHANGED <<size, open, logged, lost, hasty>>

\* An ended stream with nothing left closes its file: close() is told of the
\* current one.
Finish(k) ==
    /\ streams[k].ended /\ streams[k].at # Opening /\ streams[k].buffer = <<>>
    /\ streams' = RemoveAt(streams, k)
    /\ open' = IF k = Current /\ open = "closing" THEN "closed" ELSE open
    /\ UNCHANGED <<files, size, logged, lost, hasty>>

\* close() ends the current stream; the streams rotated away are not waited for.
Close == /\ open = "open"
         /\ open' = "closing"
         /\ streams' = [streams EXCEPT ![Current].ended = TRUE]
         /\ UNCHANGED <<files, size, logged, lost, hasty>>

\* The process ends, after close or by dying: what is in its streams is lost.
ProcessEnds == /\ open # "down"
               /\ open' = "down"
               /\ lost' = lost \cup UNION {ToSet(streams[k].buffer) : k \in DOMAIN streams}
               /\ streams' = <<>>
               /\ UNCHANGED <<files, size, logged, hasty>>

\* The next process goes on with the file it finds (initStream).
Restart == /\ open = "down"
           /\ open' = "open"
           /\ streams' = <<NewStream>>
           /\ size' = SizeOnDisk
           /\ UNCHANGED <<files, logged, lost, hasty>>

FileNext == \/ Log \/ Close \/ ProcessEnds \/ Restart
            \/ \E k \in DOMAIN streams : OpenFile(k) \/ WriteOut(k) \/ Finish(k)

FileSpec == FileInit /\ [][FileNext]_fileVars

-----------------------------------------------------------------------------
FileTypeOK ==
    /\ DOMAIN files \subseteq Places
    /\ \A i \in DOMAIN files : files[i] \in Seq(1 .. logged)
    /\ \A k \in DOMAIN streams : /\ streams[k].at \in Places \cup {Opening, Unlinked}
                                 /\ streams[k].buffer \in Seq(1 .. logged)
                                 /\ streams[k].ended \in BOOLEAN
    /\ size \in 0 .. MaxEntries
    /\ open \in {"open", "closing", "closed", "down"}
    /\ logged \in 0 .. MaxEntries /\ lost \subseteq 1 .. logged /\ hasty \in BOOLEAN

InFiles == UNION {ToSet(files[i]) : i \in DOMAIN files}
InStreams == UNION {ToSet(streams[k].buffer) : k \in DOMAIN streams}

\* The files hold the end of the log, in order: read from the oldest to the
\* current one, their entries are in the order they were logged in, and an entry
\* that did not die with a process is gone only when MaxFiles - 1 files' worth of
\* later ones were logged - rotations, late writes and restarts notwithstanding.
\* Only a file rotated before its stream had opened it breaks this.
Retention ==
    LET Rank(e) == CHOOSE i \in DOMAIN files : e \in ToSet(files[i])
    IN  ~hasty =>
          /\ \A d, e \in InFiles : d < e => Rank(d) >= Rank(e)
          /\ \A i \in DOMAIN files : \A j \in 1 .. Len(files[i]) - 1 : files[i][j] < files[i][j + 1]
          /\ \A e \in 1 .. logged \ (lost \cup InFiles \cup InStreams) :
                 logged - e >= (MaxFiles - 1) * MaxFileSize
=============================================================================
