------------------------------ MODULE LogFile ------------------------------
(***************************************************************************)
(* AppenderFile: a log file, or one file for each parameter of a message   *)
(* when its name holds a "%s", which is renamed to a backup that carries   *)
(* the time in seconds when it has grown too large or is to be overwritten.*)
(* Threads write to it, with or without a strand that lets them in one at  *)
(* a time; the server crashes between two steps and starts again.          *)
(*                                                                         *)
(* A line counts one unit of size.  A FILE keeps what is printed in its    *)
(* buffer until it is flushed or closed.  A file name is a sequence of the *)
(* parameter and, for a backup, the time.                                  *)
(***************************************************************************)
EXTENDS Integers, SequencesExt, FiniteSetsExt

CONSTANTS Writers,
          Params,     \* param1 of the messages
          Dynamic,    \* dynamicName
          Mode,       \* "a" or "w"
          Backup,     \* backup
          MaxFileSize,\* maxFileSize, 0 for no limit
          Strand,     \* whether one message is written at a time
          Seconds,    \* whether a second passes between two backups of a file
          MaxLines,   \* bounds: lines of each writer, crashes, time
          MaxCrashes,
          MaxTime,
          None

LogFileAssumption ==
  /\ Mode \in {"a", "w"} /\ {Dynamic, Backup, Strand, Seconds} \subseteq BOOLEAN
  /\ MaxFileSize \in Nat /\ MaxLines \in Nat /\ MaxCrashes \in Nat /\ MaxTime \in Nat
  /\ None \notin Writers \union Params

VARIABLES disk,     \* the files: the lines of each, or None
          buffer,   \* what has been printed and not yet flushed, of each FILE
          fileSize, \* fileSize
          pc,       \* where each writer is in _write
          line,     \* the line it writes: the writer, a number, the parameter
          exceeds,  \* its exceedMaxSize
          written,  \* the lines that _write has returned for
          count,    \* the lines each writer has begun
          clock, crashes, up

vars == <<disk, buffer, fileSize, pc, line, exceeds, written, count, clock, crashes, up>>

Shared == <<None>>
Names == {<<p>> : p \in Params} \union {Shared}
BackupName(name) == Append(name, clock)
Backups == {Append(name, t) : name \in Names, t \in 0 .. MaxTime}
Handle(w) == IF Dynamic THEN w ELSE None
Name(w) == IF Dynamic THEN <<line[w].param>> ELSE Shared

\* CloseFile flushes what the closed FILE still has.
Closed(d) ==
  IF Dynamic \/ d[Shared] = None THEN d ELSE [d EXCEPT ![Shared] = @ \o buffer[None]]

\* Mutant: the file is opened again without being renamed.
Renamed_Not(d, name) == d

\* rename replaces a backup of the same name.
Renamed(d, name) ==
  IF d[name] = None THEN d ELSE [d EXCEPT ![BackupName(name)] = d[name], ![name] = None]

Opened(d, name, mode) ==
  IF mode = "w" \/ d[name] = None THEN [d EXCEPT ![name] = <<>>] ELSE d

\* OpenFile: ftell answers the end of a file that is opened to append.
OpenFile(name, mode, backup) ==
  /\ backup /\ Seconds => disk[BackupName(name)] = None
  /\ disk' = Opened(IF backup THEN Renamed(Closed(disk), name) ELSE disk, name, mode)
  /\ fileSize' = Len(disk'[name])

Empty == [h \in Writers \union {None} |-> <<>>]

Init ==
  /\ disk = [f \in Names \union Backups |-> IF f = Shared /\ ~Dynamic THEN <<>> ELSE None]
  /\ buffer = Empty
  /\ fileSize = 0
  /\ pc = [w \in Writers |-> "idle"]
  /\ line = [w \in Writers |-> None] /\ exceeds = [w \in Writers |-> FALSE]
  /\ written = {} /\ count = [w \in Writers |-> 0]
  /\ clock = 0 /\ crashes = 0 /\ up = TRUE

\* Mutant: the size of the file before the message is compared.
Exceeds_Before == MaxFileSize > 0 /\ fileSize > MaxFileSize

Exceeds == MaxFileSize > 0 /\ fileSize + 1 > MaxFileSize

\* _write begins: the size of the file is read.
Begin(w, p) ==
  /\ up /\ pc[w] = "idle" /\ count[w] < MaxLines
  /\ Strand => \A v \in Writers : pc[v] = "idle"
  /\ count' = [count EXCEPT ![w] = @ + 1]
  /\ line' = [line EXCEPT ![w] = [writer |-> w, n |-> count[w], param |-> p]]
  /\ exceeds' = [exceeds EXCEPT ![w] = Exceeds]
  /\ pc' = [pc EXCEPT ![w] = IF Dynamic \/ Exceeds THEN "open" ELSE "print"]
  /\ UNCHANGED <<disk, buffer, fileSize, written, clock, crashes, up>>

\* Mutant: a dynamic file is opened in the mode of the configuration.
Open_Mode(w) ==
  /\ pc[w] = "open"
  /\ IF Dynamic THEN OpenFile(Name(w), Mode, Backup \/ exceeds[w])
                ELSE OpenFile(Name(w), "w", TRUE)
  /\ buffer' = [buffer EXCEPT ![Handle(w)] = <<>>]
  /\ pc' = [pc EXCEPT ![w] = "print"]
  /\ UNCHANGED <<line, exceeds, written, count, clock, crashes, up>>

\* A dynamic file is opened to append for every message, any other one anew.
Open(w) ==
  /\ pc[w] = "open"
  /\ IF Dynamic THEN OpenFile(Name(w), "a", Backup \/ exceeds[w])
                ELSE OpenFile(Name(w), "w", TRUE)
  /\ buffer' = [buffer EXCEPT ![Handle(w)] = <<>>]
  /\ pc' = [pc EXCEPT ![w] = "print"]
  /\ UNCHANGED <<line, exceeds, written, count, clock, crashes, up>>

Printing(w) ==
  /\ pc[w] = "print"
  /\ buffer' = [buffer EXCEPT ![Handle(w)] = Append(@, line[w])]
  /\ pc' = [pc EXCEPT ![w] = "flush"]
  /\ UNCHANGED <<disk, fileSize, line, exceeds, written, count, clock, crashes, up>>

\* Mutant: the line is left in the buffer.
Flush_Not(w) ==
  /\ pc[w] = "flush"
  /\ fileSize' = fileSize + 1
  /\ written' = written \union {line[w]}
  /\ pc' = [pc EXCEPT ![w] = "idle"]
  /\ UNCHANGED <<disk, buffer, line, exceeds, count, clock, crashes, up>>

\* Mutant: the buffer is written and kept.
Flush_Keeps(w) ==
  /\ pc[w] = "flush"
  /\ disk' = [disk EXCEPT ![Name(w)] = @ \o buffer[Handle(w)]]
  /\ fileSize' = fileSize + 1
  /\ written' = written \union {line[w]}
  /\ pc' = [pc EXCEPT ![w] = "idle"]
  /\ UNCHANGED <<buffer, line, exceeds, count, clock, crashes, up>>

\* fflush, which also writes what another thread has printed to the same FILE.
Flush(w) ==
  /\ pc[w] = "flush"
  /\ disk' = [disk EXCEPT ![Name(w)] = @ \o buffer[Handle(w)]]
  /\ buffer' = [buffer EXCEPT ![Handle(w)] = <<>>]
  /\ fileSize' = fileSize + 1
  /\ written' = written \union {line[w]}
  /\ pc' = [pc EXCEPT ![w] = "idle"]
  /\ UNCHANGED <<line, exceeds, count, clock, crashes, up>>

Crash ==
  /\ up /\ crashes < MaxCrashes
  /\ up' = FALSE /\ crashes' = crashes + 1
  /\ buffer' = Empty
  /\ pc' = [w \in Writers |-> "idle"]
  /\ UNCHANGED <<disk, fileSize, line, exceeds, written, count, clock>>

\* The constructor.
Start ==
  /\ ~up
  /\ IF Dynamic THEN fileSize' = 0 /\ UNCHANGED disk
                ELSE OpenFile(Shared, Mode, Mode = "w" /\ Backup)
  /\ up' = TRUE
  /\ UNCHANGED <<buffer, pc, line, exceeds, written, count, clock, crashes>>

Tick ==
  /\ clock < MaxTime
  /\ clock' = clock + 1
  /\ UNCHANGED <<disk, buffer, fileSize, pc, line, exceeds, written, count, crashes, up>>

Next ==
  \/ \E w \in Writers : (\E p \in Params : Begin(w, p)) \/ Open(w) \/ Printing(w) \/ Flush(w)
  \/ Crash \/ Start \/ Tick

Spec == Init /\ [][Next]_vars

------------------------------------------------------------------------------
Files == {f \in DOMAIN disk : disk[f] # None}
LinesOf(f) == ToSet(disk[f])

\* A line that _write has returned for is in a file, through crashes and backups, unless
\* the file is one that a start overwrites without a backup.
NothingLost == written \subseteq UNION {LinesOf(f) : f \in Files}

\* The lines of a writer are in each file in the order it wrote them, and no line is in
\* two places.
InOrder ==
  /\ \A f \in Files : \A i, j \in DOMAIN disk[f] :
       i < j /\ disk[f][i].writer = disk[f][j].writer => disk[f][i].n < disk[f][j].n
  /\ \A f, g \in Files : f # g => LinesOf(f) \cap LinesOf(g) = {}

\* worldserver.conf.dist:123: "Maximum file size of the log file before creating a new
\* log file".
SizeIsLimited == MaxFileSize > 0 => \A f \in Files : Len(disk[f]) <= MaxFileSize
=============================================================================
