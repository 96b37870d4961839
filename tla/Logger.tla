------------------------------ MODULE Logger ------------------------------
(***************************************************************************)
(* log: the Logger singleton (log/src/log.cpp, log/include/log.h) writing  *)
(* one file through a buffer of fixed size, with rotation by line count.   *)
(*                                                                         *)
(* log() tests the line limit and calls rotate() before it takes m_mutex;  *)
(* only the append to the buffer is locked.  A thread inside rotate()      *)
(* therefore interleaves, statement by statement, with the others' appends *)
(* and rotations.  By the language that is a data race: the model takes    *)
(* the outcomes in which each statement acts as a whole, and no call       *)
(* begins once that has happened.                                          *)
(*                                                                         *)
(* A line is its number, its level and its lengths, in characters: what    *)
(* goes into the buffer, how much of it is text that was written, and what *)
(* the caller asked for.  A backup is named by the second of its rotation. *)
(***************************************************************************)
EXTENDS Naturals, Sequences, FiniteSets

CONSTANTS
    Threads,
    Limit,       \* max_lines of the configuration
    BufSize,     \* STACK_BUF_SIZE
    Prefix,      \* length of the timestamp, the level, the file and the line number
    Messages,    \* calls of log(): with a format string or not, lengths of the arguments
    NoFile,      \* there is no file of the configured name
    MaxLogs,     \* bound on lines logged
    MaxSeconds,  \* bound on the clock
    MaxFaults    \* bound on injected faults

ASSUME LoggerAssumption ==
    /\ Limit \in Nat \ {0}
    /\ BufSize \in Nat \ {0}
    /\ Prefix \in Nat \ {0} /\ Prefix + 2 < BufSize
    /\ \A m \in Messages : m.formatted \in BOOLEAN /\ m.args \in Seq(Nat)
    /\ \A f \in SUBSET (1..MaxLogs) : f # NoFile
    /\ IsFiniteSet(Threads)
    /\ MaxLogs \in Nat /\ MaxSeconds \in Nat /\ MaxFaults \in Nat

VARIABLES
    initialized,  \* m_initialized
    named,        \* m_file_name is set
    level,        \* m_config.level
    maxLines,     \* m_config.max_lines
    fout,         \* m_fout: "closed", "open", "failed" (open, but writing nothing),
                  \* or "moved" (open on the backup a rival thread made of the file)
    curLines,     \* m_cur_lines
    buffer,       \* m_buffer up to m_buf_offset
    file,         \* the lines of the file of the configured name
    backups,      \* the lines of the backup of each second
    movedTo,      \* the backup a "moved" m_fout writes to
    pc,           \* where each thread is in log()
    line,         \* the line each thread is logging
    logged,       \* history: the lines appended while the file was open, without
                  \* those a crash of the process took from the buffer
    durable,      \* history: what was logged when the last ERROR was
    events,       \* history: what else the lines and the limit depend on
    clock,        \* the second
    count,        \* lines logged so far
    faults        \* faults injected

cfgVars == <<initialized, named, level, maxLines>>
fileVars == <<fout, curLines, buffer, file, backups, movedTo>>
historyVars == <<logged, durable, events>>
vars == <<initialized, named, level, maxLines, fout, curLines, buffer, file, backups,
          movedTo, pc, line, logged, durable, events, clock, count, faults>>

Severity == [INFO |-> 1, ERROR |-> 3]
NoLine == [id |-> 0, level |-> "INFO", length |-> 1, text |-> 0, asked |-> 0]
Fault == faults < MaxFaults /\ faults' = faults + 1

Init ==
    /\ initialized = FALSE /\ named = FALSE
    /\ level = "INFO" /\ maxLines = Limit
    /\ fout = "closed" /\ curLines = 0 /\ buffer = <<>>
    /\ file = NoFile /\ backups = [s \in 0..MaxSeconds |-> {}]
    /\ movedTo = 0
    /\ pc = [t \in Threads |-> "idle"] /\ line = [t \in Threads |-> NoLine]
    /\ logged = {} /\ durable = {} /\ events = {}
    /\ clock = 0 /\ count = 0 /\ faults = 0

-----------------------------------------------------------------------------
(* A line is assembled on the stack.  An offset is where the line ends so far;
   written is how far text was really put. *)

Least(a, b) == IF a < b THEN a ELSE b

\* the sums of the first numbers of a sequence
Sums(q) == LET s[i \in 0..Len(q)] == IF i = 0 THEN 0 ELSE s[i - 1] + q[i] IN s
Total(q) == Sums(q)[Len(q)]

Asked(m) == Prefix + Total(m.args)

\* format_timestamp(), and the rest of what comes first
Begun == [offset |-> Prefix, written |-> Prefix]

\* the size that append_args() is given: what the prefix leaves, and yet offsets
\* are compared with it that count from the start of the line
Room == BufSize - Prefix

\* Mutant of WriteArg: the size is reduced once more.
WriteArgShort(l, n) ==
    IF l.offset + Prefix >= Room THEN l
    ELSE [offset |-> l.offset + n, written |-> Least(l.offset + n, Room - 1)]

\* snprintf() writes what fits and tells the whole length; after that an
\* argument is left out
WriteArg(l, n) ==
    IF l.offset >= Room THEN l
    ELSE [offset |-> l.offset + n, written |-> Least(l.offset + n, Room - 1)]

\* the line after each of the arguments
Written(args) ==
    LET l[i \in 0..Len(args)] == IF i = 0 THEN Begun ELSE WriteArg(l[i - 1], args[i]) IN l

AppendArgs(args) == Written(args)[Len(args)]

\* log_vprintf() is given the size that really is left
Printed(m) == [offset |-> Asked(m), written |-> Least(Asked(m), BufSize - 1)]

\* the end of the line, in place of what does not fit
Ended(l) ==
    LET length == IF l.offset < BufSize - 2 THEN l.offset + 1 ELSE BufSize - 1
    IN  [length |-> length, text |-> Least(l.written, length - 1)]

LineOf(id, lv, m) ==
    LET e == Ended(IF m.formatted THEN Printed(m) ELSE AppendArgs(m.args))
    IN  [id |-> id, level |-> lv, length |-> e.length, text |-> e.text,
         asked |-> Asked(m)]

-----------------------------------------------------------------------------
(* The buffer and the file *)

Lines(f) == IF f = NoFile THEN {} ELSE f
Ids(b) == {b[i].id : i \in DOMAIN b}
Offset(b) == Total([i \in 1..Len(b) |-> b[i].length])

\* what file and buffer are after flush_buffer()
Flushed == IF fout = "open" THEN Lines(file) \union Ids(buffer) ELSE file
FlushedBackups ==
    IF fout = "moved" THEN [backups EXCEPT ![movedTo] = @ \union Ids(buffer)] ELSE backups
Left == IF fout = "closed" THEN buffer ELSE <<>>

\* m_fout.open() for append, from state o: it makes the file, or fails, and a
\* stream that is still open is left in its failed state
OpenFile(o, f) ==
    \/ /\ o = "closed"
       /\ \/ fout' = "open" /\ file' = Lines(f) /\ UNCHANGED faults
          \/ fout' = "closed" /\ file' = f /\ Fault
    \/ o # "closed" /\ fout' = "failed" /\ file' = f /\ UNCHANGED faults

\* the threads inside rotate()
Rotating == {t \in Threads : pc[t] \in {"reset", "close", "rename", "reopen"}}

\* bound: no call begins once threads have raced, or logging goes on after
\* shutdown()
Raceful == events \intersect {"race", "late"} # {}

\* a step of t, or of the owner, while a thread is inside rotate()
Raced(T) == IF Rotating \ T # {} THEN events \union {"race"} ELSE events

-----------------------------------------------------------------------------
(* init(), shutdown(), the setters; bound: none of the setters is called once
   two lines or fewer are left to log *)

\* init() closes what an earlier one opened, counts the lines of the file and
\* opens it; a thread may have tested its line against the former limit
InitLogger ==
    /\ ~Raceful /\ (~initialized \/ count < MaxLogs)
    /\ LET f == IF initialized THEN Flushed ELSE file
       IN  /\ curLines' = Cardinality(Lines(f))
           /\ OpenFile(IF initialized THEN "closed" ELSE fout, f)
    /\ initialized' = TRUE /\ named' = TRUE
    /\ level' = "INFO" /\ maxLines' = Limit
    /\ buffer' = <<>>
    /\ backups' = IF initialized THEN FlushedBackups ELSE backups
    /\ events' = Raced({}) \union
         (IF maxLines = Limit /\ (\A t \in Threads : pc[t] # "append") THEN {}
          ELSE {"limit"})
    /\ UNCHANGED <<movedTo, pc, line, logged, durable, clock, count>>

\* shutdown() flushes and closes
Shutdown ==
    /\ initialized /\ ~Raceful
    /\ initialized' = FALSE
    /\ file' = Flushed /\ backups' = FlushedBackups /\ buffer' = Left /\ fout' = "closed"
    /\ events' = Raced({})
    /\ UNCHANGED <<named, level, maxLines, curLines, movedTo, pc, line, logged, durable,
                   clock, count, faults>>

\* set_level(), and set_level_str() with the name of a level; any other name
\* changes nothing
SetLevel ==
    /\ ~Raceful /\ count + 2 < MaxLogs
    /\ \E l \in DOMAIN Severity : l # level /\ level' = l
    /\ UNCHANGED <<initialized, named, maxLines, fileVars, pc, line, historyVars, clock,
                   count, faults>>

\* set_max_lines(): 0 stands for no rotation
SetMaxLines ==
    /\ ~Raceful /\ count + 2 < MaxLogs
    /\ maxLines' \in {0, Limit} \ {maxLines}
    /\ events' = events \union {"limit"}
    /\ UNCHANGED <<initialized, named, level, fileVars, pc, line, logged, durable, clock,
                   count, faults>>

-----------------------------------------------------------------------------
(* log() *)

\* Mutant of Log: the limit itself does not rotate.
LogPastLimit(t) ==
    /\ pc[t] = "idle" /\ count < MaxLogs /\ ~Raceful
    /\ \E l \in DOMAIN Severity, m \in Messages :
         line' = [line EXCEPT ![t] = LineOf(count + 1, l, m)]
    /\ count' = count + 1
    /\ pc' = [pc EXCEPT ![t] =
               IF maxLines > 0 /\ curLines > maxLines /\ named THEN "flush" ELSE "append"]
    /\ UNCHANGED <<cfgVars, fileVars, historyVars, clock, faults>>

\* the level is tested, then the limit, both without the lock
Log(t) ==
    /\ pc[t] = "idle" /\ count < MaxLogs /\ ~Raceful
    /\ \E l \in DOMAIN Severity, m \in Messages :
         /\ Severity[l] >= Severity[level]
         /\ line' = [line EXCEPT ![t] = LineOf(count + 1, l, m)]
    /\ count' = count + 1
    /\ pc' = [pc EXCEPT ![t] =
               IF maxLines > 0 /\ curLines >= maxLines /\ named THEN "flush" ELSE "append"]
    /\ UNCHANGED <<cfgVars, fileVars, historyVars, clock, faults>>

\* rotate() calls flush_buffer(): the buffer is written ...
RotateFlush(t) ==
    /\ pc[t] = "flush"
    /\ file' = Flushed /\ backups' = FlushedBackups
    /\ pc' = [pc EXCEPT ![t] = IF fout # "closed" /\ buffer # <<>> THEN "reset" ELSE "close"]
    /\ events' = Raced({t})
    /\ UNCHANGED <<cfgVars, fout, curLines, buffer, movedTo, line, logged, durable, clock,
                   count, faults>>

\* ... and then its offset is set to 0
RotateReset(t) ==
    /\ pc[t] = "reset"
    /\ buffer' = <<>>
    /\ pc' = [pc EXCEPT ![t] = "close"]
    /\ events' = Raced({t})
    /\ UNCHANGED <<cfgVars, fout, curLines, file, backups, movedTo, line, logged, durable, clock,
                   count, faults>>

RotateClose(t) ==
    /\ pc[t] = "close"
    /\ fout' = "closed"
    /\ pc' = [pc EXCEPT ![t] = "rename"]
    /\ events' = Raced({t})
    /\ UNCHANGED <<cfgVars, curLines, buffer, file, backups, movedTo, line, logged, durable, clock,
                   count, faults>>

\* Mutant of RotateRename: a rename that fails is not looked at, and the file
\* is opened anew from its start.
RotateRenameTruncated(t) ==
    /\ pc[t] = "rename"
    /\ file' = NoFile
    /\ pc' = [pc EXCEPT ![t] = "reopen"]
    /\ UNCHANGED <<cfgVars, fout, curLines, buffer, backups, movedTo, line, historyVars,
                   clock, count, faults>>

\* the file becomes the backup of this second, in place of one that is there; if
\* it cannot be renamed it is removed, and stays if that fails too: nobody looks
RotateRename(t) ==
    /\ pc[t] = "rename"
    /\ \/ /\ file # NoFile /\ file' = NoFile
          /\ backups' = [backups EXCEPT ![clock] = file]
          /\ IF fout = "open" THEN fout' = "moved" /\ movedTo' = clock
             ELSE UNCHANGED <<fout, movedTo>>
          /\ events' = Raced({t}) \union
                         (IF backups[clock] = {} THEN {} ELSE {"overwritten"})
          /\ UNCHANGED faults
       \/ /\ file # NoFile /\ file' = NoFile /\ Fault
          /\ events' = Raced({t}) \union {"removed"}
          /\ fout' = IF fout = "open" THEN "failed" ELSE fout
          /\ UNCHANGED <<backups, movedTo>>
       \/ /\ file # NoFile /\ Fault
          /\ events' = Raced({t}) \union {"kept"}
          /\ UNCHANGED <<file, fout, backups, movedTo>>
       \/ /\ file = NoFile
          /\ events' = Raced({t})
          /\ UNCHANGED <<file, fout, backups, movedTo, faults>>
    /\ pc' = [pc EXCEPT ![t] = "reopen"]
    /\ UNCHANGED <<cfgVars, curLines, buffer, line, logged, durable, clock, count>>

\* the count starts again; the open may fail, and the lines are then dropped;
\* after shutdown() it succeeds, and logging goes on where nobody will flush
RotateReopen(t) ==
    /\ pc[t] = "reopen"
    /\ curLines' = 0
    /\ OpenFile(fout, file)
    /\ pc' = [pc EXCEPT ![t] = "append"]
    /\ events' = Raced({t}) \union (IF initialized THEN {} ELSE {"late"})
    /\ UNCHANGED <<cfgVars, buffer, backups, movedTo, line, logged, durable, clock, count>>

\* Mutant of AppendLine: an ERROR is no reason to flush.
AppendLate(t) ==
    /\ pc[t] = "append"
    /\ IF fout # "closed"
       THEN LET full == Offset(buffer) + line[t].length > BufSize
            IN  /\ buffer' = Append(IF full THEN <<>> ELSE buffer, line[t])
                /\ file' = IF full THEN Flushed ELSE file
                /\ logged' = logged \union {line[t].id}
                /\ durable' = IF line[t].level = "ERROR" THEN logged' ELSE durable
       ELSE UNCHANGED <<file, buffer, logged, durable>>
    /\ curLines' = curLines + 1
    /\ pc' = [pc EXCEPT ![t] = "idle"] /\ line' = [line EXCEPT ![t] = NoLine]
    /\ events' = Raced({})
    /\ UNCHANGED <<cfgVars, fout, movedTo, backups, clock, count, faults>>

\* Mutant of AppendLine: the line is copied before the room is tested.
AppendUnflushed(t) ==
    /\ pc[t] = "append"
    /\ buffer' = IF Offset(buffer) > BufSize THEN <<line[t]>> ELSE Append(buffer, line[t])
    /\ curLines' = curLines + 1
    /\ pc' = [pc EXCEPT ![t] = "idle"] /\ line' = [line EXCEPT ![t] = NoLine]
    /\ events' = Raced({})
    /\ UNCHANGED <<cfgVars, fout, movedTo, backups, file, logged, durable, clock, count,
                   faults>>

\* under the lock: a buffer the line does not fit in is flushed, the line
\* copied, and the buffer flushed again for an ERROR or once it is half full
AppendLine(t) ==
    /\ pc[t] = "append"
    /\ IF fout # "closed"
       THEN LET full == Offset(buffer) + line[t].length > BufSize
                b == Append(IF full THEN <<>> ELSE buffer, line[t])
                f == IF full THEN Flushed ELSE file
                flush == \/ Severity[line[t].level] >= Severity["ERROR"]
                         \/ Offset(b) >= BufSize \div 2
            IN  /\ buffer' = IF flush THEN <<>> ELSE b
                /\ file' = IF flush /\ fout = "open" THEN Lines(f) \union Ids(b) ELSE f
                /\ backups' =
                     IF fout # "moved" THEN backups
                     ELSE [backups EXCEPT ![movedTo] = @ \union
                            (IF full THEN Ids(buffer) ELSE {}) \union
                            (IF flush THEN Ids(b) ELSE {})]
                /\ logged' = logged \union {line[t].id}
                /\ durable' = IF line[t].level = "ERROR" THEN logged' ELSE durable
       ELSE UNCHANGED <<file, backups, buffer, logged, durable>>
    /\ curLines' = curLines + 1
    /\ pc' = [pc EXCEPT ![t] = "idle"] /\ line' = [line EXCEPT ![t] = NoLine]
    /\ events' = Raced({})
    /\ UNCHANGED <<cfgVars, fout, movedTo, clock, count, faults>>

-----------------------------------------------------------------------------
(* The end of the process, the disk, and time *)

\* the process ends: ~Logger() writes the buffer out, a crash does not
Exit ==
    /\ initialized /\ ~Raceful /\ Fault
    /\ \/ /\ \A t \in Threads : pc[t] = "idle"
          /\ file' = Flushed /\ backups' = FlushedBackups /\ UNCHANGED logged
       \/ logged' = logged \ Ids(buffer) /\ UNCHANGED <<file, backups>>
    /\ initialized' = FALSE /\ named' = FALSE
    /\ fout' = "closed" /\ buffer' = <<>> /\ curLines' = 0
    /\ pc' = [t \in Threads |-> "idle"] /\ line' = [t \in Threads |-> NoLine]
    /\ UNCHANGED <<level, maxLines, movedTo, durable, events, clock, count>>

\* the stream takes nothing more of what there is to write, when the disk is full
\* say: flush_buffer() does not look, and drops it, until the file is opened anew
WriteFails ==
    /\ fout = "open" /\ ~Raceful /\ Fault
    /\ buffer # <<>> \/ \E t \in Threads : pc[t] = "append"
    /\ fout' = "failed"
    /\ events' = events \union {"unwritten"}
    /\ UNCHANGED <<cfgVars, curLines, buffer, file, backups, movedTo, pc, line, logged, durable,
                   clock, count>>

Tick ==
    /\ clock < MaxSeconds /\ count < MaxLogs /\ ~Raceful
    /\ clock' = clock + 1
    /\ UNCHANGED <<cfgVars, fileVars, pc, line, historyVars, count, faults>>

LogStep(t) ==
    \/ Log(t) \/ RotateFlush(t) \/ RotateReset(t) \/ RotateClose(t)
    \/ RotateRename(t) \/ RotateReopen(t) \/ AppendLine(t)

Next ==
    \/ InitLogger \/ Shutdown \/ SetLevel \/ SetMaxLines \/ Exit \/ WriteFails \/ Tick
    \/ \E t \in Threads : LogStep(t)

Spec == Init /\ [][Next]_vars

-----------------------------------------------------------------------------
(* Properties *)

Stored == Lines(file) \union UNION {backups[s] : s \in DOMAIN backups}

\* The type invariant.
TypeOK ==
    /\ initialized \in BOOLEAN /\ named \in BOOLEAN /\ fout \in {"closed", "open", "failed", "moved"}
    /\ level \in DOMAIN Severity /\ maxLines \in {0, Limit}
    /\ curLines \in Nat
    /\ Offset(buffer) <= BufSize
    /\ file \in (SUBSET (1..MaxLogs)) \union {NoFile}
    /\ backups \in [0..MaxSeconds -> SUBSET (1..MaxLogs)]
    /\ movedTo \in 0..MaxSeconds
    /\ pc \in [Threads -> {"idle", "flush", "reset", "close", "rename", "reopen",
                           "append"}]
    /\ \A t \in Threads : line[t].id \in 0..count
    /\ logged \subseteq 1..count /\ durable \subseteq logged
    /\ events \subseteq {"race", "limit", "overwritten", "removed", "kept", "unwritten", "late"}
    /\ clock \in 0..MaxSeconds /\ count \in 0..MaxLogs /\ faults \in 0..MaxFaults

\* A line that leaves the length of its prefix free in the stack buffer is logged
\* as it was asked for.  (A longer one is not only cut: what append_args() could
\* not write is counted, and logged as whatever the stack held there.)
\* (The sizes log() hands to append_args(), write_arg() and log_vprintf().)
LinesWhole ==
    \A t \in Threads : line[t].id # 0 /\ line[t].asked + Prefix < BufSize =>
        line[t].text = line[t].asked /\ line[t].length = line[t].asked + 1

\* While the process lives a line is lost in five ways only: two rotations in
\* one second, a file that cannot be renamed and is removed, a write that fails, a
\* thread that logs while another rotates, and a line logged after shutdown() that
\* rotates.  Otherwise every line that log() put into the buffer is in the file, in
\* a backup or still in the buffer, through any number of rotations, init() and
\* shutdown().  (Logger::rotate(), flush_buffer(), the locked part of log().)
NoLineLost ==
    events \subseteq {"limit", "kept"} => logged \subseteq Stored \union Ids(buffer)

\* An ERROR is written with everything before it: even a crash afterwards does
\* not take those lines.  (The flush at the end of log().)
ErrorsDurable == events \subseteq {"limit", "kept"} => durable \subseteq Stored

\* The file never grows past the limit by more than the threads that tested it
\* before one of them appended, as long as a rotation takes it away: one that can
\* neither rename nor remove it counts from 0 on and lets it grow.  (The unlocked
\* test of m_cur_lines, and the count that rotate() starts again.)
FileBounded == events \subseteq {"overwritten", "removed"} =>
    Cardinality(Lines(file) \union Ids(buffer)) < Limit + Cardinality(Threads)
=============================================================================
