------------------------------ MODULE LogStorage ------------------------------
(***************************************************************************)
(* The log writer of Commonlib: one thread copies the output of logcat     *)
(* into a directory of log files, while a user starts it, stops it, asks   *)
(* for a new file, or loses the whole process.  logcat is a child process  *)
(* whose lines arrive, or end, at any time.                                *)
(*                                                                         *)
(* A file is its name, which is the time of its creation.  Files are       *)
(* written one after the other, so lastModified orders them as their names *)
(* do.  The list of files is sorted whenever its order matters, so it is a *)
(* set of entries, numbered per file.  The length of a file is counted in  *)
(* lines.  The user starts only what is stopped; nothing in the code       *)
(* refuses a second start.                                                 *)
(***************************************************************************)
EXTENDS Naturals, FiniteSets

CONSTANTS
    MaxFiles,   \* logFileMaxNum
    MaxLength,  \* log_file_max_len
    MaxStarts,  \* bound: the starts in the life of one process
    MaxTime     \* bound: the clock stands still when it gets there

ASSUME LogAssumption == {MaxFiles, MaxLength, MaxStarts, MaxTime} \subseteq Nat

VARIABLES
    writeThreadRunFlag, writeLogFileFlag, newLogFileFlag,
    logFileList,    \* the writer's entries for files, some of them twice
    dir,            \* the files in the directory, which outlive the process
    clock,          \* the time, as generateFileName formats it
    length,         \* the lines in the open file
    line,           \* a line waits in the pipe of logcat
    ended,          \* logcat has ended, and the pipe with it
    at,             \* where the writer thread is
    user,           \* where the user is
    starts,         \* the starts in this process
    restarted,      \* history: some process has started twice
    after           \* history: the lines written to the file that was open at
                    \* the oldest request for a new one, or NoRequest

flags == <<writeThreadRunFlag, writeLogFileFlag, newLogFileFlag>>
files == <<logFileList, dir, clock, length>>
pipe == <<line, ended>>
life == <<starts, restarted>>
logVars == <<flags, files, pipe, at, user, life, after>>

NoRequest == MaxLength + 2

Labels == {"none", "start", "loop", "create", "test", "read", "write",
           "close", "report", "callback"}

LogInit ==
    /\ writeThreadRunFlag = FALSE
    /\ writeLogFileFlag = FALSE
    /\ newLogFileFlag = FALSE
    /\ logFileList = {}
    /\ dir = {}
    /\ clock = 0
    /\ length = 0
    /\ line = FALSE
    /\ ended = FALSE
    /\ at = "none"
    /\ user = "stopped"
    /\ starts = 0
    /\ restarted = FALSE
    /\ after = NoRequest

Move(from, to) ==
    /\ at = from
    /\ at' = to

-----------------------------------------------------------------------------
(***************************************************************************)
(* The writer thread.                                                      *)
(***************************************************************************)

FilesOf(entries) == {e.file : e \in entries}

NextCopy(f) == 1 + Cardinality({e \in logFileList : e.file = f})

WithFiles(F) == logFileList \cup {[file |-> f, copy |-> NextCopy(f)] : f \in F}

\* Slip: the files of an earlier run are not looked for.
ListedNone == logFileList

\* The list is that of the last start, if there was one in this process, with
\* the files of the directory added once more.
Listed == WithFiles(dir)

\* createLogDir, and the start of logcat.
CreateLogDir ==
    /\ Move("start", "loop")
    /\ logFileList' = Listed
    /\ line' = FALSE
    /\ ended' = FALSE
    /\ UNCHANGED <<flags, dir, clock, length, user, life, after>>

\* finally: logcat is destroyed with the reader of its pipe.
Finish ==
    /\ at' = "none"
    /\ line' = FALSE
    /\ ended' = FALSE

\* The index of the loop grows while the size shrinks: half of the excess goes.
Surplus ==
    LET n == Cardinality(logFileList)
    IN  IF n > MaxFiles THEN (n - MaxFiles + 1) \div 2 ELSE 0

\* Slip: the list is trimmed in the order it has.
OlderAsListed(e, g) == TRUE

\* The order of the sort.  Of the entries for one file, which are alike, those
\* with higher numbers go first.  A file that is gone has a modification time of
\* zero; since files go oldest first, its entries are the oldest here as well.
Older(e, g) ==
    \/ e.file < g.file
    \/ e.file = g.file /\ e.copy > g.copy

TrimFile ==
    \E gone \in SUBSET logFileList :
        /\ Cardinality(gone) = Surplus
        /\ \A e \in gone, g \in logFileList \ gone : Older(e, g)
        /\ logFileList' = logFileList \ gone
        /\ dir' = dir \ FilesOf(gone)

NextFile ==
    /\ at = "loop"
    /\ IF writeThreadRunFlag
         THEN at' = "create" /\ TrimFile /\ UNCHANGED pipe
         ELSE Finish /\ UNCHANGED <<logFileList, dir>>
    /\ UNCHANGED <<flags, clock, length, user, life, after>>

\* A name that exists already is opened again, and its content cut off.
CreateFile ==
    /\ Move("create", "test")
    /\ logFileList' = WithFiles({clock})
    /\ dir' = dir \cup {clock}
    /\ length' = 0
    /\ after' = NoRequest
    /\ UNCHANGED <<flags, clock, pipe, user, life>>

\* Slip: a request is not seen before the file is full.
GoOnUnasked == writeLogFileFlag

GoOn == ~newLogFileFlag /\ writeLogFileFlag

TestFlags ==
    /\ Move("test", IF GoOn THEN "read" ELSE "close")
    /\ UNCHANGED <<flags, files, pipe, user, life, after>>

\* Slip: the length is not looked at.
RoomLeftAlways == TRUE

RoomLeft == length <= MaxLength

\* The length is looked at after the line was read: a line that finds the file
\* full is in neither file.
ReadLine ==
    /\ line
    /\ Move("read", IF RoomLeft THEN "write" ELSE "close")
    /\ line' = FALSE
    /\ UNCHANGED <<flags, files, ended, user, life, after>>

ReadEnd ==
    /\ ended /\ ~line
    /\ Move("read", "close")
    /\ UNCHANGED <<flags, files, pipe, user, life, after>>

\* Only the lines of this process are written.
WriteLine(own) ==
    /\ Move("write", "test")
    /\ length' = IF own THEN length + 1 ELSE length
    /\ after' = IF own /\ after # NoRequest THEN after + 1 ELSE after
    /\ UNCHANGED <<flags, logFileList, dir, clock, pipe, user, life>>

CloseFile ==
    /\ Move("close", "report")
    /\ newLogFileFlag' = FALSE
    /\ UNCHANGED <<writeThreadRunFlag, writeLogFileFlag, files, pipe, user, life,
                   after>>

Report ==
    /\ \/ Move("report", IF writeThreadRunFlag THEN "callback" ELSE "loop")
       \/ Move("callback", "loop")
    /\ UNCHANGED <<flags, files, pipe, user, life, after>>

\* Any of these may throw; the thread ends and the flags stay as they are.
WriterFails ==
    /\ at \in {"start", "create", "read", "write"}
    /\ Finish
    /\ UNCHANGED <<flags, files, user, life, after>>

WriterStep ==
    \/ CreateLogDir \/ NextFile \/ CreateFile \/ TestFlags
    \/ ReadLine \/ ReadEnd \/ CloseFile \/ Report
    \/ \E own \in BOOLEAN : WriteLine(own)

-----------------------------------------------------------------------------
(***************************************************************************)
(* The user of LogStorage.                                                 *)
(***************************************************************************)

\* A request made while stopped is still there at the next start.
Start ==
    /\ user = "stopped"
    /\ starts < MaxStarts
    /\ user' = "started"
    /\ starts' = starts + 1
    /\ restarted' = (restarted \/ starts # 0)
    /\ at' = "start"
    /\ writeThreadRunFlag' = TRUE
    /\ writeLogFileFlag' = TRUE
    /\ UNCHANGED <<newLogFileFlag, files, pipe, after>>

FileOpen == at \in {"test", "read", "write"}

StartNewLogFile ==
    /\ ~newLogFileFlag
    /\ newLogFileFlag' = TRUE
    /\ after' = IF FileOpen /\ after = NoRequest THEN 0 ELSE after
    /\ UNCHANGED <<writeThreadRunFlag, writeLogFileFlag, files, pipe, at, user,
                   life>>

\* Slip: only the outer loop is told.
InnerLoopFlagKept == writeLogFileFlag

InnerLoopFlag == FALSE

Stop ==
    /\ \/ /\ user = "started" /\ user' = "stopping"
          /\ writeThreadRunFlag' = FALSE
          /\ UNCHANGED writeLogFileFlag
       \/ /\ user = "stopping" /\ user' = "joining"
          /\ writeLogFileFlag' = InnerLoopFlag
          /\ UNCHANGED writeThreadRunFlag
    /\ UNCHANGED <<newLogFileFlag, files, pipe, at, life, after>>

WriterGone == at = "none"

Join ==
    /\ user = "joining"
    /\ WriterGone
    /\ user' = "stopped"
    /\ UNCHANGED <<flags, files, pipe, at, life, after>>

-----------------------------------------------------------------------------
(***************************************************************************)
(* logcat, the clock, and the end of the process.                          *)
(***************************************************************************)

LogcatWrites ==
    /\ at \notin {"none", "start"}
    /\ ~ended /\ ~line
    /\ line' = TRUE
    /\ UNCHANGED <<flags, files, ended, at, user, life, after>>

LogcatEnds ==
    /\ at \notin {"none", "start"}
    /\ ~ended
    /\ ended' = TRUE
    /\ UNCHANGED <<flags, files, line, at, user, life, after>>

Tick ==
    /\ clock < MaxTime
    /\ clock' = clock + 1
    /\ UNCHANGED <<flags, logFileList, dir, length, pipe, at, user, life, after>>

\* Only the directory is left.
ProcessEnds ==
    /\ user # "stopped" \/ starts # 0 \/ newLogFileFlag
    /\ writeThreadRunFlag' = FALSE
    /\ writeLogFileFlag' = FALSE
    /\ newLogFileFlag' = FALSE
    /\ logFileList' = {}
    /\ Finish
    /\ user' = "stopped"
    /\ starts' = 0
    /\ after' = NoRequest
    /\ UNCHANGED <<dir, clock, length, restarted>>

-----------------------------------------------------------------------------
LogNext ==
    \/ WriterStep \/ WriterFails
    \/ Start \/ StartNewLogFile \/ Stop \/ Join
    \/ LogcatWrites \/ LogcatEnds \/ Tick \/ ProcessEnds

LogSpec == LogInit /\ [][LogNext]_logVars

\* The writer thread runs, and a stop that was begun goes on; nothing is
\* assumed of logcat, of the clock or of the user.
LogFairSpec ==
    LogSpec /\ WF_logVars(WriterStep) /\ WF_logVars(Stop) /\ WF_logVars(Join)

-----------------------------------------------------------------------------
(***************************************************************************)
(* Properties.                                                             *)
(***************************************************************************)

\* Every variable keeps its type, and an open file its size.
LogTypeOK ==
    /\ writeThreadRunFlag \in BOOLEAN /\ writeLogFileFlag \in BOOLEAN
    /\ newLogFileFlag \in BOOLEAN
    /\ line \in BOOLEAN /\ ended \in BOOLEAN
    /\ logFileList \subseteq [file : 0 .. MaxTime, copy : Nat \ {0}]
    /\ IsFiniteSet(logFileList)
    /\ dir \subseteq 0 .. MaxTime
    /\ clock \in 0 .. MaxTime
    /\ length \in 0 .. MaxLength + 1
    /\ at \in Labels
    /\ user \in {"stopped", "started", "stopping", "joining"}
    /\ starts \in 0 .. MaxStarts
    /\ restarted \in BOOLEAN
    /\ after \in 0 .. NoRequest

\* As long as no process starts the writer twice, the directory holds one file
\* more than the maximum, which is the one that is open: trimFile runs before
\* it is made.  A second start lists every file again; then trimFile spends
\* deletions on entries whose file is gone, and there may be more.
DirectoryIsBounded == ~restarted => Cardinality(dir) <= MaxFiles + 1

\* A file is deleted before every younger file, and never while it is open,
\* though listFiles has no order and the list is sorted only when it is trimmed,
\* and whatever entries earlier starts have left.
OldestGoesFirst ==
    [][/\ \A f \in dir \ dir' : \A g \in dir' : f < g
       /\ FileOpen => dir \subseteq dir']_logVars

\* A request for a new file is not lost, whenever it comes: at most the one line
\* being read when it is made still goes into the old file.
RequestIsHonoured == after = NoRequest \/ after <= 1

\* stop returns, unless the writer waits in readLine for a line that never
\* comes: stop wakes nobody up, its call of logcatProc.destroy is commented out.
StopIsResolved ==
    user = "joining" ~> user = "stopped" \/ [](at = "read" /\ ~line)
=============================================================================
