--------------------------- MODULE LogStorageProofs ---------------------------
(***************************************************************************)
(* Proofs about LogStorage for any number of files, any length and any     *)
(* number of starts.  The inductive invariant LogInv follows a request for *)
(* a new file along the inner loop of the writer: it is tested before      *)
(* every line, so that one line may be on its way when it comes, and one   *)
(* only.  ListingInv says that no file of the directory is forgotten, so   *)
(* that the length of the list bounds the directory (SizeInv).             *)
(***************************************************************************)
EXTENDS LogStorage, FiniteSetTheorems, TLAPS

\* Between the test of the flags and the write of the line, a request was made
\* after the test, and nothing was written since; after the write, the next
\* test sees it.
RequestInv ==
    /\ after \in {0, 1, NoRequest}
    /\ at \in {"read", "write"} => after \in {0, NoRequest}
    /\ after # NoRequest /\ FileOpen => newLogFileFlag

\* The length is tested between two lines.
LengthInv ==
    /\ length \in 0 .. MaxLength + 1
    /\ at = "write" => length <= MaxLength

\* The writer exists only between start and the return of stop, which lowers
\* the flag of the outer loop before that of the inner one.
WriterInv ==
    /\ user = "stopped" => at = "none"
    /\ user \in {"stopping", "joining"} => ~writeThreadRunFlag
    /\ user = "joining" => ~writeLogFileFlag
    /\ starts \in Nat
    /\ starts = 0 => user = "stopped"

\* From createLogDir on the list has an entry for every file.
ListingInv == at \notin {"none", "start"} => dir \subseteq FilesOf(logFileList)

\* Without a second start the list begins with the directory, and trimFile makes
\* room for the file to come.
SizeInv ==
    ~restarted =>
        /\ Cardinality(dir) <= MaxFiles + 1
        /\ Cardinality(logFileList) <= MaxFiles + 1
        /\ at = "create" => Cardinality(logFileList) <= MaxFiles
        /\ starts = 0 \/ at = "start" => logFileList = {}

LogInv == RequestInv /\ LengthInv /\ WriterInv

FilesInv == LogTypeOK /\ ListingInv /\ SizeInv

LEMMA LogInitEstablishesInv == LogInit => LogInv
BY LogAssumption DEF LogInit, LogInv, RequestInv, LengthInv, WriterInv, FileOpen

\* The writer thread preserves LogInv.
LEMMA WriterKeepsInv ==
  ASSUME LogInv, WriterStep \/ WriterFails
  PROVE  LogInv'
<1> USE LogAssumption DEF LogInv, RequestInv, LengthInv, WriterInv, Move, Finish,
        flags, files, pipe, life, FileOpen, NoRequest
<1>1. CASE CreateLogDir
  BY <1>1 DEF CreateLogDir
<1>2. CASE NextFile
  BY <1>2 DEF NextFile
<1>3. CASE CreateFile
  BY <1>3 DEF CreateFile
<1>4. CASE TestFlags
  BY <1>4 DEF TestFlags, GoOn
<1>5. CASE ReadLine
  BY <1>5 DEF ReadLine, RoomLeft
<1>6. CASE ReadEnd
  BY <1>6 DEF ReadEnd
<1>7. ASSUME NEW own \in BOOLEAN, WriteLine(own)
      PROVE  LogInv'
  BY <1>7 DEF WriteLine
<1>8. CASE CloseFile
  BY <1>8 DEF CloseFile
<1>9. CASE Report
  BY <1>9 DEF Report
<1>10. CASE WriterFails
  BY <1>10 DEF WriterFails
<1>11. QED
  BY <1>1, <1>2, <1>3, <1>4, <1>5, <1>6, <1>7, <1>8, <1>9, <1>10 DEF WriterStep

\* So do the user, logcat, the clock and the end of the process.
LEMMA OthersKeepInv ==
  ASSUME LogInv,
         \/ Start \/ StartNewLogFile \/ Stop \/ Join
         \/ LogcatWrites \/ LogcatEnds \/ Tick \/ ProcessEnds
  PROVE  LogInv'
<1> USE LogAssumption DEF LogInv, RequestInv, LengthInv, WriterInv, Finish,
        flags, files, pipe, life, FileOpen, NoRequest
<1>1. CASE Start
  BY <1>1 DEF Start
<1>2. CASE StartNewLogFile
  BY <1>2 DEF StartNewLogFile
<1>3. CASE Stop
  BY <1>3 DEF Stop, InnerLoopFlag
<1>4. CASE Join
  BY <1>4 DEF Join, WriterGone
<1>5. CASE LogcatWrites
  BY <1>5 DEF LogcatWrites
<1>6. CASE LogcatEnds
  BY <1>6 DEF LogcatEnds
<1>7. CASE Tick
  BY <1>7 DEF Tick
<1>8. CASE ProcessEnds
  BY <1>8 DEF ProcessEnds
<1>9. QED
  BY <1>1, <1>2, <1>3, <1>4, <1>5, <1>6, <1>7, <1>8

\* LogInv holds in every reachable state.
THEOREM LogInvariant == LogSpec => []LogInv
<1>1. LogInit => LogInv
  BY LogInitEstablishesInv
<1>2. LogInv /\ [LogNext]_logVars => LogInv'
  <2> SUFFICES ASSUME LogInv, [LogNext]_logVars
               PROVE  LogInv'
    OBVIOUS
  <2>1. CASE LogNext
    BY <2>1, WriterKeepsInv, OthersKeepInv DEF LogNext
  <2>2. CASE UNCHANGED logVars
    BY <2>2 DEF LogInv, RequestInv, LengthInv, WriterInv, FileOpen, logVars,
       flags, files, pipe, life
  <2>3. QED
    BY <2>1, <2>2
<1>3. QED
  BY <1>1, <1>2, PTL DEF LogSpec

-----------------------------------------------------------------------------
(***************************************************************************)
(* The list of files.                                                      *)
(***************************************************************************)
LEMMA EmptyList == FilesOf({}) = {} /\ Cardinality({}) = 0 /\ IsFiniteSet({})
BY FS_EmptySet DEF FilesOf

\* There are no more files than entries.
LEMMA FilesOfIsSmaller ==
  ASSUME NEW S, IsFiniteSet(S)
  PROVE  IsFiniteSet(FilesOf(S)) /\ Cardinality(FilesOf(S)) <= Cardinality(S)
<1> DEFINE file == [e \in S |-> e.file]
<1>1. file \in Surjection(S, FilesOf(S))
  BY DEF Surjection, FilesOf
<1>2. QED
  BY <1>1, FS_Surjection

\* What WithFiles adds: at most one entry for each file.
LEMMA AddedEntries ==
  ASSUME LogTypeOK, NEW F \in SUBSET (0 .. MaxTime), IsFiniteSet(F)
  PROVE  /\ WithFiles(F) \subseteq [file : 0 .. MaxTime, copy : Nat \ {0}]
         /\ IsFiniteSet(WithFiles(F))
         /\ Cardinality(WithFiles(F)) <= Cardinality(logFileList) + Cardinality(F)
         /\ FilesOf(WithFiles(F)) = FilesOf(logFileList) \cup F
<1> DEFINE entry == [f \in F |-> [file |-> f, copy |-> NextCopy(f)]]
           new == {[file |-> f, copy |-> NextCopy(f)] : f \in F}
<1>1. IsFiniteSet(logFileList)
  BY DEF LogTypeOK
<1>2. \A f \in F : NextCopy(f) \in Nat \ {0}
  <2>1. SUFFICES ASSUME NEW f \in F
                 PROVE  NextCopy(f) \in Nat \ {0}
    OBVIOUS
  <2>2. {e \in logFileList : e.file = f} \in SUBSET logFileList
    OBVIOUS
  <2>3. IsFiniteSet({e \in logFileList : e.file = f})
    BY <1>1, <2>2, FS_Subset
  <2>4. Cardinality({e \in logFileList : e.file = f}) \in Nat
    BY <2>3, FS_CardinalityType
  <2>5. QED
    BY <2>4 DEF NextCopy
<1>3. entry \in Surjection(F, new)
  BY DEF Surjection
<1>4. IsFiniteSet(new) /\ Cardinality(new) <= Cardinality(F)
  BY <1>3, FS_Surjection
<1>5. WithFiles(F) = logFileList \cup new
  BY DEF WithFiles
<1>6. /\ IsFiniteSet(logFileList \cup new)
      /\ Cardinality(logFileList \cup new) =
           Cardinality(logFileList) + Cardinality(new)
             - Cardinality(logFileList \cap new)
  BY <1>1, <1>4, FS_Union
<1>7. Cardinality(logFileList \cap new) \in Nat
  <2>1. IsFiniteSet(logFileList \cap new)
    BY <1>1, FS_Intersection
  <2>2. QED
    BY <2>1, FS_CardinalityType
<1>8. /\ Cardinality(logFileList) \in Nat
      /\ Cardinality(new) \in Nat
      /\ Cardinality(F) \in Nat
  BY <1>1, <1>4, FS_CardinalityType
<1>9. Cardinality(WithFiles(F)) <= Cardinality(logFileList) + Cardinality(F)
  BY <1>4, <1>5, <1>6, <1>7, <1>8
<1>10. WithFiles(F) \subseteq [file : 0 .. MaxTime, copy : Nat \ {0}]
  BY <1>2, <1>5 DEF LogTypeOK
<1>11. FilesOf(WithFiles(F)) = FilesOf(logFileList) \cup F
  <2>1. FilesOf(new) = F
    <3>1. \A f \in F : [file |-> f, copy |-> NextCopy(f)].file = f
      OBVIOUS
    <3>2. \A f \in F : f \in FilesOf(new)
      BY <3>1 DEF FilesOf
    <3>3. \A f \in FilesOf(new) : f \in F
      BY <3>1 DEF FilesOf
    <3>4. QED
      BY <3>2, <3>3
  <2>2. FilesOf(logFileList \cup new) = FilesOf(logFileList) \cup FilesOf(new)
    BY DEF FilesOf
  <2>3. QED
    BY <1>5, <2>1, <2>2
<1>12. QED
  BY <1>5, <1>6, <1>9, <1>10, <1>11

\* A directory all of whose files are listed is no larger than the list.
LEMMA ListBoundsDirectory ==
  ASSUME NEW S, IsFiniteSet(S), NEW D, D \subseteq FilesOf(S)
  PROVE  IsFiniteSet(D) /\ Cardinality(D) <= Cardinality(S)
<1>1. IsFiniteSet(FilesOf(S)) /\ Cardinality(FilesOf(S)) <= Cardinality(S)
  BY FilesOfIsSmaller
<1>2. IsFiniteSet(D) /\ Cardinality(D) <= Cardinality(FilesOf(S))
  BY <1>1, FS_Subset
<1>3. /\ Cardinality(S) \in Nat /\ Cardinality(FilesOf(S)) \in Nat
      /\ Cardinality(D) \in Nat
  BY <1>1, <1>2, FS_CardinalityType
<1>4. QED
  BY <1>1, <1>2, <1>3

\* trimFile deletes the oldest files and forgets none that it leaves; a list
\* that is one entry too long loses one.
LEMMA TrimIsFair ==
  ASSUME LogTypeOK, dir \subseteq FilesOf(logFileList), TrimFile
  PROVE  /\ logFileList' \subseteq logFileList
         /\ dir' \subseteq dir
         /\ dir' \subseteq FilesOf(logFileList)'
         /\ \A f \in dir \ dir', g \in dir' : f < g
         /\ Cardinality(logFileList) <= MaxFiles + 1 =>
                Cardinality(logFileList') <= MaxFiles
<1>1. PICK gone \in SUBSET logFileList :
          /\ Cardinality(gone) = Surplus
          /\ \A e \in gone, g \in logFileList \ gone : Older(e, g)
          /\ logFileList' = logFileList \ gone
          /\ dir' = dir \ FilesOf(gone)
  BY DEF TrimFile
<1>2. ASSUME NEW g \in dir'
      PROVE  \E e \in logFileList' : e.file = g
  BY <1>1 DEF FilesOf
<1>3. ASSUME NEW f \in dir \ dir', NEW g \in dir'
      PROVE  f < g
  <2>1. PICK e \in gone : e.file = f
    BY <1>1 DEF FilesOf
  <2>2. PICK k \in logFileList \ gone : k.file = g
    BY <1>1, <1>2
  <2>3. Older(e, k)
    BY <1>1
  <2>4. f # g
    OBVIOUS
  <2>5. QED
    BY <2>1, <2>2, <2>3, <2>4 DEF Older
<1>4. ASSUME Cardinality(logFileList) <= MaxFiles + 1
      PROVE  Cardinality(logFileList') <= MaxFiles
  <2>1. IsFiniteSet(logFileList) /\ Cardinality(logFileList) \in Nat
    BY FS_CardinalityType DEF LogTypeOK
  <2>2. Cardinality(logFileList') = Cardinality(logFileList) - Surplus
    <3>1. logFileList \cap gone = gone
      OBVIOUS
    <3>2. QED
      BY <1>1, <2>1, <3>1, FS_Difference
  <2>3. CASE Cardinality(logFileList) <= MaxFiles
    <3>1. Surplus = 0
      BY <2>1, <2>3, LogAssumption DEF Surplus
    <3>2. QED
      BY <2>1, <2>2, <2>3, <3>1
  <2>4. CASE Cardinality(logFileList) = MaxFiles + 1
    <3>1. Surplus = 1
      <4>1. (MaxFiles + 1 - MaxFiles + 1) \div 2 = 1
        BY LogAssumption
      <4>2. MaxFiles + 1 > MaxFiles
        BY LogAssumption
      <4>3. Surplus = IF MaxFiles + 1 > MaxFiles
                        THEN (MaxFiles + 1 - MaxFiles + 1) \div 2 ELSE 0
        BY <2>4, LogAssumption DEF Surplus
      <4>4. QED
        BY <4>1, <4>2, <4>3
    <3>2. QED
      BY <2>1, <2>2, <2>4, <3>1, LogAssumption
  <2>5. QED
    BY <1>4, <2>1, <2>3, <2>4, LogAssumption
<1>5. QED
  BY <1>1, <1>2, <1>3, <1>4 DEF FilesOf

-----------------------------------------------------------------------------
(***************************************************************************)
(* FilesInv is inductive.                                                  *)
(***************************************************************************)
LEMMA FilesInitEstablishesInv == LogInit => FilesInv
<1> SUFFICES ASSUME LogInit
             PROVE  FilesInv
  OBVIOUS
<1>1. LogTypeOK
  <2>1. IsFiniteSet(logFileList)
    BY EmptyList DEF LogInit
  <2>2. after \in 0 .. NoRequest /\ length \in 0 .. MaxLength + 1
    BY LogAssumption DEF LogInit, NoRequest
  <2>3. logFileList \subseteq [file : 0 .. MaxTime, copy : Nat \ {0}]
    BY DEF LogInit
  <2>4. dir \subseteq 0 .. MaxTime /\ clock \in 0 .. MaxTime
    BY LogAssumption DEF LogInit
  <2>5. /\ writeThreadRunFlag \in BOOLEAN /\ writeLogFileFlag \in BOOLEAN
        /\ newLogFileFlag \in BOOLEAN
        /\ line \in BOOLEAN /\ ended \in BOOLEAN /\ restarted \in BOOLEAN
    BY DEF LogInit
  <2>6. /\ starts \in 0 .. MaxStarts /\ at \in Labels
        /\ user \in {"stopped", "started", "stopping", "joining"}
    BY LogAssumption DEF LogInit, Labels
  <2>7. QED
    BY <2>1, <2>2, <2>3, <2>4, <2>5, <2>6 DEF LogTypeOK
<1>2. SizeInv
  BY LogAssumption, EmptyList DEF LogInit, SizeInv
<1>3. QED
  BY <1>1, <1>2 DEF LogInit, FilesInv, ListingInv

LEMMA CreateLogDirKeepsFiles ==
  ASSUME LogInv, FilesInv, CreateLogDir
  PROVE  FilesInv'
<1>1. /\ at = "start" /\ at' = "loop" /\ logFileList' = WithFiles(dir)
      /\ line' = FALSE /\ ended' = FALSE
      /\ UNCHANGED <<flags, dir, clock, length, user, starts, restarted, after>>
  BY DEF CreateLogDir, Move, Listed, life
<1>2. dir \subseteq 0 .. MaxTime /\ IsFiniteSet(dir)
  <2>1. dir \subseteq 0 .. MaxTime
    BY DEF FilesInv, LogTypeOK
  <2>2. IsFiniteSet(0 .. MaxTime)
    BY FS_Interval, LogAssumption
  <2>3. QED
    BY <2>1, <2>2, FS_Subset
<1>3. /\ WithFiles(dir) \subseteq [file : 0 .. MaxTime, copy : Nat \ {0}]
      /\ IsFiniteSet(WithFiles(dir))
      /\ Cardinality(WithFiles(dir)) <= Cardinality(logFileList) + Cardinality(dir)
      /\ FilesOf(WithFiles(dir)) = FilesOf(logFileList) \cup dir
  BY <1>2, AddedEntries DEF FilesInv
<1>4. LogTypeOK'
  BY <1>1, <1>3 DEF FilesInv, LogTypeOK, Labels, flags, NoRequest
<1>5. ListingInv'
  BY <1>1, <1>3 DEF ListingInv
<1>6. SizeInv'
  <2>1. SUFFICES ASSUME ~restarted
                 PROVE  /\ Cardinality(dir) <= MaxFiles + 1
                        /\ Cardinality(WithFiles(dir)) <= MaxFiles + 1
                        /\ starts # 0
    BY <1>1 DEF SizeInv
  <2>2. logFileList = {} /\ Cardinality(dir) <= MaxFiles + 1 /\ starts # 0
    BY <1>1, <2>1 DEF FilesInv, SizeInv, LogInv, WriterInv
  <2>3. Cardinality(WithFiles(dir)) <= Cardinality(dir)
    BY <1>2, <1>3, <2>2, EmptyList, FS_CardinalityType
  <2>4. /\ Cardinality(WithFiles(dir)) \in Nat
        /\ Cardinality(dir) \in Nat
    BY <1>2, <1>3, FS_CardinalityType
  <2>5. QED
    BY <2>2, <2>3, <2>4, LogAssumption
<1>7. QED
  BY <1>4, <1>5, <1>6 DEF FilesInv

LEMMA NextFileKeepsFiles ==
  ASSUME FilesInv, NextFile
  PROVE  FilesInv'
<1>1. UNCHANGED <<flags, clock, length, user, starts, restarted, after>> /\ at = "loop"
  BY DEF NextFile, life
<1>2. dir \subseteq FilesOf(logFileList)
  BY <1>1 DEF FilesInv, ListingInv
<1>3. CASE writeThreadRunFlag
  <2>1. at' = "create" /\ TrimFile /\ UNCHANGED <<line, ended>>
    BY <1>3 DEF NextFile, pipe
  <2>2. /\ logFileList' \subseteq logFileList
        /\ dir' \subseteq dir
        /\ dir' \subseteq FilesOf(logFileList)'
        /\ Cardinality(logFileList) <= MaxFiles + 1 =>
               Cardinality(logFileList') <= MaxFiles
    BY <1>2, <2>1, TrimIsFair DEF FilesInv
  <2>3. IsFiniteSet(logFileList')
    BY <2>2, FS_Subset DEF FilesInv, LogTypeOK
  <2>4. LogTypeOK'
    BY <1>1, <2>1, <2>2, <2>3 DEF FilesInv, LogTypeOK, flags, Labels, NoRequest
  <2>5. ListingInv'
    BY <2>2 DEF ListingInv
  <2>6. SizeInv'
    <3>1. SUFFICES ASSUME ~restarted
                   PROVE  /\ Cardinality(dir') <= MaxFiles + 1
                          /\ Cardinality(logFileList') <= MaxFiles
                          /\ Cardinality(logFileList') <= MaxFiles + 1
                          /\ starts = 0 => logFileList' = {}
      BY <1>1, <2>1 DEF SizeInv
    <3>2. Cardinality(logFileList') <= MaxFiles
      BY <2>2, <3>1 DEF FilesInv, SizeInv
    <3>3. IsFiniteSet(dir') /\ Cardinality(dir') <= Cardinality(logFileList')
      BY <2>2, <2>3, ListBoundsDirectory
    <3>4. Cardinality(dir') \in Nat /\ Cardinality(logFileList') \in Nat
      BY <2>3, <3>3, FS_CardinalityType
    <3>5. starts = 0 => logFileList' = {}
      BY <2>2, <3>1 DEF FilesInv, SizeInv
    <3>6. QED
      BY <3>2, <3>3, <3>4, <3>5, LogAssumption
  <2>7. QED
    BY <2>4, <2>5, <2>6 DEF FilesInv
<1>4. CASE ~writeThreadRunFlag
  <2>1. /\ at' = "none" /\ line' = FALSE /\ ended' = FALSE
        /\ UNCHANGED <<logFileList, dir>>
    BY <1>4 DEF NextFile, Finish
  <2>2. QED
    BY <1>1, <2>1
    DEF FilesInv, LogTypeOK, ListingInv, SizeInv, flags, Labels, NoRequest
<1>5. QED
  BY <1>3, <1>4

LEMMA CreateFileKeepsFiles ==
  ASSUME LogInv, FilesInv, CreateFile
  PROVE  FilesInv'
<1>1. /\ at = "create" /\ at' = "test" /\ logFileList' = WithFiles({clock})
      /\ dir' = dir \cup {clock} /\ length' = 0 /\ after' = NoRequest
      /\ UNCHANGED <<flags, clock, line, ended, user, starts, restarted>>
  BY DEF CreateFile, Move, pipe, life
<1>2. clock \in 0 .. MaxTime
  BY DEF FilesInv, LogTypeOK
<1>3. IsFiniteSet({clock}) /\ Cardinality({clock}) = 1
  BY FS_Singleton
<1>4. /\ WithFiles({clock}) \subseteq [file : 0 .. MaxTime, copy : Nat \ {0}]
      /\ IsFiniteSet(WithFiles({clock}))
      /\ Cardinality(WithFiles({clock})) <= Cardinality(logFileList) + 1
      /\ FilesOf(WithFiles({clock})) = FilesOf(logFileList) \cup {clock}
  BY <1>2, <1>3, AddedEntries DEF FilesInv
<1>5. LogTypeOK'
  BY <1>1, <1>2, <1>4, LogAssumption
  DEF FilesInv, LogTypeOK, Labels, flags, NoRequest
<1>6. dir' \subseteq FilesOf(logFileList')
  BY <1>1, <1>4 DEF FilesInv, ListingInv
<1>7. ListingInv'
  BY <1>6 DEF ListingInv
<1>8. SizeInv'
  <2>1. SUFFICES ASSUME ~restarted
                 PROVE  /\ Cardinality(dir') <= MaxFiles + 1
                        /\ Cardinality(logFileList') <= MaxFiles + 1
                        /\ starts # 0
    BY <1>1 DEF SizeInv
  <2>2. Cardinality(logFileList) <= MaxFiles
    BY <1>1, <2>1 DEF FilesInv, SizeInv
  <2>3. IsFiniteSet(dir') /\ Cardinality(dir') <= Cardinality(logFileList')
    BY <1>1, <1>4, <1>6, ListBoundsDirectory
  <2>4. /\ Cardinality(dir') \in Nat /\ Cardinality(logFileList') \in Nat
        /\ Cardinality(logFileList) \in Nat
    BY <1>1, <1>4, <2>3, FS_CardinalityType DEF FilesInv, LogTypeOK
  <2>5. starts # 0
    BY <1>1 DEF LogInv, WriterInv
  <2>6. QED
    BY <1>1, <1>4, <2>2, <2>3, <2>4, <2>5, LogAssumption
<1>9. QED
  BY <1>5, <1>7, <1>8 DEF FilesInv

\* The other steps of the writer leave the list and the directory alone.
LEMMA WritingKeepsFiles ==
  ASSUME LogInv, LogInv', FilesInv,
         \/ TestFlags \/ ReadLine \/ ReadEnd \/ CloseFile \/ Report \/ WriterFails
         \/ \E own \in BOOLEAN : WriteLine(own)
  PROVE  FilesInv'
<1> USE LogAssumption DEF FilesInv, LogTypeOK, ListingInv, SizeInv, Move, Finish,
        flags, files, pipe, life, Labels
<1>1. CASE TestFlags
  BY <1>1 DEF TestFlags
<1>2. CASE ReadLine
  BY <1>2 DEF ReadLine
<1>3. CASE ReadEnd
  BY <1>3 DEF ReadEnd
<1>4. CASE CloseFile
  BY <1>4 DEF CloseFile
<1>5. CASE Report
  BY <1>5 DEF Report
<1>6. CASE WriterFails
  BY <1>6 DEF WriterFails
<1>7. ASSUME NEW own \in BOOLEAN, WriteLine(own)
      PROVE  FilesInv'
  <2>1. length' \in 0 .. MaxLength + 1 /\ after' \in 0 .. NoRequest
    BY DEF LogInv, LengthInv, RequestInv, NoRequest
  <2>2. QED
    BY <1>7, <2>1 DEF WriteLine
<1>8. QED
  BY <1>1, <1>2, <1>3, <1>4, <1>5, <1>6, <1>7

\* So do the user, logcat and the clock; the end of the process takes the list.
LEMMA OthersKeepFiles ==
  ASSUME LogInv, FilesInv,
         \/ Start \/ StartNewLogFile \/ Stop \/ Join
         \/ LogcatWrites \/ LogcatEnds \/ Tick \/ ProcessEnds
  PROVE  FilesInv'
<1> USE LogAssumption DEF FilesInv, LogTypeOK, ListingInv, SizeInv, Finish,
        flags, files, pipe, life, Labels
<1>1. CASE Start
  <2>1. LogTypeOK'
    BY <1>1 DEF Start
  <2>2. ListingInv' /\ SizeInv'
    BY <1>1 DEF Start, LogInv, WriterInv
  <2>3. QED
    BY <2>1, <2>2
<1>2. CASE StartNewLogFile
  BY <1>2 DEF StartNewLogFile, NoRequest
<1>3. CASE Stop
  BY <1>3 DEF Stop, InnerLoopFlag
<1>4. CASE Join
  BY <1>4 DEF Join
<1>5. CASE LogcatWrites
  BY <1>5 DEF LogcatWrites
<1>6. CASE LogcatEnds
  BY <1>6 DEF LogcatEnds
<1>7. CASE Tick
  BY <1>7 DEF Tick
<1>8. CASE ProcessEnds
  <2>1. LogTypeOK'
    <3>1. IsFiniteSet(logFileList')
      BY <1>8, EmptyList DEF ProcessEnds
    <3>2. after' \in 0 .. NoRequest
      BY <1>8 DEF ProcessEnds, NoRequest
    <3>3. logFileList' \subseteq [file : 0 .. MaxTime, copy : Nat \ {0}]
      BY <1>8 DEF ProcessEnds
    <3>4. dir' \subseteq 0 .. MaxTime /\ clock' \in 0 .. MaxTime
      BY <1>8 DEF ProcessEnds
    <3>5. /\ writeThreadRunFlag' \in BOOLEAN /\ writeLogFileFlag' \in BOOLEAN
          /\ newLogFileFlag' \in BOOLEAN
          /\ line' \in BOOLEAN /\ ended' \in BOOLEAN /\ restarted' \in BOOLEAN
      BY <1>8 DEF ProcessEnds
    <3>6. /\ length' \in 0 .. MaxLength + 1 /\ starts' \in 0 .. MaxStarts
          /\ at' \in Labels /\ user' \in {"stopped", "started", "stopping", "joining"}
      BY <1>8 DEF ProcessEnds
    <3>7. QED
      BY <3>1, <3>2, <3>3, <3>4, <3>5, <3>6
  <2>2. ListingInv' /\ SizeInv'
    BY <1>8, EmptyList DEF ProcessEnds
  <2>3. QED
    BY <2>1, <2>2
<1>9. QED
  BY <1>1, <1>2, <1>3, <1>4, <1>5, <1>6, <1>7, <1>8

\* LogInv says where the writer can be, FilesInv what it knows then.
THEOREM FilesInvariant == LogSpec => []FilesInv
<1>1. LogInit => FilesInv
  BY FilesInitEstablishesInv
<1>2. LogInv /\ LogInv' /\ FilesInv /\ [LogNext]_logVars => FilesInv'
  <2> SUFFICES ASSUME LogInv, LogInv', FilesInv, [LogNext]_logVars
               PROVE  FilesInv'
    OBVIOUS
  <2>1. CASE LogNext
    BY <2>1, CreateLogDirKeepsFiles, NextFileKeepsFiles, CreateFileKeepsFiles,
       WritingKeepsFiles, OthersKeepFiles DEF LogNext, WriterStep
  <2>2. CASE UNCHANGED logVars
    BY <2>2 DEF FilesInv, LogTypeOK, ListingInv, SizeInv, logVars, flags, files, pipe,
       life, NoRequest
  <2>3. QED
    BY <2>1, <2>2
<1>3. QED
  BY <1>1, <1>2, LogInvariant, PTL DEF LogSpec

\* Every variable keeps its type, the open file its size, and the list stays finite.
THEOREM LogTypeCorrect == LogSpec => []LogTypeOK
<1>1. FilesInv => LogTypeOK
  BY DEF FilesInv
<1>2. QED
  BY <1>1, FilesInvariant, PTL

\* The directory holds at most one file more than the maximum, over any number
\* of ends of the process, as long as none starts the writer twice.
THEOREM DirectoryStaysBounded == LogSpec => []DirectoryIsBounded
<1>1. FilesInv => DirectoryIsBounded
  BY DEF FilesInv, SizeInv, DirectoryIsBounded
<1>2. QED
  BY <1>1, FilesInvariant, PTL

\* No file of the directory is unknown to the writer once it has begun, so none
\* escapes trimFile, whoever wrote it.
THEOREM NoFileIsForgotten ==
  LogSpec => [](at \notin {"none", "start"} => dir \subseteq FilesOf(logFileList))
<1>1. FilesInv => (at \notin {"none", "start"} => dir \subseteq FilesOf(logFileList))
  BY DEF FilesInv, ListingInv
<1>2. QED
  BY <1>1, FilesInvariant, PTL

\* Files are deleted from the oldest on, and none while one is open, over any
\* number of starts and ends of the process.
THEOREM OldestFilesGoFirst == LogSpec => OldestGoesFirst
<1>1. ASSUME FilesInv, [LogNext]_logVars
      PROVE  [/\ \A f \in dir \ dir' : \A g \in dir' : f < g
              /\ FileOpen => dir \subseteq dir']_logVars
  <2>1. CASE NextFile
    <3>1. at = "loop" /\ dir \subseteq FilesOf(logFileList)
      BY <1>1, <2>1 DEF NextFile, FilesInv, ListingInv
    <3>2. CASE TrimFile
      BY <1>1, <3>1, <3>2, TrimIsFair DEF FilesInv, FileOpen
    <3>3. CASE dir' = dir
      BY <3>1, <3>3 DEF FileOpen
    <3>4. QED
      BY <2>1, <3>2, <3>3 DEF NextFile
  <2>2. CASE ~NextFile
    <3>1. dir \subseteq dir'
      BY <1>1, <2>2
      DEF LogNext, WriterStep, WriterFails, CreateLogDir, CreateFile, TestFlags, ReadLine,
          ReadEnd, WriteLine, CloseFile, Report, Start, StartNewLogFile, Stop, Join,
          LogcatWrites, LogcatEnds, Tick, ProcessEnds, files, logVars
    <3>2. QED
      BY <3>1
  <2>3. QED
    BY <2>1, <2>2
<1>2. QED
  BY <1>1, FilesInvariant, PTL DEF LogSpec, OldestGoesFirst

-----------------------------------------------------------------------------
\* A request for a new file, at whatever moment it comes, lets at most the line
\* being read go into the old file.
THEOREM RequestsAreHonoured == LogSpec => []RequestIsHonoured
<1>1. LogInv => RequestIsHonoured
  BY DEF LogInv, RequestInv, RequestIsHonoured
<1>2. QED
  BY <1>1, LogInvariant, PTL

\* No file grows past one line more than the maximum: it is measured before a line
\* is written, never after.
THEOREM FilesAreBounded == LogSpec => [](length <= MaxLength + 1)
<1>1. LogInv => length <= MaxLength + 1
  BY LogAssumption DEF LogInv, LengthInv
<1>2. QED
  BY <1>1, LogInvariant, PTL

\* When stop has returned the writer is gone, and with it its callback: however
\* it ended, and whether or not the process was ended and started anew meanwhile.
THEOREM StoppedWriterIsGone == LogSpec => [](user = "stopped" => at = "none")
<1>1. LogInv => (user = "stopped" => at = "none")
  BY DEF LogInv, WriterInv
<1>2. QED
  BY <1>1, LogInvariant, PTL
=============================================================================
