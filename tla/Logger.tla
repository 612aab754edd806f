------------------------------ MODULE Logger ------------------------------
(***************************************************************************)
(* The log files of a Logger with log_to_file (src/utilities/logger.cpp),  *)
(* over the runs of the program that share the log directory.  Each system *)
(* call is a step, because the process may be killed between two.  Only    *)
(* the main thread logs.  A line is a number; what it says is left out.    *)
(***************************************************************************)
EXTENDS Naturals, FiniteSets

CONSTANTS
    MaxFiles,  \* max_log_files
    MaxLines,  \* max_log_line_num
    MaxClock,  \* bound on the clock, in seconds
    MaxLogged, \* bound on the lines ever logged
    MaxFaults  \* bound on the system calls that fail and the kills

ASSUME LimitsAssumption == MaxFiles \in Nat \ {0} /\ MaxLines \in Nat \ {0}
ASSUME BoundsAssumption ==
    MaxClock \in Nat \ {0} /\ MaxLogged \in Nat /\ MaxFaults \in Nat

VARIABLES
    dir,       \* the log directory: the lines of each file
    pc,        \* where the program is: gone, idle (between two calls), or in
               \* a call at list, remove (fopen included), rename or write
    pending,   \* a line waits for the rotation to end
    toRemove,  \* files that RemoveLogs has still to remove
    toFile,    \* write_to_file_m
    file,      \* file_m is open (on log.txt)
    lineCount, \* line_count_m
    fileCount, \* file_count_m
    clock,     \* the time, in seconds
    logged,    \* the last line logged
    faults,    \* calls that failed, and kills: for the bound only
    dropped,   \* the lines that were in log.txt when it was not renamed
    unwritten, \* the lines whose fputs or fflush failed
    orderly,   \* every log was stored later, by the clock, than those stored
               \* before it, and no removal failed
    complete,  \* the last listing, and each removal after it, succeeded
    missed     \* log.txt files opened since the last one that a complete
               \* removal made room for

envVars == <<clock, logged, faults, dropped, unwritten, orderly, complete,
             missed>>
vars == <<dir, pc, pending, toRemove, toFile, file, lineCount, fileCount,
          envVars>>

\* A stored log is named by its time and file_count_m.
LogTxt == <<0, 0>>
Names  == (0..MaxClock) \X (0..MaxFiles - 1)
Files  == DOMAIN dir

\* Mutant: names are ordered by the counter in them.
BeforeByCount(f, g) == f[2] < g[2] \/ (f[2] = g[2] /\ f[1] < g[1])

\* The order of std::set on the names: "log.txt" is before "log_...".
Before(f, g) == f[1] < g[1] \/ (f[1] = g[1] /\ f[2] < g[2])

Fault == faults < MaxFaults /\ faults' = faults + 1

Init ==
    /\ dir = [f \in {} |-> {}]
    /\ pc = "gone" /\ pending = FALSE /\ toRemove = {}
    /\ toFile = FALSE /\ file = FALSE /\ lineCount = 0 /\ fileCount = 0
    /\ clock = 1 /\ logged = 0 /\ faults = 0
    /\ dropped = {} /\ unwritten = {} /\ orderly = TRUE
    /\ complete = FALSE /\ missed = 0

\* The constructor.
Start ==
    /\ pc = "gone" /\ pc' = "list"
    /\ toFile' = TRUE /\ file' = FALSE /\ lineCount' = 0 /\ fileCount' = 0
    /\ UNCHANGED <<dir, pending, toRemove, envVars>>

\* Mutant: one file too many stays.
ExcessKept(n) == IF n > MaxFiles THEN n - MaxFiles ELSE 0

\* Mutant: the new file is counted twice.
ExcessTwice(n) == IF n + 2 > MaxFiles THEN n + 2 - MaxFiles ELSE 0

\* num_files_to_remove: the difference wraps, and is negative as an int.
Excess(n) == IF n + 1 > MaxFiles THEN n + 1 - MaxFiles ELSE 0

\* RemoveLogs reads the directory, if opendir succeeds.
ListLogs ==
    /\ pc = "list" /\ pc' = "remove"
    /\ \/ /\ toRemove' \in SUBSET Files
          /\ Cardinality(toRemove') = Excess(Cardinality(Files))
          /\ \A f \in toRemove', g \in Files \ toRemove' : Before(f, g)
          /\ complete' = TRUE /\ UNCHANGED faults
       \/ Fault /\ toRemove' = {} /\ complete' = FALSE
    /\ UNCHANGED <<dir, pending, toFile, file, lineCount, fileCount, clock,
                   logged, dropped, unwritten, orderly, missed>>

\* One round of its loop: nobody looks whether remove() succeeds.
RemoveNext ==
    /\ pc = "remove"
    /\ \E f \in toRemove :
        /\ \A g \in toRemove \ {f} : Before(f, g)
        /\ toRemove' = toRemove \ {f}
        /\ \/ /\ dir' = [g \in Files \ {f} |-> dir[g]]
              /\ UNCHANGED <<faults, orderly, complete>>
           \/ Fault /\ orderly' = FALSE /\ complete' = FALSE /\ UNCHANGED dir
    /\ UNCHANGED <<pc, pending, toFile, file, lineCount, fileCount, clock,
                   logged, dropped, unwritten, missed>>

\* Mutant: a new file takes over the count of lines of the last one.
OpenLogCounting ==
    /\ pc = "remove" /\ toRemove = {}
    /\ dir' = [f \in Files \cup {LogTxt} |-> IF f = LogTxt THEN {} ELSE dir[f]]
    /\ file' = TRUE /\ fileCount' = (fileCount + 1) % MaxFiles
    /\ pc' = IF pending THEN "write" ELSE "idle"
    /\ UNCHANGED <<pending, toRemove, toFile, lineCount, envVars>>

\* Mutant: file_count_m grows for ever.
OpenLogNoModulo ==
    /\ pc = "remove" /\ toRemove = {}
    /\ dir' = [f \in Files \cup {LogTxt} |-> IF f = LogTxt THEN {} ELSE dir[f]]
    /\ file' = TRUE /\ fileCount' = fileCount + 1 /\ lineCount' = 0
    /\ pc' = IF pending THEN "write" ELSE "idle"
    /\ UNCHANGED <<pending, toRemove, toFile, envVars>>

\* fopen(log.txt, "w+") and the end of CreateLogFile.
OpenLog ==
    /\ pc = "remove" /\ toRemove = {}
    /\ pc' = IF pending THEN "write" ELSE "idle"
    /\ \/ /\ dir' = [f \in Files \cup {LogTxt} |->
                        IF f = LogTxt THEN {} ELSE dir[f]]
          /\ file' = TRUE /\ lineCount' = 0
          /\ fileCount' = (fileCount + 1) % MaxFiles
          /\ missed' = IF complete THEN 0 ELSE missed + 1
          /\ UNCHANGED <<toFile, faults>>
       \/ /\ Fault /\ toFile' = FALSE
          /\ UNCHANGED <<dir, file, lineCount, fileCount, missed>>
    /\ UNCHANGED <<pending, toRemove, clock, logged, dropped, unwritten,
                   orderly, complete>>

CloseLogFile == file' = FALSE

\* Log of a file that is full.
Rotate ==
    /\ pc = "idle" /\ toFile /\ lineCount >= MaxLines /\ logged < MaxLogged
    /\ pc' = "rename" /\ pending' = TRUE /\ CloseLogFile
    /\ UNCHANGED <<dir, toRemove, toFile, lineCount, fileCount, envVars>>

\* The destructor: it closes the file, and renames it if there is one.
Destroy ==
    /\ pc = "idle" /\ CloseLogFile
    /\ pc' = IF toFile THEN "rename" ELSE "gone"
    /\ UNCHANGED <<dir, pending, toRemove, toFile, lineCount, fileCount, envVars>>

\* RenameAndStoreLogFile.  rename() replaces a file of the same name.
RenameAndStore ==
    /\ pc = "rename" /\ pc' = IF pending THEN "list" ELSE "gone"
    /\ LET stored == <<clock, fileCount>> IN
       \/ /\ dir' = [f \in (Files \ {LogTxt}) \cup {stored} |->
                        IF f = stored THEN dir[LogTxt] ELSE dir[f]]
          /\ orderly' = (orderly /\ \A f \in Files : f[1] < clock)
          /\ UNCHANGED <<faults, dropped>>
       \/ /\ Fault /\ dropped' = dropped \cup dir[LogTxt]
          /\ UNCHANGED <<dir, orderly>>
    /\ UNCHANGED <<pending, toRemove, toFile, file, lineCount, fileCount,
                   clock, logged, unwritten, complete, missed>>

\* Log, with a file that is not full.  Nobody looks whether fputs and fflush
\* succeed (a full disk): the line is counted either way.
LogLine ==
    /\ \/ pc = "idle" /\ toFile /\ lineCount < MaxLines
       \/ pc = "write" /\ file
    /\ logged < MaxLogged
    /\ logged' = logged + 1
    /\ \/ /\ dir' = [dir EXCEPT ![LogTxt] = @ \cup {logged'}]
          /\ UNCHANGED <<faults, unwritten>>
       \/ Fault /\ unwritten' = unwritten \cup {logged'} /\ UNCHANGED dir
    /\ lineCount' = lineCount + 1
    /\ pc' = "idle" /\ pending' = FALSE
    /\ UNCHANGED <<toRemove, toFile, file, fileCount, clock, dropped, orderly,
                   complete, missed>>

\* A line for a file that could not be opened: fputs dies of the null file_m.
NullFile ==
    /\ pc = "write" /\ ~file
    /\ pc' = "gone" /\ pending' = FALSE
    /\ UNCHANGED <<dir, toRemove, toFile, file, lineCount, fileCount, envVars>>

\* The process is killed.
Kill ==
    /\ pc # "gone" /\ Fault
    /\ pc' = "gone" /\ pending' = FALSE /\ toRemove' = {}
    /\ dropped' = dropped \cup UNION {dir[f] : f \in Files \cap {LogTxt}}
    /\ UNCHANGED <<dir, toFile, file, lineCount, fileCount, clock, logged,
                   unwritten, orderly, complete, missed>>

\* Time goes on, or is set (SetTime).
SetClock ==
    /\ clock' \in 1..MaxClock /\ clock' # clock
    /\ UNCHANGED <<dir, pc, pending, toRemove, toFile, file, lineCount,
                   fileCount, logged, faults, dropped, unwritten, orderly,
                   complete, missed>>

Next ==
    \/ Start   \/ ListLogs       \/ RemoveNext \/ OpenLog  \/ Rotate
    \/ Destroy \/ RenameAndStore \/ LogLine    \/ NullFile \/ Kill
    \/ SetClock

Spec == Init /\ [][Next]_vars

-----------------------------------------------------------------------------
TypeOK ==
    /\ Files \subseteq Names /\ dir \in [Files -> SUBSET (1..MaxLogged)]
    /\ pc \in {"gone", "idle", "list", "remove", "rename", "write"}
    /\ toRemove \subseteq Files
    /\ pending \in BOOLEAN /\ toFile \in BOOLEAN /\ file \in BOOLEAN
    /\ lineCount \in Nat /\ fileCount \in 0..MaxFiles - 1
    /\ clock \in 1..MaxClock /\ logged \in 0..MaxLogged
    /\ faults \in 0..MaxFaults /\ missed \in Nat
    /\ dropped \subseteq 1..MaxLogged /\ unwritten \subseteq 1..MaxLogged
    /\ orderly \in BOOLEAN /\ complete \in BOOLEAN

\* The directory holds at most max_log_files files, and one more for each
\* rotation in a row that could not list the directory or not remove a file:
\* the first rotation that can makes up for all of them.  Being killed at any
\* step, a failed rename and a failed fopen add no file.
FilesBounded == Cardinality(Files) <= MaxFiles + missed

\* log.txt holds the last line_count_m lines that were logged, those that could
\* not be written left out, and never more than max_log_line_num, across
\* rotations that fail in part, kills and restarts.
CountIsLines ==
    pc = "idle" /\ toFile =>
        /\ file /\ LogTxt \in Files /\ lineCount <= MaxLines
        /\ dir[LogTxt] = (logged - lineCount + 1 .. logged) \ unwritten

Kept == UNION {dir[f] : f \in Files}

\* Rotation gives up the oldest lines first: a line that is gone is older than
\* every line that is kept, unless it could not be written or was in a log.txt
\* that a kill or a failed rename left behind.  (It needs a clock that goes
\* forward between two renamings, and removals that succeed.)
OldestGoFirst ==
    orderly =>
        \A gone \in (1..logged) \ (Kept \cup dropped \cup unwritten), kept \in Kept :
            gone < kept

\* No log is removed while there is room for it and the next log.txt, nor is one
\* that is stored overwritten while the names are in order.
RemovesOnlyExcess ==
    [][\A f \in Files \ {LogTxt} :
          \/ f \in Files' /\ (orderly' => dir'[f] = dir[f])
          \/ Cardinality(Files) >= MaxFiles]_vars
=============================================================================
