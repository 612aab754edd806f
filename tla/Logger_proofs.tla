---------------------------- MODULE Logger_proofs ----------------------------
(***************************************************************************)
(* The log directory stays bounded, the count of lines is right and the    *)
(* rotation gives up only what it must, the oldest lines first, for every  *)
(* limit, clock, number of lines and number of faults.                     *)
(***************************************************************************)
EXTENDS Logger, FiniteSetTheorems, TLAPS

\* Where the program is and what it has open.
Stages ==
    /\ pc \in {"list", "remove"} => ~file
    /\ pc \in {"list", "remove", "rename"} => toFile
    /\ pc = "rename" => LogTxt \in Files /\ ~file
    /\ pc # "remove" => toRemove = {}
    /\ pc = "write" /\ file =>
        toFile /\ LogTxt \in Files /\ dir[LogTxt] = {} /\ lineCount = 0

\* The lines in the files, and those that could not be written, were logged.
LinesLogged ==
    /\ \A f \in Files : dir[f] \subseteq 1..logged
    /\ unwritten \subseteq 1..logged

\* Room: unless the listing or a removal failed, what is still to be removed
\* makes place for the next log.txt.
Room ==
    /\ IsFiniteSet(Files)
    /\ pc = "remove" /\ complete =>
        Cardinality(Files) <= (MaxFiles - 1) + Cardinality(toRemove)
    /\ FilesBounded

LEMMA LogTxtNamed == LogTxt \in Names
  BY LimitsAssumption, BoundsAssumption DEF LogTxt, Names

LEMMA AddOne ==
    ASSUME NEW S, IsFiniteSet(S), NEW x
    PROVE  /\ IsFiniteSet(S \cup {x}) /\ Cardinality(S \cup {x}) \in Nat
           /\ Cardinality(S \cup {x}) <= Cardinality(S) + 1
<1>1. Cardinality(S) \in Nat
  BY FS_CardinalityType
<1>2. CASE x \in S
  <2>1. S \cup {x} = S
    BY <1>2
  <2>2. Cardinality(S) <= Cardinality(S) + 1
    BY <1>1
  <2> QED BY <2>1, <2>2, <1>1, Zenon
<1>3. CASE x \notin S
  BY <1>3, <1>1, FS_AddElement
<1> QED BY <1>2, <1>3

(* Types are kept by each step: a log is stored only when there is one.    *)
LEMMA TypeInductive ==
    ASSUME TypeOK, Stages, [Next]_vars
    PROVE  TypeOK'
<1>1. ASSUME Start PROVE TypeOK'
  <2>1. UNCHANGED <<dir, toRemove, dropped>>
    BY <1>1 DEF Start, envVars
  <2>6. unwritten' \subseteq 1..MaxLogged
    BY <1>1 DEF Start, TypeOK, envVars
  <2>7. pc' \in {"gone", "idle", "list", "remove", "rename", "write"}
    BY <1>1 DEF Start, TypeOK
  <2>8. /\ pending' \in BOOLEAN /\ toFile' \in BOOLEAN /\ file' \in BOOLEAN
        /\ orderly' \in BOOLEAN /\ complete' \in BOOLEAN
    BY <1>1 DEF Start, TypeOK, envVars
  <2>9. /\ lineCount' \in Nat /\ fileCount' \in 0..MaxFiles - 1
        /\ clock' \in 1..MaxClock /\ logged' \in 0..MaxLogged
        /\ faults' \in 0..MaxFaults /\ missed' \in Nat
    BY <1>1, LimitsAssumption, BoundsAssumption DEF Start, TypeOK, Fault, envVars
  <2> QED BY <2>1, <2>6, <2>7, <2>8, <2>9 DEF TypeOK, Files
<1>2. ASSUME ListLogs PROVE TypeOK'
  <2>1. UNCHANGED <<dir, dropped, unwritten>> /\ toRemove' \subseteq Files
    BY <1>2 DEF ListLogs
  <2>7. pc' \in {"gone", "idle", "list", "remove", "rename", "write"}
    BY <1>2 DEF ListLogs
  <2>8. /\ pending' \in BOOLEAN /\ toFile' \in BOOLEAN /\ file' \in BOOLEAN
        /\ orderly' \in BOOLEAN /\ complete' \in BOOLEAN
    BY <1>2 DEF ListLogs, TypeOK
  <2>9. /\ lineCount' \in Nat /\ fileCount' \in 0..MaxFiles - 1
        /\ clock' \in 1..MaxClock /\ logged' \in 0..MaxLogged
        /\ faults' \in 0..MaxFaults /\ missed' \in Nat
    BY <1>2, LimitsAssumption, BoundsAssumption DEF ListLogs, TypeOK, Fault
  <2> QED BY <2>1, <2>7, <2>8, <2>9 DEF TypeOK, Files
<1>3. ASSUME RemoveNext PROVE TypeOK'
  <2>1. PICK f \in toRemove :
           /\ toRemove' = toRemove \ {f}
           /\ dir' = [g \in Files \ {f} |-> dir[g]] \/ dir' = dir
    BY <1>3 DEF RemoveNext
  <2>2. /\ Files' \subseteq Names /\ dir' \in [Files' -> SUBSET (1..MaxLogged)]
        /\ toRemove' \subseteq Files'
    BY <2>1 DEF TypeOK, Files
  <2>3. dropped' \subseteq 1..MaxLogged
    BY <1>3 DEF RemoveNext, TypeOK
  <2>6. unwritten' \subseteq 1..MaxLogged
    BY <1>3 DEF RemoveNext, TypeOK
  <2>7. pc' \in {"gone", "idle", "list", "remove", "rename", "write"}
    BY <1>3 DEF RemoveNext, TypeOK
  <2>8. /\ pending' \in BOOLEAN /\ toFile' \in BOOLEAN /\ file' \in BOOLEAN
        /\ orderly' \in BOOLEAN /\ complete' \in BOOLEAN
    BY <1>3 DEF RemoveNext, TypeOK, envVars
  <2>9. /\ lineCount' \in Nat /\ fileCount' \in 0..MaxFiles - 1
        /\ clock' \in 1..MaxClock /\ logged' \in 0..MaxLogged
        /\ faults' \in 0..MaxFaults /\ missed' \in Nat
    BY <1>3, LimitsAssumption, BoundsAssumption DEF RemoveNext, TypeOK, Fault, envVars
  <2> QED BY <2>2, <2>3, <2>6, <2>7, <2>8, <2>9 DEF TypeOK
<1>4. ASSUME OpenLog PROVE TypeOK'
  <2>1. \/ UNCHANGED dir
        \/ dir' = [f \in Files \cup {LogTxt} |->
                      IF f = LogTxt THEN {} ELSE dir[f]]
    BY <1>4 DEF OpenLog
  <2>2. Files' \subseteq Names /\ dir' \in [Files' -> SUBSET (1..MaxLogged)]
    BY <2>1, LogTxtNamed DEF TypeOK, Files
  <2>3. toRemove' \subseteq Files' /\ dropped' \subseteq 1..MaxLogged
    BY <1>4 DEF OpenLog, TypeOK
  <2>6. unwritten' \subseteq 1..MaxLogged
    BY <1>4 DEF OpenLog, TypeOK
  <2>7. pc' \in {"gone", "idle", "list", "remove", "rename", "write"}
    BY <1>4 DEF OpenLog, TypeOK
  <2>8. /\ pending' \in BOOLEAN /\ toFile' \in BOOLEAN /\ file' \in BOOLEAN
        /\ orderly' \in BOOLEAN /\ complete' \in BOOLEAN
    BY <1>4 DEF OpenLog, TypeOK, envVars
  <2>9. /\ lineCount' \in Nat /\ fileCount' \in 0..MaxFiles - 1
        /\ clock' \in 1..MaxClock /\ logged' \in 0..MaxLogged
        /\ faults' \in 0..MaxFaults /\ missed' \in Nat
    BY <1>4, LimitsAssumption, BoundsAssumption DEF OpenLog, TypeOK, Fault, envVars
  <2> QED BY <2>2, <2>3, <2>6, <2>7, <2>8, <2>9 DEF TypeOK
<1>5. ASSUME Rotate PROVE TypeOK'
  BY <1>5, LimitsAssumption, BoundsAssumption DEF Rotate, CloseLogFile, TypeOK, Stages, Files, Names, LogTxt, Fault, envVars
<1>6. ASSUME Destroy PROVE TypeOK'
  BY <1>6, LimitsAssumption, BoundsAssumption DEF Destroy, CloseLogFile, TypeOK, Stages, Files, Names, LogTxt, Fault, envVars
<1>7. ASSUME RenameAndStore PROVE TypeOK'
  <2>1. LogTxt \in Files /\ toRemove' = toRemove /\ pc = "rename"
    BY <1>7 DEF RenameAndStore, Stages
  <2>2. <<clock, fileCount>> \in Names
    BY BoundsAssumption, LimitsAssumption DEF TypeOK, Names
  <2>3. /\ Files' \subseteq Names /\ dir' \in [Files' -> SUBSET (1..MaxLogged)]
    <3>1. CASE UNCHANGED dir
      BY <3>1 DEF TypeOK, Files
    <3>2. CASE dir' = [f \in (Files \ {LogTxt}) \cup {<<clock, fileCount>>} |->
                 IF f = <<clock, fileCount>> THEN dir[LogTxt] ELSE dir[f]]
      <4> DEFINE stored == <<clock, fileCount>>
      <4>1. Files' = (Files \ {LogTxt}) \cup {stored}
        BY <3>2 DEF Files
      <4>2. \A f \in Files' : dir'[f] = IF f = stored THEN dir[LogTxt] ELSE dir[f]
        BY <3>2, <4>1
      <4>3. \A f \in Files' : dir'[f] \in SUBSET (1..MaxLogged)
        BY <4>1, <4>2, <2>1 DEF TypeOK
      <4> HIDE DEF stored
      <4>4. dir' = [f \in Files' |-> dir'[f]]
        BY <3>2, <4>1 DEF stored
      <4> QED BY <4>1, <4>3, <4>4, <2>2 DEF TypeOK, stored
    <3> QED BY <1>7, <3>1, <3>2 DEF RenameAndStore
  <2>4. toRemove' = {} /\ dropped' \subseteq 1..MaxLogged
    BY <1>7, <2>1 DEF RenameAndStore, TypeOK, Stages
  <2>6. unwritten' \subseteq 1..MaxLogged
    BY <1>7 DEF RenameAndStore, TypeOK
  <2>7. pc' \in {"gone", "idle", "list", "remove", "rename", "write"}
    BY <1>7 DEF RenameAndStore, TypeOK
  <2>8. /\ pending' \in BOOLEAN /\ toFile' \in BOOLEAN /\ file' \in BOOLEAN
        /\ orderly' \in BOOLEAN /\ complete' \in BOOLEAN
    BY <1>7 DEF RenameAndStore, TypeOK, envVars
  <2>9. /\ lineCount' \in Nat /\ fileCount' \in 0..MaxFiles - 1
        /\ clock' \in 1..MaxClock /\ logged' \in 0..MaxLogged
        /\ faults' \in 0..MaxFaults /\ missed' \in Nat
    BY <1>7, LimitsAssumption, BoundsAssumption DEF RenameAndStore, TypeOK, Fault, envVars
  <2> QED BY <2>3, <2>4, <2>6, <2>7, <2>8, <2>9 DEF TypeOK
<1>8. ASSUME LogLine PROVE TypeOK'
  <2>1. /\ Files' = Files /\ toRemove' = toRemove /\ logged' = logged + 1
        /\ \A f \in Files : \/ dir'[f] = dir[f]
                            \/ dir'[f] = dir[f] \cup {logged'}
        /\ dir' = [f \in Files |-> dir'[f]]
    <3>1. CASE UNCHANGED dir
      BY <1>8, <3>1 DEF LogLine, TypeOK, Files
    <3>2. CASE dir' = [dir EXCEPT ![LogTxt] = @ \cup {logged'}]
      BY <1>8, <3>2 DEF LogLine, TypeOK, Files
    <3> QED BY <1>8, <3>1, <3>2 DEF LogLine
  <2>2. logged' \in 1..MaxLogged
    BY <1>8, BoundsAssumption DEF LogLine, TypeOK
  <2>3. \A f \in Files : dir'[f] \in SUBSET (1..MaxLogged)
    BY <2>1, <2>2 DEF TypeOK
  <2>4. dropped' = dropped
    BY <1>8 DEF LogLine
  <2>6. unwritten' \subseteq 1..MaxLogged
    BY <1>8, <2>2 DEF LogLine, TypeOK
  <2>7. pc' \in {"gone", "idle", "list", "remove", "rename", "write"}
    BY <1>8 DEF LogLine, TypeOK
  <2>8. /\ pending' \in BOOLEAN /\ toFile' \in BOOLEAN /\ file' \in BOOLEAN
        /\ orderly' \in BOOLEAN /\ complete' \in BOOLEAN
    BY <1>8 DEF LogLine, TypeOK, envVars
  <2>9. /\ lineCount' \in Nat /\ fileCount' \in 0..MaxFiles - 1
        /\ clock' \in 1..MaxClock /\ logged' \in 0..MaxLogged
        /\ faults' \in 0..MaxFaults /\ missed' \in Nat
    BY <1>8, LimitsAssumption, BoundsAssumption DEF LogLine, TypeOK, Fault, envVars
  <2> QED BY <2>1, <2>3, <2>4, <2>6, <2>7, <2>8, <2>9 DEF TypeOK
<1>9. ASSUME NullFile PROVE TypeOK'
  BY <1>9, LimitsAssumption, BoundsAssumption DEF NullFile, TypeOK, Stages, Files, Names, LogTxt, Fault, envVars
<1>10. ASSUME Kill PROVE TypeOK'
  <2>1. UNION {dir[f] : f \in Files \cap {LogTxt}} \subseteq 1..MaxLogged
    BY DEF TypeOK
  <2>2. dropped' \subseteq 1..MaxLogged
    BY <1>10, <2>1 DEF Kill, TypeOK
  <2>3. toRemove' = {} /\ dir' = dir
    BY <1>10 DEF Kill
  <2>6. unwritten' \subseteq 1..MaxLogged
    BY <1>10 DEF Kill, TypeOK
  <2>7. pc' \in {"gone", "idle", "list", "remove", "rename", "write"}
    BY <1>10 DEF Kill, TypeOK
  <2>8. /\ pending' \in BOOLEAN /\ toFile' \in BOOLEAN /\ file' \in BOOLEAN
        /\ orderly' \in BOOLEAN /\ complete' \in BOOLEAN
    BY <1>10 DEF Kill, TypeOK, envVars
  <2>9. /\ lineCount' \in Nat /\ fileCount' \in 0..MaxFiles - 1
        /\ clock' \in 1..MaxClock /\ logged' \in 0..MaxLogged
        /\ faults' \in 0..MaxFaults /\ missed' \in Nat
    BY <1>10, LimitsAssumption, BoundsAssumption DEF Kill, TypeOK, Fault, envVars
  <2> QED BY <2>2, <2>3, <2>6, <2>7, <2>8, <2>9 DEF TypeOK, Files
<1>11. ASSUME SetClock PROVE TypeOK'
  BY <1>11, LimitsAssumption, BoundsAssumption DEF SetClock, TypeOK, Stages, Files, Names, LogTxt, Fault, envVars
<1>12. ASSUME UNCHANGED vars PROVE TypeOK'
  BY <1>12 DEF TypeOK, Files, vars, envVars
<1> QED BY <1>1, <1>2, <1>3, <1>4, <1>5, <1>6, <1>7, <1>8, <1>9, <1>10, <1>11, <1>12 DEF Next

(* Where the program is and what it has open go together.                  *)
LEMMA StagesInductive ==
    ASSUME TypeOK, Stages, CountIsLines, [Next]_vars
    PROVE  Stages'
<1>1. ASSUME Start PROVE Stages'
  BY <1>1 DEF Start, TypeOK, Stages, CountIsLines, Files, Fault, envVars
<1>2. ASSUME ListLogs PROVE Stages'
  BY <1>2 DEF ListLogs, TypeOK, Stages, CountIsLines, Files, Fault, envVars
<1>3. ASSUME RemoveNext PROVE Stages'
  BY <1>3 DEF RemoveNext, TypeOK, Stages, CountIsLines, Files, Fault, envVars
<1>4. ASSUME OpenLog PROVE Stages'
  <2>1. CASE UNCHANGED file
    BY <1>4, <2>1 DEF OpenLog, Stages, TypeOK
  <2>2. CASE /\ dir' = [f \in Files \cup {LogTxt} |->
                          IF f = LogTxt THEN {} ELSE dir[f]]
             /\ file' /\ lineCount' = 0 /\ UNCHANGED toFile
    <3>1. LogTxt \in Files' /\ dir'[LogTxt] = {}
      BY <2>2 DEF Files
    <3> QED BY <1>4, <2>2, <3>1 DEF OpenLog, Stages, TypeOK
  <2> QED BY <1>4, <2>1, <2>2 DEF OpenLog
<1>5. ASSUME Rotate PROVE Stages'
  BY <1>5 DEF Rotate, CloseLogFile, TypeOK, Stages, CountIsLines, Files, Fault, envVars
<1>6. ASSUME Destroy PROVE Stages'
  BY <1>6 DEF Destroy, CloseLogFile, TypeOK, Stages, CountIsLines, Files, Fault, envVars
<1>7. ASSUME RenameAndStore PROVE Stages'
  BY <1>7 DEF RenameAndStore, TypeOK, Stages, CountIsLines, Files, Fault, envVars
<1>8. ASSUME LogLine PROVE Stages'
  BY <1>8 DEF LogLine, TypeOK, Stages, CountIsLines, Files, Fault, envVars
<1>9. ASSUME NullFile PROVE Stages'
  BY <1>9 DEF NullFile, TypeOK, Stages, CountIsLines, Files, Fault, envVars
<1>10. ASSUME Kill PROVE Stages'
  BY <1>10 DEF Kill, TypeOK, Stages, CountIsLines, Files, Fault, envVars
<1>11. ASSUME SetClock PROVE Stages'
  BY <1>11 DEF SetClock, TypeOK, Stages, CountIsLines, Files, Fault, envVars
<1>12. ASSUME UNCHANGED vars PROVE Stages'
  BY <1>12 DEF Stages, Files, vars, envVars
<1> QED BY <1>1, <1>2, <1>3, <1>4, <1>5, <1>6, <1>7, <1>8, <1>9, <1>10, <1>11, <1>12 DEF Next

(* No file holds a line that was not logged yet.                           *)
LEMMA LinesInductive ==
    ASSUME TypeOK, Stages, LinesLogged, [Next]_vars
    PROVE  LinesLogged'
<1>1. ASSUME Start PROVE LinesLogged'
  BY <1>1 DEF Start, LinesLogged, Files, envVars
<1>2. ASSUME ListLogs PROVE LinesLogged'
  BY <1>2 DEF ListLogs, LinesLogged, Files, envVars
<1>3. ASSUME RemoveNext PROVE LinesLogged'
  BY <1>3 DEF RemoveNext, LinesLogged, Files, envVars
<1>4. ASSUME OpenLog PROVE LinesLogged'
  BY <1>4, LogTxtNamed DEF OpenLog, LinesLogged, Files
<1>5. ASSUME Rotate PROVE LinesLogged'
  BY <1>5 DEF Rotate, CloseLogFile, LinesLogged, Files, envVars
<1>6. ASSUME Destroy PROVE LinesLogged'
  BY <1>6 DEF Destroy, CloseLogFile, LinesLogged, Files, envVars
<1>7. ASSUME RenameAndStore PROVE LinesLogged'
  <2>1. LogTxt \in Files /\ logged' = logged
    BY <1>7 DEF RenameAndStore, Stages
  <2> QED BY <1>7, <2>1 DEF RenameAndStore, LinesLogged, Files
<1>8. ASSUME LogLine PROVE LinesLogged'
  <2>1. /\ Files' = Files /\ logged' = logged + 1
        /\ \A f \in Files : dir'[f] \subseteq dir[f] \cup {logged'}
        /\ unwritten' \subseteq unwritten \cup {logged'}
    BY <1>8 DEF LogLine, TypeOK, Files
  <2>2. 1..logged \subseteq 1..logged' /\ logged' \in 1..logged'
    BY <2>1, BoundsAssumption DEF TypeOK
  <2> QED BY <2>1, <2>2 DEF LinesLogged
<1>9. ASSUME NullFile PROVE LinesLogged'
  BY <1>9 DEF NullFile, LinesLogged, Files, envVars
<1>10. ASSUME Kill PROVE LinesLogged'
  BY <1>10 DEF Kill, LinesLogged, Files, envVars
<1>11. ASSUME SetClock PROVE LinesLogged'
  BY <1>11 DEF SetClock, LinesLogged, Files, envVars
<1>12. ASSUME UNCHANGED vars PROVE LinesLogged'
  BY <1>12 DEF LinesLogged, Files, vars, envVars
<1> QED BY <1>1, <1>2, <1>3, <1>4, <1>5, <1>6, <1>7, <1>8, <1>9, <1>10, <1>11, <1>12 DEF Next

(* The count follows the lines: a new line is in no file yet.              *)
LEMMA CountInductive ==
    ASSUME TypeOK, Stages, LinesLogged, CountIsLines, [Next]_vars
    PROVE  CountIsLines'
<1>1. ASSUME Start PROVE CountIsLines'
  BY <1>1 DEF Start, CountIsLines, Files, envVars
<1>2. ASSUME ListLogs PROVE CountIsLines'
  BY <1>2 DEF ListLogs, CountIsLines, Files, envVars
<1>3. ASSUME RemoveNext PROVE CountIsLines'
  BY <1>3 DEF RemoveNext, CountIsLines, Files, envVars
<1>4. ASSUME OpenLog PROVE CountIsLines'
  <2>1. CASE UNCHANGED file
    BY <1>4, <2>1 DEF OpenLog, Stages, CountIsLines
  <2>2. CASE /\ dir' = [f \in Files \cup {LogTxt} |->
                          IF f = LogTxt THEN {} ELSE dir[f]]
             /\ file' /\ lineCount' = 0
    <3>1. LogTxt \in Files' /\ dir'[LogTxt] = {}
      BY <2>2 DEF Files
    <3>2. logged - lineCount' + 1 .. logged = {}
      BY <2>2, BoundsAssumption DEF TypeOK
    <3>3. logged' = logged /\ unwritten' = unwritten
      BY <1>4 DEF OpenLog
    <3> QED BY <2>2, <3>1, <3>2, <3>3, LimitsAssumption DEF CountIsLines
  <2> QED BY <1>4, <2>1, <2>2 DEF OpenLog
<1>5. ASSUME Rotate PROVE CountIsLines'
  BY <1>5 DEF Rotate, CloseLogFile, CountIsLines, Files, envVars
<1>6. ASSUME Destroy PROVE CountIsLines'
  BY <1>6 DEF Destroy, CloseLogFile, CountIsLines, Files, envVars
<1>7. ASSUME RenameAndStore PROVE CountIsLines'
  BY <1>7 DEF RenameAndStore, CountIsLines, Files, envVars
<1>8. ASSUME LogLine PROVE CountIsLines'
  <2> DEFINE window == logged - lineCount + 1 .. logged
  <2>1. /\ LogTxt \in Files /\ file /\ toFile /\ lineCount < MaxLines
        /\ lineCount \in Nat /\ logged \in Nat
    BY <1>8, LimitsAssumption, BoundsAssumption
    DEF LogLine, CountIsLines, Stages, TypeOK
  <2>2. dir[LogTxt] = window \ unwritten
    <3>1. CASE pc = "idle"
      BY <3>1, <2>1 DEF CountIsLines
    <3>2. CASE pc = "write" /\ file
      <4>1. dir[LogTxt] = {} /\ window = {}
        BY <3>2, <2>1 DEF Stages
      <4> QED BY <4>1
    <3> QED BY <1>8, <3>1, <3>2 DEF LogLine
  <2>3. /\ Files' = Files /\ file' = file /\ lineCount' = lineCount + 1
        /\ logged' = logged + 1
        /\ \/ dir'[LogTxt] = dir[LogTxt] \cup {logged + 1} /\ unwritten' = unwritten
           \/ dir'[LogTxt] = dir[LogTxt] /\ unwritten' = unwritten \cup {logged + 1}
    BY <1>8, <2>1 DEF LogLine, Files
  <2>4. logged + 1 \notin unwritten
    BY <2>1 DEF LinesLogged
  <2>5. window' = window \cup {logged + 1} /\ logged + 1 \notin window
    BY <2>1, <2>3
  <2> HIDE DEF window
  <2>6. dir'[LogTxt] = window' \ unwritten'
    BY <2>2, <2>3, <2>4, <2>5
  <2> QED BY <2>1, <2>3, <2>6, LimitsAssumption DEF CountIsLines, window
<1>9. ASSUME NullFile PROVE CountIsLines'
  BY <1>9 DEF NullFile, CountIsLines, Files, envVars
<1>10. ASSUME Kill PROVE CountIsLines'
  BY <1>10 DEF Kill, CountIsLines, Files, envVars
<1>11. ASSUME SetClock PROVE CountIsLines'
  BY <1>11 DEF SetClock, CountIsLines, Files, envVars
<1>12. ASSUME UNCHANGED vars PROVE CountIsLines'
  BY <1>12 DEF CountIsLines, Files, vars, envVars
<1> QED BY <1>1, <1>2, <1>3, <1>4, <1>5, <1>6, <1>7, <1>8, <1>9, <1>10, <1>11, <1>12 DEF Next

(* The directory has room, or what is being removed makes it.              *)
LEMMA RoomInductive ==
    ASSUME TypeOK, Stages, Room, [Next]_vars
    PROVE  Room'
<1>1. ASSUME Start PROVE Room'
  BY <1>1 DEF Start, Room, FilesBounded, Files, envVars
<1>2. ASSUME ListLogs PROVE Room'
  <2>1. UNCHANGED dir /\ toRemove' \in SUBSET Files /\ pc = "list"
    BY <1>2 DEF ListLogs
  <2>2. Cardinality(Files) \in Nat /\ Files' = Files
    BY <2>1, FS_CardinalityType DEF Room, Files
  <2>3. missed' = missed /\ missed \in Nat
    BY <1>2 DEF ListLogs, TypeOK
  <2>4. CASE Cardinality(toRemove') = Excess(Cardinality(Files))
    BY <2>1, <2>2, <2>3, <2>4, LimitsAssumption DEF Excess, Room, FilesBounded
  <2>5. CASE complete' = FALSE
    BY <2>2, <2>3, <2>5 DEF Room, FilesBounded
  <2> QED BY <1>2, <2>4, <2>5 DEF ListLogs
<1>3. ASSUME RemoveNext PROVE Room'
  <2>1. PICK f \in toRemove :
           /\ toRemove' = toRemove \ {f} /\ pc = "remove" /\ pc' = pc
           /\ \/ dir' = [g \in Files \ {f} |-> dir[g]] /\ complete' = complete
              \/ dir' = dir /\ complete' = FALSE
    BY <1>3 DEF RemoveNext
  <2>2. IsFiniteSet(toRemove) /\ f \in Files /\ missed' = missed /\ missed \in Nat
    BY <1>3, <2>1, FS_Subset DEF RemoveNext, Room, TypeOK
  <2>3. /\ Cardinality(toRemove) \in Nat /\ Cardinality(toRemove') \in Nat
        /\ Cardinality(toRemove') = Cardinality(toRemove) - 1
    BY <2>1, <2>2, FS_RemoveElement, FS_CardinalityType
  <2>4. /\ IsFiniteSet(Files) /\ Cardinality(Files) \in Nat
    BY FS_CardinalityType DEF Room
  <2>5. CASE dir' = [g \in Files \ {f} |-> dir[g]] /\ complete' = complete
    <3>1. Files' = Files \ {f}
      BY <2>5 DEF Files
    <3>2. /\ IsFiniteSet(Files') /\ Cardinality(Files') = Cardinality(Files) - 1
      BY <3>1, <2>2, <2>4, FS_RemoveElement
    <3> QED BY <2>1, <2>2, <2>3, <2>4, <2>5, <3>2, LimitsAssumption
        DEF Room, FilesBounded
  <2>6. CASE dir' = dir /\ complete' = FALSE
    <3>1. Files' = Files
      BY <2>6 DEF Files
    <3> QED BY <2>2, <2>4, <2>6, <3>1 DEF Room, FilesBounded
  <2> QED BY <2>1, <2>5, <2>6
<1>4. ASSUME OpenLog PROVE Room'
  <2>1. /\ IsFiniteSet(Files) /\ Cardinality(Files) \in Nat
        /\ complete => Cardinality(Files) <= MaxFiles - 1
        /\ Cardinality(Files) <= MaxFiles + missed /\ missed \in Nat
        /\ pc' \in {"write", "idle"}
    BY <1>4, FS_CardinalityType, FS_EmptySet, LimitsAssumption
    DEF OpenLog, Room, FilesBounded, TypeOK
  <2>2. CASE /\ Files' = Files \cup {LogTxt}
             /\ missed' = IF complete THEN 0 ELSE missed + 1
    <3>1. /\ IsFiniteSet(Files') /\ Cardinality(Files') \in Nat
          /\ Cardinality(Files') <= Cardinality(Files) + 1
      BY <2>1, <2>2, AddOne
    <3>2. Cardinality(Files') <= MaxFiles + missed'
      <4>1. CASE complete
        BY <4>1, <2>1, <2>2, <3>1, LimitsAssumption
      <4>2. CASE ~complete
        BY <4>2, <2>1, <2>2, <3>1, LimitsAssumption
      <4> QED BY <4>1, <4>2
    <3> QED BY <2>1, <3>1, <3>2 DEF Room, FilesBounded
  <2>3. CASE Files' = Files /\ missed' = missed
    BY <2>1, <2>3 DEF Room, FilesBounded
  <2> QED BY <1>4, <2>2, <2>3 DEF OpenLog, Files
<1>5. ASSUME Rotate PROVE Room'
  BY <1>5 DEF Rotate, CloseLogFile, Room, FilesBounded, Files, envVars
<1>6. ASSUME Destroy PROVE Room'
  BY <1>6 DEF Destroy, CloseLogFile, Room, FilesBounded, Files, envVars
<1>7. ASSUME RenameAndStore PROVE Room'
  <2>1. LogTxt \in Files /\ pc' \in {"list", "gone"}
    BY <1>7 DEF RenameAndStore, Stages
  <2>2. /\ IsFiniteSet(Files) /\ Cardinality(Files) \in Nat
    BY FS_CardinalityType DEF Room
  <2>5. missed' = missed /\ missed \in Nat
    BY <1>7 DEF RenameAndStore, TypeOK
  <2>3. CASE Files' = (Files \ {LogTxt}) \cup {<<clock, fileCount>>}
    <3>1. /\ IsFiniteSet(Files \ {LogTxt})
          /\ Cardinality(Files \ {LogTxt}) = Cardinality(Files) - 1
      BY <2>1, <2>2, FS_RemoveElement
    <3>2. /\ IsFiniteSet(Files') /\ Cardinality(Files') \in Nat
          /\ Cardinality(Files') <= Cardinality(Files \ {LogTxt}) + 1
      BY <2>3, <3>1, AddOne
    <3> QED BY <2>1, <2>2, <2>5, <3>1, <3>2, LimitsAssumption
        DEF Room, FilesBounded
  <2>4. CASE Files' = Files
    BY <2>1, <2>2, <2>4, <2>5 DEF Room, FilesBounded
  <2> QED BY <1>7, <2>3, <2>4 DEF RenameAndStore, Files
<1>8. ASSUME LogLine PROVE Room'
  <2>1. Files' = Files /\ missed' = missed /\ pc' = "idle"
    BY <1>8 DEF LogLine, Files
  <2> QED BY <2>1 DEF Room, FilesBounded
<1>9. ASSUME NullFile PROVE Room'
  BY <1>9 DEF NullFile, Room, FilesBounded, Files, envVars
<1>10. ASSUME Kill PROVE Room'
  <2>1. Files' = Files /\ missed' = missed /\ pc' = "gone"
    BY <1>10 DEF Kill, Files
  <2> QED BY <2>1 DEF Room, FilesBounded
<1>11. ASSUME SetClock PROVE Room'
  BY <1>11 DEF SetClock, Room, FilesBounded, Files, envVars
<1>12. ASSUME UNCHANGED vars PROVE Room'
  BY <1>12 DEF Room, FilesBounded, Files, vars, envVars
<1> QED BY <1>1, <1>2, <1>3, <1>4, <1>5, <1>6, <1>7, <1>8, <1>9, <1>10, <1>11, <1>12 DEF Next

\* The inductive invariant.
IInv == TypeOK /\ Stages /\ LinesLogged /\ CountIsLines /\ Room

LEMMA InvHolds == Spec => []IInv
<1>1. Init => IInv
  <2>1. ASSUME Init PROVE TypeOK /\ Stages /\ LinesLogged /\ CountIsLines
    <3>1. Files = {} /\ dir \in [Files -> SUBSET (1..MaxLogged)]
      BY <2>1 DEF Init, Files
    <3>2. /\ lineCount \in Nat /\ fileCount \in 0..MaxFiles - 1
          /\ clock \in 1..MaxClock /\ logged \in 0..MaxLogged
          /\ faults \in 0..MaxFaults
      BY <2>1, LimitsAssumption, BoundsAssumption DEF Init
    <3>3. TypeOK
      BY <2>1, <3>1, <3>2 DEF Init, TypeOK
    <3> QED BY <2>1, <3>1, <3>3 DEF Init, Stages, LinesLogged, CountIsLines
  <2>2. ASSUME Init PROVE Room
    <3>1. Files = {} /\ missed = 0 /\ pc = "gone"
      BY <2>2 DEF Init, Files
    <3> QED BY <3>1, FS_EmptySet, LimitsAssumption DEF Room, FilesBounded
  <2> QED BY <2>1, <2>2 DEF IInv
<1>2. IInv /\ [Next]_vars => IInv'
  BY TypeInductive, StagesInductive, LinesInductive, CountInductive,
     RoomInductive DEF IInv
<1> QED BY <1>1, <1>2, PTL DEF Spec

-----------------------------------------------------------------------------
\* The log directory and the counters of the logger keep their types.
THEOREM TypeCorrect == Spec => []TypeOK
<1>1. IInv => TypeOK
  BY DEF IInv
<1> QED BY <1>1, InvHolds, PTL

\* RemoveLogs keeps the directory within max_log_files, but for one file for
\* each rotation, since the last complete one, that could not list it or not
\* remove a file; whatever the program is killed in.
THEOREM DirectoryBounded == Spec => []FilesBounded
<1>1. IInv => FilesBounded
  BY DEF IInv, Room
<1> QED BY <1>1, InvHolds, PTL

\* log.txt holds the last line_count_m lines, at most max_log_line_num, but for
\* those that could not be written.
THEOREM CountCorrect == Spec => []CountIsLines
<1>1. IInv => CountIsLines
  BY DEF IInv
<1> QED BY <1>1, InvHolds, PTL

-----------------------------------------------------------------------------
(***************************************************************************)
(* What the rotation gives up.  The lines of log.txt are newer than those  *)
(* of every stored log, and the stored logs are in the order of their      *)
(* names; so what ListLogs picks by name is oldest by line.  The one       *)
(* exception is a log.txt left behind, which is first by name: its lines   *)
(* are in dropped.                                                         *)
(***************************************************************************)
StoredLogs == Files \ {LogTxt}

\* log.txt holds the newest lines.
NewestInLogTxt ==
    LogTxt \in Files =>
        \A f \in StoredLogs : \A m \in dir[f], n \in dir[LogTxt] : m < n

\* The names of the stored logs are in the order of their lines.
NamesInOrder ==
    orderly => \A f, g \in StoredLogs :
                   Before(f, g) => \A m \in dir[f], n \in dir[g] : m < n

\* There is a log.txt that is not open: its lines are given up.
LeftBehind ==
    /\ LogTxt \in Files
    /\ \/ pc \in {"gone", "list", "remove"}
       \/ pc = "write" /\ ~file
       \/ pc = "idle" /\ ~toFile

LeftIsDropped == LeftBehind => dir[LogTxt] \subseteq dropped

\* What is to be removed has the first names, and is in excess.
FirstNames ==
    orderly => \A f \in toRemove, g \in Files \ toRemove : Before(f, g)

InExcess ==
    toRemove # {} =>
        Cardinality(Files) >= (MaxFiles - 1) + Cardinality(toRemove)

LEMMA LogTxtIsFirst == \A f \in Names : ~Before(f, LogTxt)
  BY LimitsAssumption, BoundsAssumption DEF Names, LogTxt, Before

(* Five steps touch the files, what is logged or what orders it.           *)
LEMMA OtherSteps ==
    ASSUME [Next]_vars
    PROVE  \/ RemoveNext \/ OpenLog \/ RenameAndStore \/ LogLine
           \/ /\ UNCHANGED <<dir, logged, unwritten, orderly>>
              /\ dropped \subseteq dropped'
<1>1. CASE Start
  BY <1>1 DEF Start, envVars
<1>2. CASE ListLogs
  BY <1>2 DEF ListLogs
<1>3. CASE Rotate
  BY <1>3 DEF Rotate, envVars
<1>4. CASE Destroy
  BY <1>4 DEF Destroy, envVars
<1>5. CASE NullFile
  BY <1>5 DEF NullFile, envVars
<1>6. CASE Kill
  BY <1>6 DEF Kill
<1>7. CASE SetClock
  BY <1>7 DEF SetClock
<1>8. CASE UNCHANGED vars
  BY <1>8 DEF vars, envVars
<1> QED BY <1>1, <1>2, <1>3, <1>4, <1>5, <1>6, <1>7, <1>8 DEF Next

(* What those steps make of the files.                                     *)
LEMMA Removed ==
    ASSUME RemoveNext
    PROVE  /\ UNCHANGED <<logged, dropped, unwritten, pc, file, toFile>> /\ pc = "remove"
           /\ \E f \in toRemove :
                 /\ \A g \in toRemove \ {f} : Before(f, g)
                 /\ toRemove' = toRemove \ {f}
                 /\ \/ /\ Files' = Files \ {f} /\ orderly' = orderly
                       /\ \A g \in Files' : dir'[g] = dir[g]
                    \/ UNCHANGED dir /\ orderly' = FALSE
<1>1. /\ UNCHANGED <<logged, dropped, unwritten, pc, file, toFile>> /\ pc = "remove"
  BY DEF RemoveNext
<1>2. PICK f \in toRemove :
         /\ \A g \in toRemove \ {f} : Before(f, g)
         /\ toRemove' = toRemove \ {f}
         /\ \/ dir' = [g \in Files \ {f} |-> dir[g]] /\ orderly' = orderly
            \/ UNCHANGED dir /\ orderly' = FALSE
  BY DEF RemoveNext
<1>3. ASSUME dir' = [g \in Files \ {f} |-> dir[g]]
      PROVE  Files' = Files \ {f} /\ \A g \in Files' : dir'[g] = dir[g]
  BY <1>3 DEF Files
<1> QED BY <1>1, <1>2, <1>3

LEMMA Opened ==
    ASSUME OpenLog
    PROVE  /\ UNCHANGED <<logged, dropped, unwritten, orderly>>
           /\ pc = "remove" /\ toRemove = {} /\ toRemove' = {}
           /\ \/ UNCHANGED dir /\ toFile' = FALSE /\ file' = file
              \/ /\ Files' = Files \cup {LogTxt} /\ dir'[LogTxt] = {}
                 /\ \A f \in StoredLogs : dir'[f] = dir[f]
                 /\ StoredLogs' = StoredLogs
<1>1. ASSUME dir' = [f \in Files \cup {LogTxt} |->
                        IF f = LogTxt THEN {} ELSE dir[f]]
      PROVE  /\ Files' = Files \cup {LogTxt} /\ dir'[LogTxt] = {}
             /\ \A f \in StoredLogs : dir'[f] = dir[f]
             /\ StoredLogs' = StoredLogs
  BY <1>1 DEF Files, StoredLogs
<1> QED BY <1>1 DEF OpenLog

LEMMA Renamed ==
    ASSUME TypeOK, Stages, RenameAndStore
    PROVE  /\ UNCHANGED <<logged, unwritten, toRemove>> /\ toRemove = {}
           /\ LogTxt \in Files
           /\ \/ /\ LogTxt \notin Files' /\ <<clock, fileCount>> \in Files'
                 /\ Files' = StoredLogs \cup {<<clock, fileCount>>}
                 /\ dir'[<<clock, fileCount>>] = dir[LogTxt]
                 /\ \A f \in StoredLogs :
                       f # <<clock, fileCount>> => dir'[f] = dir[f]
                 /\ orderly' => orderly /\ \A f \in Files : f[1] < clock
                 /\ dropped' = dropped
              \/ UNCHANGED <<dir, orderly>> /\ dropped' = dropped \cup dir[LogTxt]
<1> DEFINE stored == <<clock, fileCount>>
<1>1. /\ UNCHANGED <<logged, unwritten, toRemove>> /\ toRemove = {} /\ LogTxt \in Files
      /\ stored # LogTxt
  BY BoundsAssumption DEF RenameAndStore, Stages, TypeOK, LogTxt
<1>2. ASSUME dir' = [f \in (Files \ {LogTxt}) \cup {stored} |->
                        IF f = stored THEN dir[LogTxt] ELSE dir[f]]
      PROVE  /\ LogTxt \notin Files' /\ stored \in Files'
             /\ Files' = StoredLogs \cup {stored}
             /\ dir'[stored] = dir[LogTxt]
             /\ \A f \in StoredLogs : f # stored => dir'[f] = dir[f]
  <2> HIDE DEF stored
  <2> QED BY <1>1, <1>2 DEF Files, StoredLogs
<1>3. \/ /\ dir' = [f \in (Files \ {LogTxt}) \cup {stored} |->
                        IF f = stored THEN dir[LogTxt] ELSE dir[f]]
         /\ orderly' = (orderly /\ \A f \in Files : f[1] < clock)
         /\ dropped' = dropped
      \/ UNCHANGED <<dir, orderly>> /\ dropped' = dropped \cup dir[LogTxt]
  BY DEF RenameAndStore
<1> QED BY <1>1, <1>2, <1>3

LEMMA LineLogged ==
    ASSUME TypeOK, Stages, CountIsLines, LogLine
    PROVE  /\ LogTxt \in Files /\ Files' = Files /\ toFile
           /\ pc = "idle" \/ (pc = "write" /\ file)
           /\ logged' = logged + 1
           /\ \A f \in StoredLogs : dir'[f] = dir[f]
           /\ \/ /\ dir'[LogTxt] = dir[LogTxt] \cup {logged'}
                 /\ unwritten' = unwritten
              \/ UNCHANGED dir /\ unwritten' = unwritten \cup {logged'}
           /\ UNCHANGED <<toRemove, dropped, orderly, toFile, file>>
           /\ pc' = "idle"
<1>1. LogTxt \in Files /\ toFile
  BY DEF LogLine, CountIsLines, Stages
<1>2. /\ UNCHANGED <<toRemove, dropped, orderly, toFile, file>>
      /\ pc = "idle" \/ (pc = "write" /\ file)
      /\ pc' = "idle" /\ logged' = logged + 1
  BY DEF LogLine
<1>3. \/ /\ dir' = [dir EXCEPT ![LogTxt] = @ \cup {logged'}]
         /\ unwritten' = unwritten
      \/ UNCHANGED dir /\ unwritten' = unwritten \cup {logged'}
  BY DEF LogLine
<1>4. ASSUME dir' = [dir EXCEPT ![LogTxt] = @ \cup {logged'}]
      PROVE  /\ Files' = Files /\ dir'[LogTxt] = dir[LogTxt] \cup {logged'}
             /\ \A f \in StoredLogs : dir'[f] = dir[f]
  <2> HIDE DEF LogTxt
  <2> QED BY <1>1, <1>4 DEF Files, StoredLogs
<1>5. ASSUME UNCHANGED dir
      PROVE  Files' = Files /\ \A f \in StoredLogs : dir'[f] = dir[f]
  BY <1>5 DEF Files
<1> QED BY <1>1, <1>2, <1>3, <1>4, <1>5

(* A new line is newer than all others, and log.txt starts empty.          *)
LEMMA NewestInductive ==
    ASSUME TypeOK, Stages, LinesLogged, CountIsLines, NewestInLogTxt,
           [Next]_vars
    PROVE  NewestInLogTxt'
<1>1. CASE RemoveNext
  BY <1>1, Removed, Zenon DEF NewestInLogTxt, StoredLogs, Files
<1>2. CASE OpenLog
  BY <1>2, Opened DEF NewestInLogTxt, StoredLogs, Files
<1>3. CASE RenameAndStore
  BY <1>3, Renamed DEF NewestInLogTxt, StoredLogs, Files
<1>4. CASE LogLine
  <2>1. /\ LogTxt \in Files /\ Files' = Files /\ logged' = logged + 1
        /\ dir'[LogTxt] \subseteq dir[LogTxt] \cup {logged'}
        /\ \A f \in StoredLogs : dir'[f] = dir[f]
    BY <1>4, LineLogged
  <2>2. \A f \in StoredLogs : \A m \in dir[f] : m \in Nat /\ m <= logged
    BY DEF LinesLogged, StoredLogs
  <2>3. logged \in Nat
    BY BoundsAssumption DEF TypeOK
  <2> QED BY <2>1, <2>2, <2>3 DEF NewestInLogTxt, StoredLogs
<1>5. CASE UNCHANGED <<dir, logged, orderly>>
  BY <1>5 DEF NewestInLogTxt, StoredLogs, Files
<1> QED BY <1>1, <1>2, <1>3, <1>4, <1>5, OtherSteps

(* The log that is stored has the newest lines and, when the clock is in   *)
(* order, the last name.                                                   *)
LEMMA OrderInductive ==
    ASSUME TypeOK, Stages, CountIsLines, NewestInLogTxt, NamesInOrder,
           [Next]_vars
    PROVE  NamesInOrder'
<1>1. CASE RemoveNext
  BY <1>1, Removed, Zenon DEF NamesInOrder, StoredLogs, Files
<1>2. CASE OpenLog
  BY <1>2, Opened DEF NamesInOrder, StoredLogs, Files
<1>3. CASE RenameAndStore
  <2> DEFINE stored == <<clock, fileCount>>
  <2>1. CASE UNCHANGED <<dir, orderly>>
    BY <2>1 DEF NamesInOrder, StoredLogs, Files
  <2>2. CASE /\ LogTxt \notin Files' /\ Files' = StoredLogs \cup {stored}
             /\ dir'[stored] = dir[LogTxt]
             /\ \A f \in StoredLogs : f # stored => dir'[f] = dir[f]
             /\ orderly' => orderly /\ \A f \in Files : f[1] < clock
    <3> SUFFICES ASSUME orderly', NEW f \in StoredLogs', NEW g \in StoredLogs',
                        Before(f, g), NEW m \in dir'[f], NEW n \in dir'[g]
                 PROVE  m < n
      BY DEF NamesInOrder, Before
    <3>1. /\ f \in StoredLogs \/ f = stored
          /\ g \in StoredLogs \/ g = stored
      BY <2>2 DEF StoredLogs
    <3>2. \A h \in StoredLogs :
             h \in Files /\ h[1] \in Nat /\ h[1] < clock /\ h # stored
      <4>1. \A h \in Files : h[1] < clock /\ h[1] \in Nat
        BY <2>2, BoundsAssumption DEF TypeOK, Names
      <4> QED BY <4>1 DEF StoredLogs
    <3>3. clock \in Nat /\ ~Before(stored, stored)
          /\ \A h \in StoredLogs : ~Before(stored, h)
      BY <3>2, BoundsAssumption, LimitsAssumption DEF TypeOK, Before
    <3>4. f \in StoredLogs /\ dir'[f] = dir[f]
      <4> HIDE DEF stored
      <4> QED BY <3>1, <3>2, <3>3, <2>2
    <3>5. CASE g = stored
      BY <3>4, <3>5, <2>2, Renamed, <1>3 DEF NewestInLogTxt
    <3>6. CASE g \in StoredLogs
      <4>1. dir'[g] = dir[g]
        BY <3>6, <3>2, <2>2
      <4> QED BY <4>1, <3>4, <3>6, <2>2 DEF NamesInOrder
    <3> QED BY <3>1, <3>5, <3>6
  <2> QED BY <1>3, <2>1, <2>2, Renamed
<1>4. CASE LogLine
  BY <1>4, LineLogged DEF NamesInOrder, StoredLogs
<1>5. CASE UNCHANGED <<dir, logged, orderly>>
  BY <1>5 DEF NamesInOrder, StoredLogs, Files
<1> QED BY <1>1, <1>2, <1>3, <1>4, <1>5, OtherSteps

(* A log.txt is left behind by a kill or by a rename that failed, and the  *)
(* line that dies of a file that cannot be opened finds it so.             *)
LEMMA LeftInductive ==
    ASSUME TypeOK, Stages, CountIsLines, LeftIsDropped, [Next]_vars
    PROVE  LeftIsDropped'
<1>1. CASE Start
  BY <1>1 DEF Start, LeftIsDropped, LeftBehind, Files, envVars
<1>2. CASE ListLogs
  BY <1>2 DEF ListLogs, LeftIsDropped, LeftBehind, Files
<1>3. CASE RemoveNext
  BY <1>3, Removed DEF LeftIsDropped, LeftBehind, Files
<1>4. CASE OpenLog
  BY <1>4, Opened DEF LeftIsDropped, LeftBehind, Files
<1>5. CASE Rotate
  BY <1>5 DEF Rotate, LeftIsDropped, LeftBehind
<1>6. CASE Destroy
  BY <1>6 DEF Destroy, LeftIsDropped, LeftBehind, Files, envVars
<1>7. CASE RenameAndStore
  BY <1>7, Renamed DEF LeftIsDropped, LeftBehind
<1>8. CASE LogLine
  BY <1>8, LineLogged DEF LeftIsDropped, LeftBehind
<1>9. CASE NullFile
  BY <1>9 DEF NullFile, LeftIsDropped, LeftBehind, Files, envVars
<1>10. CASE Kill
  <2>1. dropped' = dropped \cup UNION {dir[f] : f \in Files \cap {LogTxt}}
        /\ dir' = dir
    BY <1>10 DEF Kill
  <2> QED BY <2>1 DEF LeftIsDropped, LeftBehind, Files
<1>11. CASE SetClock
  BY <1>11 DEF SetClock, LeftIsDropped, LeftBehind, Files
<1>12. CASE UNCHANGED vars
  BY <1>12 DEF LeftIsDropped, LeftBehind, Files, vars, envVars
<1> QED BY <1>1, <1>2, <1>3, <1>4, <1>5, <1>6, <1>7, <1>8, <1>9, <1>10, <1>11, <1>12 DEF Next

(* Only ListLogs fills toRemove, and only RemoveNext works on it.          *)
LEMMA ToRemoveSteps ==
    ASSUME TypeOK, Stages, [Next]_vars
    PROVE  \/ ListLogs \/ RemoveNext
           \/ toRemove' = {}
           \/ UNCHANGED <<dir, toRemove, orderly>>
<1>1. CASE Start
  BY <1>1 DEF Start, envVars
<1>4. CASE OpenLog
  BY <1>4, Opened
<1>5. CASE Rotate
  BY <1>5 DEF Rotate, envVars
<1>6. CASE Destroy
  BY <1>6 DEF Destroy, envVars
<1>7. CASE RenameAndStore
  BY <1>7, Renamed
<1>8. CASE LogLine
  BY <1>8 DEF LogLine, Stages
<1>9. CASE NullFile
  BY <1>9 DEF NullFile, envVars
<1>10. CASE Kill
  BY <1>10 DEF Kill
<1>11. CASE SetClock
  BY <1>11 DEF SetClock
<1>12. CASE UNCHANGED vars
  BY <1>12 DEF vars, envVars
<1> QED BY <1>1, <1>4, <1>5, <1>6, <1>7, <1>8, <1>9, <1>10, <1>11, <1>12 DEF Next

(* No file comes or goes between the listing and the last removal but      *)
(* those removed, unless a removal fails.                                  *)
LEMMA FirstInductive ==
    ASSUME TypeOK, Stages, FirstNames, [Next]_vars
    PROVE  FirstNames'
<1>1. CASE ListLogs
  <2>1. Files' = Files
    BY <1>1 DEF ListLogs, Files
  <2> QED BY <1>1, <2>1 DEF ListLogs, FirstNames, Before
<1>2. CASE RemoveNext
  <2>1. PICK f \in toRemove :
           /\ toRemove' = toRemove \ {f}
           /\ (Files' = Files \ {f} /\ orderly' = orderly) \/ orderly' = FALSE
    BY <1>2, Removed
  <2> QED BY <2>1 DEF FirstNames, Before
<1>3. CASE toRemove' = {}
  BY <1>3 DEF FirstNames
<1>4. CASE UNCHANGED <<dir, toRemove, orderly>>
  BY <1>4 DEF FirstNames, Before, Files
<1> QED BY <1>1, <1>2, <1>3, <1>4, ToRemoveSteps

(* What Excess lists is in excess, and each removal counts on both sides.  *)
LEMMA ExcessInductive ==
    ASSUME TypeOK, Stages, Room, InExcess, [Next]_vars
    PROVE  InExcess'
<1>1. CASE ListLogs
  <2>1. Files' = Files /\ Cardinality(Files) \in Nat
    BY <1>1, FS_CardinalityType DEF ListLogs, Files, Room
  <2>2. CASE toRemove' = {}
    BY <2>2 DEF InExcess
  <2>3. CASE /\ toRemove' \in SUBSET Files
             /\ Cardinality(toRemove') = Excess(Cardinality(Files))
    <3>1. IsFiniteSet(toRemove')
      BY <2>3, FS_Subset DEF Room
    <3>2. CASE Cardinality(Files) + 1 > MaxFiles
      BY <3>2, <2>1, <2>3, LimitsAssumption DEF Excess, InExcess
    <3>3. CASE ~(Cardinality(Files) + 1 > MaxFiles)
      <4>1. toRemove' = {}
        BY <3>1, <3>3, <2>3, FS_EmptySet DEF Excess
      <4> QED BY <4>1 DEF InExcess
    <3> QED BY <3>2, <3>3
  <2> QED BY <1>1, <2>2, <2>3 DEF ListLogs
<1>2. CASE RemoveNext
  <2>1. PICK f \in toRemove :
           /\ toRemove' = toRemove \ {f}
           /\ Files' = Files \ {f} \/ Files' = Files
    BY <1>2, Removed DEF Files
  <2>2. IsFiniteSet(Files) /\ IsFiniteSet(toRemove) /\ f \in Files
    BY <2>1, FS_Subset DEF Room, TypeOK
  <2>3. /\ Cardinality(toRemove') = Cardinality(toRemove) - 1
        /\ Cardinality(Files \ {f}) = Cardinality(Files) - 1
        /\ Cardinality(toRemove) \in Nat /\ Cardinality(Files) \in Nat
    BY <2>1, <2>2, FS_RemoveElement, FS_CardinalityType
  <2>4. Cardinality(Files) >= (MaxFiles - 1) + Cardinality(toRemove)
    BY <2>1 DEF InExcess
  <2>5. Cardinality(Files') >= Cardinality(Files) - 1
    BY <2>1, <2>3
  <2>6. Cardinality(Files') \in Nat
    BY <2>1, <2>2, FS_RemoveElement, FS_CardinalityType
  <2> QED BY <2>3, <2>4, <2>5, <2>6, LimitsAssumption DEF InExcess
<1>3. CASE toRemove' = {}
  BY <1>3 DEF InExcess
<1>4. CASE UNCHANGED <<dir, toRemove, orderly>>
  BY <1>4 DEF InExcess, Files
<1> QED BY <1>1, <1>2, <1>3, <1>4, ToRemoveSteps

\* Every log.txt that is gone without a rename was left behind, and every
\* stored log that is gone had the oldest lines of all.
LEMMA OldestInductive ==
    ASSUME TypeOK, Stages, LinesLogged, CountIsLines, NamesInOrder,
           LeftIsDropped, FirstNames, OldestGoFirst, [Next]_vars
    PROVE  OldestGoFirst'
<1>1. ASSUME orderly' => orderly, logged' = logged, dropped \subseteq dropped',
             unwritten' = unwritten,
             orderly' => Kept' \subseteq Kept,
             ASSUME orderly' PROVE Kept \subseteq Kept' \cup dropped'
      PROVE  OldestGoFirst'
  BY <1>1 DEF OldestGoFirst
<1>2. CASE RemoveNext
  <2>1. PICK f \in toRemove :
           /\ \A g \in toRemove \ {f} : Before(f, g)
           /\ \/ /\ Files' = Files \ {f} /\ orderly' = orderly
                 /\ \A g \in Files' : dir'[g] = dir[g]
              \/ orderly' = FALSE
    BY <1>2, Removed, Zenon
  <2>2. UNCHANGED <<logged, dropped, unwritten>> /\ pc = "remove"
    BY <1>2, Removed
  <2>3. CASE ~orderly'
    BY <2>3 DEF OldestGoFirst
  <2>4. CASE orderly' /\ Files' = Files \ {f} /\ orderly' = orderly
             /\ \A g \in Files' : dir'[g] = dir[g]
    <3>1. Kept' \subseteq Kept /\ Kept \subseteq Kept' \cup dir[f]
      BY <2>4 DEF Kept
    <3>2. CASE f = LogTxt
      <4>1. dir[f] \subseteq dropped
        BY <3>2, <2>1, <2>2 DEF LeftIsDropped, LeftBehind, TypeOK
      <4> QED BY <4>1, <3>1, <2>2, <2>4, <1>1
    <3>3. CASE f # LogTxt
      <4>1. f \in StoredLogs
        BY <3>3, <2>1 DEF StoredLogs, TypeOK
      <4>2. \A g \in Files' : g \in StoredLogs /\ Before(f, g)
        <5>1. \A g \in Files' : Before(f, g)
          BY <2>1, <2>4 DEF FirstNames
        <5>2. f \in Names
          BY <2>1 DEF TypeOK
        <5> QED BY <5>1, <5>2, <2>4, LogTxtIsFirst DEF StoredLogs
      <4>3. \A m \in dir[f], n \in Kept' : m < n
        BY <4>1, <4>2, <2>4 DEF NamesInOrder, Kept
      <4>4. ASSUME NEW gone \in (1..logged) \ (Kept' \cup dropped \cup unwritten),
                   NEW kept \in Kept'
            PROVE  gone < kept
        <5>1. CASE gone \in dir[f]
          BY <5>1, <4>3
        <5>2. CASE gone \notin dir[f]
          BY <5>2, <3>1, <2>4 DEF OldestGoFirst
        <5> QED BY <5>1, <5>2
      <4> QED BY <4>4, <2>2 DEF OldestGoFirst
    <3> QED BY <3>2, <3>3
  <2> QED BY <2>1, <2>3, <2>4
<1>3. CASE OpenLog
  <2>1. /\ UNCHANGED <<logged, dropped, unwritten, orderly>> /\ pc = "remove"
    BY <1>3, Opened
  <2>2. CASE UNCHANGED dir
    BY <2>1, <2>2 DEF OldestGoFirst, Kept, Files
  <2>3. CASE /\ Files' = Files \cup {LogTxt} /\ dir'[LogTxt] = {}
             /\ \A f \in StoredLogs : dir'[f] = dir[f]
    <3>1. LogTxt \in Files => dir[LogTxt] \subseteq dropped
      BY <2>1 DEF LeftIsDropped, LeftBehind
    <3>2. \A f \in Files' : \/ dir'[f] = {}
                            \/ f \in Files /\ dir'[f] = dir[f]
      BY <2>3 DEF StoredLogs
    <3>3. Kept' \subseteq Kept
      BY <3>2 DEF Kept
    <3>4. \A f \in Files : \/ dir[f] \subseteq dropped
                           \/ f \in Files' /\ dir'[f] = dir[f]
      BY <2>3, <3>1 DEF StoredLogs
    <3>5. Kept \subseteq Kept' \cup dropped
      BY <3>4 DEF Kept
    <3> QED BY <3>3, <3>5, <2>1, <1>1
  <2> QED BY <1>3, Opened, <2>2, <2>3
<1>4. CASE RenameAndStore
  <2> DEFINE stored == <<clock, fileCount>>
  <2>1. logged' = logged /\ unwritten' = unwritten /\ LogTxt \in Files
    BY <1>4, Renamed
  <2>2. CASE UNCHANGED <<dir, orderly>> /\ dropped' = dropped \cup dir[LogTxt]
    <3>1. Kept' = Kept
      BY <2>2 DEF Kept, Files
    <3> QED BY <3>1, <2>1, <2>2, <1>1
  <2>3. CASE /\ Files' = StoredLogs \cup {stored} /\ dropped' = dropped
             /\ dir'[stored] = dir[LogTxt]
             /\ \A f \in StoredLogs : f # stored => dir'[f] = dir[f]
             /\ orderly' => orderly /\ \A f \in Files : f[1] < clock
    <3>1. ASSUME orderly' PROVE stored \notin Files
      BY <3>1, <2>3, BoundsAssumption DEF TypeOK
    <3> HIDE DEF stored
    <3>2. ASSUME orderly' PROVE Kept' = Kept
      <4>1. \A f \in StoredLogs : f \in Files' /\ dir'[f] = dir[f]
        BY <3>1, <3>2, <2>3 DEF StoredLogs
      <4>2. \A f \in Files' : \E g \in Files : dir'[f] = dir[g]
        BY <4>1, <2>1, <2>3 DEF StoredLogs
      <4>3. \A f \in Files : \E g \in Files' : dir'[g] = dir[f]
        BY <4>1, <2>1, <2>3 DEF StoredLogs
      <4> QED BY <4>2, <4>3 DEF Kept
    <3> QED BY <3>2, <2>1, <2>3, <1>1
  <2> QED BY <1>4, Renamed, <2>2, <2>3
<1>5. CASE LogLine
  <2>1. /\ LogTxt \in Files /\ Files' = Files /\ logged' = logged + 1
        /\ \A f \in StoredLogs : dir'[f] = dir[f]
        /\ UNCHANGED <<dropped, orderly>>
    BY <1>5, LineLogged
  <2>2. \/ Kept' = Kept \cup {logged'} /\ unwritten' = unwritten
        \/ Kept' = Kept /\ unwritten' = unwritten \cup {logged'}
    <3>1. CASE UNCHANGED dir /\ unwritten' = unwritten \cup {logged'}
      BY <3>1 DEF Kept, Files
    <3>2. CASE dir'[LogTxt] = dir[LogTxt] \cup {logged'} /\ unwritten' = unwritten
      <4>1. \A f \in Files : dir'[f] = dir[f] \cup (IF f = LogTxt THEN {logged'} ELSE {})
        BY <2>1, <3>2 DEF StoredLogs
      <4> HIDE DEF LogTxt
      <4> QED BY <4>1, <2>1, <3>2 DEF Kept
    <3> QED BY <1>5, LineLogged, <3>1, <3>2
  <2>3. logged \in Nat
    BY BoundsAssumption DEF TypeOK
  <2>4. ASSUME orderly,
               NEW gone \in (1..logged') \ (Kept' \cup dropped \cup unwritten'),
               NEW kept \in Kept'
        PROVE  gone < kept
    <3>1. gone \in 1..logged /\ gone \notin Kept /\ gone \notin unwritten
      BY <2>1, <2>2, <2>3
    <3>2. CASE kept = logged'
      BY <3>1, <3>2, <2>1, <2>3
    <3>3. CASE kept \in Kept
      BY <3>1, <3>3, <2>4 DEF OldestGoFirst
    <3> QED BY <2>2, <3>2, <3>3
  <2> QED BY <2>1, <2>4 DEF OldestGoFirst
<1>6. CASE /\ UNCHANGED <<dir, logged, unwritten, orderly>>
           /\ dropped \subseteq dropped'
  <2>1. Kept' = Kept
    BY <1>6 DEF Kept, Files
  <2> QED BY <2>1, <1>6, <1>1
<1> QED BY <1>2, <1>3, <1>4, <1>5, <1>6, OtherSteps

\* The inductive invariant of what the rotation gives up.
Rotation ==
    /\ NewestInLogTxt /\ NamesInOrder /\ LeftIsDropped /\ FirstNames
    /\ InExcess /\ OldestGoFirst

LEMMA RotationHolds == Spec => []Rotation
<1>1. Init => Rotation
  <2> SUFFICES ASSUME Init PROVE Rotation
    OBVIOUS
  <2>1. Files = {} /\ toRemove = {} /\ logged = 0
    BY DEF Init, Files
  <2>2. Kept = {} /\ StoredLogs = {}
    BY <2>1 DEF Kept, StoredLogs
  <2> QED BY <2>1, <2>2 DEF Rotation, NewestInLogTxt, NamesInOrder,
             LeftIsDropped, LeftBehind, FirstNames, InExcess, OldestGoFirst
<1>2. IInv /\ Rotation /\ [Next]_vars => Rotation'
  BY NewestInductive, OrderInductive, LeftInductive, FirstInductive,
     ExcessInductive, OldestInductive DEF IInv, Rotation
<1> QED BY <1>1, <1>2, InvHolds, PTL DEF Spec

\* The rotation gives up the oldest lines first: what is gone is older than
\* every line kept, unless it could not be written or a kill or a failed rename
\* left it in a log.txt.
THEOREM OldestGone == Spec => []OldestGoFirst
<1>1. Rotation => OldestGoFirst
  BY DEF Rotation
<1> QED BY <1>1, RotationHolds, PTL

\* RemoveLogs removes a stored log only from a directory that has no room for
\* it and the next log.txt, and rename() replaces none while the names are in
\* order.
THEOREM OnlyExcessRemoved == Spec => RemovesOnlyExcess
<1> DEFINE Spared(f) == \/ f \in Files' /\ (orderly' => dir'[f] = dir[f])
                        \/ Cardinality(Files) >= MaxFiles
<1>1. ASSUME IInv, Rotation, [Next]_vars, NEW f \in StoredLogs
      PROVE  Spared(f)
  <2>1. CASE RemoveNext
    <3>1. PICK g \in toRemove :
             \/ Files' = Files \ {g} /\ \A h \in Files' : dir'[h] = dir[h]
             \/ dir' = dir
      BY <2>1, Removed, Zenon
    <3>2. CASE f = g /\ Files' = Files \ {g}
      <4>1. IsFiniteSet(toRemove) /\ IsFiniteSet(Files)
        BY <1>1, FS_Subset DEF IInv, Room, TypeOK
      <4>2. Cardinality(toRemove) \in Nat /\ Cardinality(toRemove) # 0
            /\ Cardinality(Files) \in Nat
        BY <4>1, <3>1, FS_CardinalityType, FS_EmptySet
      <4>3. Cardinality(Files) >= (MaxFiles - 1) + Cardinality(toRemove)
        BY <1>1, <3>1 DEF Rotation, InExcess
      <4> QED BY <4>2, <4>3, LimitsAssumption
    <3> QED BY <3>1, <3>2 DEF StoredLogs, Files
  <2>2. CASE OpenLog
    BY <2>2, Opened DEF StoredLogs, Files
  <2>3. CASE RenameAndStore
    <3>1. \/ UNCHANGED dir
          \/ /\ Files' = StoredLogs \cup {<<clock, fileCount>>}
             /\ f # <<clock, fileCount>> => dir'[f] = dir[f]
             /\ orderly' => \A g \in Files : g[1] < clock
      BY <1>1, <2>3, Renamed DEF IInv
    <3>2. (\A g \in Files : g[1] < clock) => f # <<clock, fileCount>>
      BY <1>1, BoundsAssumption DEF StoredLogs, IInv, TypeOK
    <3> QED BY <3>1, <3>2 DEF StoredLogs, Files
  <2>4. CASE LogLine
    BY <1>1, <2>4, LineLogged DEF IInv, StoredLogs
  <2>5. CASE UNCHANGED <<dir, logged, orderly>>
    BY <2>5 DEF StoredLogs, Files
  <2> QED BY <1>1, <2>1, <2>2, <2>3, <2>4, <2>5, OtherSteps
<1>2. IInv /\ Rotation /\ [Next]_vars => \A f \in StoredLogs : Spared(f)
  BY <1>1
<1>3. IInv /\ Rotation /\ [Next]_vars =>
        [\A f \in Files \ {LogTxt} : Spared(f)]_vars
  BY <1>2 DEF StoredLogs
<1> QED BY <1>3, InvHolds, RotationHolds, PTL DEF Spec, RemovesOnlyExcess
=============================================================================
