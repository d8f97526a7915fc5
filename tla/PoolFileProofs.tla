--------------------------- MODULE PoolFileProofs ---------------------------
(***************************************************************************)
(* Theorems about PoolFile when writers take turns (~Overlap), for any      *)
(* number of instances, scripts and sessions, with writes that fail and     *)
(* processes that crash at any point.                                       *)
(***************************************************************************)
EXTENDS PoolFile, TLAPS

Inv == TypeOK /\ SoloInv

(* What no one parsed is not a pool.                                        *)
LEMMA TornIsNoPool == Torn \notin Pools
<1>1. PICK s \in Ids : TRUE
  BY PoolFileAssumption
<1>2. Torn[s] = "torn"
  BY DEF Torn
<1>3. \A p \in Pools : p[s] # "torn"
  BY DEF Pools
<1> QED
  BY <1>2, <1>3

(* The empty pool is one.                                                   *)
LEMMA EmptyIsPool == Empty \in Pools
BY DEF Empty, Pools

(* The numbers of inodes begin at one.                                      *)
LEMMA InodesAre == NoFile \notin Inodes /\ 1 \in Inodes
BY PoolFileAssumption DEF NoFile, Inodes

(* Nobody is at work yet, and what the file holds is what is kept.          *)
LEMMA InitInv == Init => Inv
<1> SUFFICES ASSUME Init PROVE Inv
  OBVIOUS
<1>1. PICK p \in Pools : content = [i \in Inodes |-> IF i = path THEN p ELSE Empty]
  BY DEF Init
<1>2. content \in [Inodes -> Pools]
  BY <1>1, EmptyIsPool
<1>3. path \in Inodes \cup {NoFile} /\ tmp = NoFile
  BY InodesAre DEF Init
<1>4. InPath \in Pools /\ kept = InPath
  BY <1>2, <1>3, EmptyIsPool DEF Init, InPath
<1>5. TypeOK
  BY <1>2, <1>3, <1>4, EmptyIsPool DEF Init, TypeOK
<1>6. SoloInv
  BY <1>3, <1>4 DEF Init, SoloInv, OneWriter, FilesApart, SaveInv, CleanIsKept, FileKeepsVerdicts
<1> QED
  BY <1>5, <1>6 DEF Inv

(* A writer starts, alone, from what is kept (loadSessionPool, load).       *)
LEMMA StartStep ==
    ASSUME Inv, ~Overlap, NEW w \in Writers, MayStart(w),
           \/ mem' = [mem EXCEPT ![w] = Loaded(InPath)]
           \/ mem' = [mem EXCEPT ![w] = InPath],
           dirty' = [dirty EXCEPT ![w] = {}],
           stage' = [stage EXCEPT ![w] = "up"],
           UNCHANGED <<files, fd, kept>>
    PROVE  Inv'
<1> USE DEF Inv, TypeOK, SoloInv
<1>1. InPath = kept /\ InPath' = InPath
  BY DEF FileKeepsVerdicts, InPath, files
<1>2. mem' = [mem EXCEPT ![w] = kept]
  BY <1>1, TornIsNoPool DEF Loaded
<1>3. \A v \in Writers : stage[v] = "off"
  BY DEF MayStart
<1>4. TypeOK'
  BY <1>2, <1>3 DEF files
<1>5. OneWriter'
  BY <1>3 DEF OneWriter
<1>6. FilesApart'
  BY DEF FilesApart, files
<1>7. SaveInv'
  BY <1>3 DEF SaveInv
<1>8. CleanIsKept'
  BY <1>2, <1>3 DEF CleanIsKept
<1>9. FileKeepsVerdicts'
  BY <1>1 DEF FileKeepsVerdicts
<1> QED
  BY <1>4, <1>5, <1>6, <1>7, <1>8, <1>9

(* A writer changes the entry of one session in memory (report, main).      *)
LEMMA ChangeStep ==
    ASSUME Inv, NEW w \in Writers, NEW s \in Ids, NEW h \in {"fresh", "burned"},
           stage[w] = "up",
           mem' = [mem EXCEPT ![w][s] = h],
           dirty' = [dirty EXCEPT ![w] = @ \cup {s}],
           stage' = [stage EXCEPT ![w] = "open"],
           UNCHANGED <<files, fd, kept>>
    PROVE  Inv'
<1> USE DEF Inv, TypeOK, SoloInv
<1>1. mem[w] \in Pools /\ [mem[w] EXCEPT ![s] = h] \in Pools
  BY DEF Pools
<1>2. TypeOK'
  BY <1>1 DEF files
<1>3. OneWriter'
  BY DEF OneWriter
<1>4. FilesApart'
  BY DEF FilesApart, files
<1>5. SaveInv'
  BY DEF SaveInv, files
<1>6. CleanIsKept'
  BY <1>1 DEF CleanIsKept, Pools
<1>7. FileKeepsVerdicts'
  BY DEF FileKeepsVerdicts, InPath, files
<1> QED
  BY <1>2, <1>3, <1>4, <1>5, <1>6, <1>7

(* The temporary file is created or truncated.                              *)
LEMMA OpenStep ==
    ASSUME Inv, NEW w \in Writers, Open(w)
    PROVE  Inv'
<1> USE DEF Inv, TypeOK, SoloInv
<1>1. PICK i \in Inodes :
        /\ tmp = NoFile => i \in Unused
        /\ tmp # NoFile => i = tmp
        /\ tmp' = i
        /\ content' = [content EXCEPT ![i] = Torn]
        /\ fd' = [fd EXCEPT ![w] = i]
  BY DEF Open, Unused
<1>2. stage[w] = "open" /\ stage' = [stage EXCEPT ![w] = "write"]
      /\ UNCHANGED <<path, mem, dirty, kept>>
  BY DEF Open
<1>3. i # path /\ i # NoFile
  BY <1>1, InodesAre DEF Unused, FilesApart
<1>4. \A v \in Writers : v # w => stage[v] = "off" /\ fd[v] = NoFile
  BY <1>2 DEF OneWriter
<1>5. TypeOK'
  BY <1>1, <1>2, <1>3
<1>6. OneWriter'
  BY <1>2 DEF OneWriter
<1>7. FilesApart'
  BY <1>1, <1>2, <1>3, <1>4 DEF FilesApart
<1>8. SaveInv'
  BY <1>1, <1>2, <1>4 DEF SaveInv
<1>9. CleanIsKept'
  BY <1>2 DEF CleanIsKept
<1>10. FileKeepsVerdicts'
  BY <1>1, <1>2, <1>3 DEF FileKeepsVerdicts, InPath
<1> QED
  BY <1>5, <1>6, <1>7, <1>8, <1>9, <1>10

(* The temporary file is filled: nobody else has written to it.             *)
LEMMA WriteStep ==
    ASSUME Inv, NEW w \in Writers, Write(w)
    PROVE  Inv'
<1> USE DEF Inv, TypeOK, SoloInv
<1>1. stage[w] = "write" /\ fd[w] # NoFile /\ fd[w] = tmp /\ tmp \in Inodes /\ path # tmp
  BY DEF Write, FilesApart
<1>2. content[tmp] = Torn
  BY <1>1 DEF SaveInv
<1>3. /\ content' = [content EXCEPT ![tmp] = mem[w]]
      /\ fd' = [fd EXCEPT ![w] = NoFile]
      /\ stage' = [stage EXCEPT ![w] = "rename"]
      /\ UNCHANGED <<path, tmp, mem, dirty, kept>>
  BY <1>1, <1>2 DEF Write
<1>4. \A v \in Writers : v # w => stage[v] = "off"
  BY <1>1 DEF OneWriter
<1>5. TypeOK'
  BY <1>1, <1>3
<1>6. OneWriter' /\ FilesApart'
  BY <1>1, <1>3 DEF OneWriter, FilesApart
<1>7. SaveInv'
  BY <1>1, <1>3, <1>4 DEF SaveInv
<1>8. CleanIsKept'
  BY <1>3, <1>1 DEF CleanIsKept
<1>9. FileKeepsVerdicts'
  BY <1>1, <1>3 DEF FileKeepsVerdicts, InPath
<1> QED
  BY <1>5, <1>6, <1>7, <1>8, <1>9

(* A failure harms the temporary file at most.                              *)
LEMMA FailStep ==
    ASSUME Inv, NEW w \in Writers, SaveFails(w)
    PROVE  Inv'
<1> USE DEF Inv, TypeOK, SoloInv
<1>1. /\ stage[w] \in {"open", "write", "rename"}
      /\ fd' = [fd EXCEPT ![w] = NoFile]
      /\ stage' = [stage EXCEPT ![w] = AfterFailure(w)]
      /\ UNCHANGED <<path, tmp, mem, dirty, kept>>
  BY DEF SaveFails
<1>2. AfterFailure(w) \in {"up", "off"}
  BY DEF AfterFailure
<1>3. \A v \in Writers : v # w => stage[v] = "off"
  BY <1>1 DEF OneWriter
<1>4. content' \in [Inodes -> Pools \cup {Torn}] /\ InPath' = InPath
  <2>1. CASE UNCHANGED content
    BY <2>1, <1>1 DEF InPath
  <2>2. CASE stage[w] = "write" /\ content' = [content EXCEPT ![fd[w]] = Torn]
    <3>1. fd[w] \in Inodes /\ fd[w] = tmp
      BY <2>2 DEF FilesApart
    <3> QED
      BY <2>2, <3>1, <1>1 DEF InPath, FilesApart
  <2> QED
    BY <2>1, <2>2 DEF SaveFails
<1>5. TypeOK'
  BY <1>1, <1>2, <1>4
<1>6. OneWriter'
  BY <1>1, <1>3 DEF OneWriter
<1>7. FilesApart'
  BY <1>1 DEF FilesApart
<1>8. SaveInv'
  BY <1>1, <1>2, <1>3 DEF SaveInv
<1>9. CleanIsKept'
  BY <1>1 DEF CleanIsKept
<1>10. FileKeepsVerdicts'
  BY <1>1, <1>4 DEF FileKeepsVerdicts
<1> QED
  BY <1>5, <1>6, <1>7, <1>8, <1>9, <1>10

(* The rename publishes the whole pool of the writer that saves.            *)
LEMMA RenameStep ==
    ASSUME Inv, NEW w \in Writers, Rename(w)
    PROVE  Inv'
<1> USE DEF Inv, TypeOK, SoloInv
<1>1. /\ stage[w] = "rename" /\ tmp # NoFile /\ content[tmp] = mem[w]
      /\ path' = tmp /\ tmp' = NoFile
      /\ dirty' = [dirty EXCEPT ![w] = {}]
      /\ stage' = [stage EXCEPT ![w] = "up"]
      /\ UNCHANGED <<content, fd, mem>>
  BY DEF Rename, SaveInv
<1>2. \A v \in Writers : v # w => stage[v] = "off"
  BY <1>1 DEF OneWriter
<1>3. kept' = mem[w]
  <2>1. mem[w] = [s \in Ids |-> mem[w][s]]
    BY DEF Pools
  <2>2. \A s \in Ids : (IF s \in dirty[w] THEN mem[w][s] ELSE kept[s]) = mem[w][s]
    BY <1>1 DEF CleanIsKept
  <2> QED
    BY <2>1, <2>2 DEF Rename
<1>4. \A v \in Writers : fd[v] = NoFile
  BY <1>1, <1>2
<1>5. TypeOK'
  BY <1>1, <1>3
<1>6. OneWriter' /\ FilesApart'
  BY <1>1, <1>2, <1>4 DEF OneWriter, FilesApart
<1>7. SaveInv'
  BY <1>1, <1>2 DEF SaveInv
<1>8. CleanIsKept'
  BY <1>1, <1>2, <1>3 DEF CleanIsKept
<1>9. FileKeepsVerdicts'
  BY <1>1, <1>3 DEF FileKeepsVerdicts, InPath
<1> QED
  BY <1>5, <1>6, <1>7, <1>8, <1>9

(* Writers go, whatever they were at: the pool is none of their business.   *)
LEMMA LeaveStep ==
    ASSUME Inv, NEW gone \in SUBSET Writers,
           stage' = [w \in Writers |-> IF w \in gone THEN "off" ELSE stage[w]],
           fd' = [w \in Writers |-> IF w \in gone THEN NoFile ELSE fd[w]],
           UNCHANGED <<files, mem, dirty, kept>>
    PROVE  Inv'
<1> USE DEF Inv, TypeOK, SoloInv, files
<1>1. TypeOK'
  OBVIOUS
<1>2. OneWriter' /\ FilesApart'
  BY DEF OneWriter, FilesApart
<1>3. SaveInv' /\ CleanIsKept'
  BY DEF SaveInv, CleanIsKept
<1>4. FileKeepsVerdicts'
  BY DEF FileKeepsVerdicts, InPath
<1> QED
  BY <1>1, <1>2, <1>3, <1>4

(* Every step of a writer that works alone keeps the pool and its file      *)
(* consistent.                                                              *)
LEMMA SoloStep ==
    ASSUME ~Overlap, Inv, [Next]_vars
    PROVE  Inv'
<1>1. ASSUME NEW i \in Instances, Register(i) PROVE Inv'
  BY <1>1, StartStep DEF Register, Writers
<1>2. ASSUME NEW i \in Instances, NEW s \in Ids, NEW ok \in BOOLEAN, Report(i, s, ok)
      PROVE  Inv'
  <2> DEFINE h == IF ok THEN "fresh" ELSE "burned"
  <2>1. h \in {"fresh", "burned"} /\ i \in Writers
    BY DEF Writers
  <2>2. /\ stage[i] = "up"
        /\ mem' = [mem EXCEPT ![i][s] = h]
        /\ dirty' = [dirty EXCEPT ![i] = @ \cup {s}]
        /\ stage' = [stage EXCEPT ![i] = "open"]
        /\ UNCHANGED <<files, fd, kept>>
    BY <1>2 DEF Report
  <2> HIDE DEF h
  <2> QED
    BY <2>1, <2>2, ChangeStep
<1>3. ASSUME NEW m \in Scripts, MintStart(m) PROVE Inv'
  BY <1>3, StartStep DEF MintStart, Writers
<1>4. ASSUME NEW m \in Scripts, MintOne(m) PROVE Inv'
  BY <1>4, ChangeStep DEF MintOne, Writers
<1>5. ASSUME NEW w \in Writers, Retire(w) PROVE Inv'
  <2>1. stage[w] = "up" /\ stage \in [Writers -> {"off", "up", "open", "write", "rename"}]
        /\ fd \in [Writers -> Inodes \cup {NoFile}]
    BY <1>5 DEF Retire, Inv, TypeOK
  <2>2. fd[w] = NoFile
    BY <2>1 DEF Inv, TypeOK
  <2>3. /\ stage' = [v \in Writers |-> IF v \in {w} THEN "off" ELSE stage[v]]
        /\ fd' = [v \in Writers |-> IF v \in {w} THEN NoFile ELSE fd[v]]
    BY <1>5, <2>1, <2>2 DEF Retire
  <2> QED
    BY <1>5, <2>3, LeaveStep, ZenonT(40) DEF Retire
<1>6. CASE Crash(Instances)
  BY <1>6, LeaveStep DEF Crash, Writers
<1>7. ASSUME NEW m \in Scripts, Crash({m}) PROVE Inv'
  BY <1>7, LeaveStep DEF Crash, Writers
<1>8. CASE UNCHANGED vars
  BY <1>8 DEF vars, files, Inv, TypeOK, SoloInv, OneWriter, FilesApart, SaveInv,
             CleanIsKept, FileKeepsVerdicts, InPath
<1> QED
  BY <1>1, <1>2, <1>3, <1>4, <1>5, <1>6, <1>7, <1>8,
     OpenStep, WriteStep, FailStep, RenameStep DEF Next

(* While writers take turns, a save touches nothing but the temporary file  *)
(* until its rename, which publishes a whole and current pool.              *)
THEOREM SoloInvariance ==
    ASSUME ~Overlap
    PROVE  Spec => []Inv
<1>1. Inv /\ [Next]_vars => Inv'
  BY SoloStep
<1> QED
  BY InitInv, <1>1, PTL DEF Spec

(* Writers that take turns keep files, stages and pools apart as typed.     *)
THEOREM TypeCorrect ==
    ASSUME ~Overlap
    PROVE  Spec => []TypeOK
<1>1. Inv => TypeOK
  BY DEF Inv
<1> QED
  BY <1>1, SoloInvariance, PTL

(* A save never shows before it is whole and never forgets what it did not  *)
(* change (saveLocked, under the mutex of its pool).                        *)
THEOREM SavesAreSolo ==
    ASSUME ~Overlap
    PROVE  Spec => []SoloInv
<1>1. Inv => SoloInv
  BY DEF Inv
<1> QED
  BY <1>1, SoloInvariance, PTL

(* loadSessionPool never finds a file that does not parse.                  *)
THEOREM AlwaysWhole ==
    ASSUME ~Overlap
    PROVE  Spec => []PathAlwaysWhole
<1>1. Inv => PathAlwaysWhole
  BY TornIsNoPool DEF Inv, TypeOK, SoloInv, FileKeepsVerdicts, PathAlwaysWhole
<1> QED
  BY <1>1, SoloInvariance, PTL

(* No saved verdict on a session is lost, by a restart, a failure or        *)
(* another save (saveLocked).                                               *)
THEOREM VerdictsKept ==
    ASSUME ~Overlap
    PROVE  Spec => []FileKeepsVerdicts
<1>1. Inv => FileKeepsVerdicts
  BY DEF Inv, SoloInv
<1> QED
  BY <1>1, SoloInvariance, PTL

(* An instance without unsaved reports has in memory what the file holds.   *)
THEOREM IdleIsSaved ==
    ASSUME ~Overlap
    PROVE  Spec => []SavedWhenIdle
<1>1. Inv => SavedWhenIdle
  <2> SUFFICES ASSUME Inv, NEW i \in Instances, stage[i] = "up", dirty[i] = {}
               PROVE  mem[i] = InPath
    BY DEF SavedWhenIdle
  <2>1. i \in Writers /\ mem[i] \in Pools /\ kept \in Pools /\ InPath = kept
    BY DEF Writers, Inv, TypeOK, SoloInv, FileKeepsVerdicts
  <2>2. \A s \in Ids : mem[i][s] = kept[s]
    BY <2>1 DEF Inv, SoloInv, CleanIsKept
  <2> QED
    BY <2>1, <2>2 DEF Pools
<1> QED
  BY <1>1, SoloInvariance, PTL
=============================================================================
