------------------------------ MODULE PoolFile ------------------------------
(***************************************************************************)
(* The life of the session pool's file.  Every plugin instance reads it     *)
(* once, when it is built (src/free.go, loadSessionPool), and rewrites all  *)
(* of it after every report (saveLocked); the minting script reads it once  *)
(* and rewrites all of it after every session it mints.  All of them write  *)
(* to the same temporary name and rename it, no one takes a lock on the     *)
(* file, and any write can fail or be cut short by a crash.                 *)
(*                                                                          *)
(* A file is an inode: a writer that still holds the descriptor of a        *)
(* temporary file that another one has renamed writes into the pool itself. *)
(* A session's health is fresh or burned; counters, deadlines and the       *)
(* choice of a session are SessionPool's and FreeCall's matter.             *)
(***************************************************************************)
EXTENDS Naturals

CONSTANTS
    Instances,   \* plugin instances, one for each register or reconfigure call
    Scripts,     \* runs of scripts/mint_sessions.py
    Ids,         \* session ids
    Overlap,     \* may a writer start while another one is still at work?
    NumInodes    \* bound on the inodes in use at once

ASSUME PoolFileAssumption ==
    /\ Ids # {}
    /\ Overlap \in BOOLEAN
    /\ Instances \cap Scripts = {}
    /\ NumInodes \in Nat \ {0}

Inodes == 1 .. NumInodes
NoFile == 0
Writers == Instances \cup Scripts

(* What a file holds: a pool, or bytes that are not the JSON of one.        *)
Pools == [Ids -> {"absent", "fresh", "burned"}]
Torn  == [s \in Ids |-> "torn"]
Empty == [s \in Ids |-> "absent"]

VARIABLES
    path,      \* the inode the pool's name leads to
    tmp,       \* the inode the temporary name leads to
    content,   \* what every inode holds
    stage,     \* what every writer is doing
    fd,        \* the inode every writer has open
    mem,       \* the pool every writer has in memory
    dirty,     \* history: the sessions it changed since it last saved them
    kept       \* history: the last saved word on every session, by any writer

files == <<path, tmp, content>>
vars  == <<files, stage, fd, mem, dirty, kept>>

TypeOK ==
    /\ path \in Inodes \cup {NoFile}
    /\ tmp \in Inodes \cup {NoFile}
    /\ content \in [Inodes -> Pools \cup {Torn}]
    /\ stage \in [Writers -> {"off", "up", "open", "write", "rename"}]
    /\ fd \in [Writers -> Inodes \cup {NoFile}]
    /\ \A w \in Writers : fd[w] # NoFile <=> stage[w] = "write"
    /\ mem \in [Writers -> Pools]
    /\ dirty \in [Writers -> SUBSET Ids]
    /\ kept \in Pools

InPath == IF path = NoFile THEN Empty ELSE content[path]

Init ==
    /\ path = NoFile \/ path = 1
    /\ tmp = NoFile
    /\ \E p \in Pools : content = [i \in Inodes |-> IF i = path THEN p ELSE Empty]
    /\ stage = [w \in Writers |-> "off"]
    /\ fd = [w \in Writers |-> NoFile]
    /\ mem = [w \in Writers |-> Empty]
    /\ dirty = [w \in Writers |-> {}]
    /\ kept = InPath

MayStart(w) ==
    /\ stage[w] = "off"
    /\ Overlap \/ \A v \in Writers : stage[v] = "off"

(* loadSessionPool: a file that is missing or does not parse is an empty    *)
(* pool.                                                                    *)
(* A deliberate fault: the health of a session is not read back.            *)
LoadedHealthy(file) ==
    IF file = Torn THEN Empty
    ELSE [s \in Ids |-> IF file[s] = "absent" THEN "absent" ELSE "fresh"]
Loaded(file) == IF file = Torn THEN Empty ELSE file

(* register and reconfigure build an instance of their own; the requests of *)
(* the one it replaces go on with the pool they know.                       *)
Register(i) ==
    /\ MayStart(i)
    /\ mem' = [mem EXCEPT ![i] = Loaded(InPath)]
    /\ dirty' = [dirty EXCEPT ![i] = {}]
    /\ stage' = [stage EXCEPT ![i] = "up"]
    /\ UNCHANGED <<files, fd, kept>>

(* A deliberate fault: a success is not saved.                              *)
ReportSavesFailures(i, s, ok) ==
    /\ stage[i] = "up"
    /\ mem[i][s] # "absent"
    /\ mem' = [mem EXCEPT ![i][s] = IF ok THEN "fresh" ELSE "burned"]
    /\ dirty' = IF ok THEN dirty ELSE [dirty EXCEPT ![i] = @ \cup {s}]
    /\ stage' = IF ok THEN stage ELSE [stage EXCEPT ![i] = "open"]
    /\ UNCHANGED <<files, fd, kept>>

(* report changes the entry of a session the pool has and goes on to save,  *)
(* under the mutex of its pool: an instance saves one report at a time.     *)
Report(i, s, ok) ==
    /\ stage[i] = "up"
    /\ mem[i][s] # "absent"
    /\ mem' = [mem EXCEPT ![i][s] = IF ok THEN "fresh" ELSE "burned"]
    /\ dirty' = [dirty EXCEPT ![i] = @ \cup {s}]
    /\ stage' = [stage EXCEPT ![i] = "open"]
    /\ UNCHANGED <<files, fd, kept>>

(* The script gives up on a file that does not parse; a missing one is an   *)
(* empty pool.                                                              *)
MintStart(m) ==
    /\ MayStart(m)
    /\ InPath # Torn
    /\ mem' = [mem EXCEPT ![m] = InPath]
    /\ dirty' = [dirty EXCEPT ![m] = {}]
    /\ stage' = [stage EXCEPT ![m] = "up"]
    /\ UNCHANGED <<files, fd, kept>>

(* A session the upstream has just handed out is new to everybody.          *)
MintOne(m) ==
    /\ stage[m] = "up"
    /\ \E s \in Ids :
          /\ \A w \in Writers : mem[w][s] = "absent"
          /\ kept[s] = "absent"
          /\ mem' = [mem EXCEPT ![m][s] = "fresh"]
          /\ dirty' = [dirty EXCEPT ![m] = @ \cup {s}]
    /\ stage' = [stage EXCEPT ![m] = "open"]
    /\ UNCHANGED <<files, fd, kept>>

(***************************************************************************)
(* The save: open the temporary file, write it, rename it.                 *)
(***************************************************************************)
Unused == {i \in Inodes : i \notin {path, tmp} /\ \A w \in Writers : fd[w] # i}

(* A failure ends an instance's save quietly and the script with an error.  *)
AfterFailure(w) == IF w \in Instances THEN "up" ELSE "off"

(* A deliberate fault: the pool is written in place.                        *)
OpenInPlace(w) ==
    /\ stage[w] = "open"
    /\ path # NoFile
    /\ content' = [content EXCEPT ![path] = Torn]
    /\ fd' = [fd EXCEPT ![w] = path]
    /\ stage' = [stage EXCEPT ![w] = "write"]
    /\ UNCHANGED <<path, tmp, mem, dirty, kept>>

(* Opening truncates the temporary file or creates it.                      *)
Open(w) ==
    /\ stage[w] = "open"
    /\ \E i \in IF tmp = NoFile THEN Unused ELSE {tmp} :
          /\ tmp' = i
          /\ content' = [content EXCEPT ![i] = Torn]
          /\ fd' = [fd EXCEPT ![w] = i]
    /\ stage' = [stage EXCEPT ![w] = "write"]
    /\ UNCHANGED <<path, mem, dirty, kept>>

(* The whole pool is written from the start of the file.  Over what another *)
(* writer has written there since, its longer tail may show: the result     *)
(* need not parse.                                                          *)
Write(w) ==
    /\ stage[w] = "write"
    /\ \E c \in {mem[w]} \cup IF content[fd[w]] = Torn THEN {} ELSE {Torn} :
          content' = [content EXCEPT ![fd[w]] = c]
    /\ fd' = [fd EXCEPT ![w] = NoFile]
    /\ stage' = [stage EXCEPT ![w] = "rename"]
    /\ UNCHANGED <<path, tmp, mem, dirty, kept>>

(* A deliberate fault: a write that fails leaves the file open.             *)
SaveFailsLeaksFile(w) ==
    /\ stage[w] \in {"open", "write", "rename"}
    /\ stage' = [stage EXCEPT ![w] = AfterFailure(w)]
    /\ UNCHANGED <<files, fd, mem, dirty, kept>>

(* Opening, writing (some of it) or renaming fails: the temporary file      *)
(* stays as it is.                                                          *)
SaveFails(w) ==
    /\ stage[w] \in {"open", "write", "rename"}
    /\ \/ UNCHANGED content
       \/ stage[w] = "write" /\ content' = [content EXCEPT ![fd[w]] = Torn]
    /\ fd' = [fd EXCEPT ![w] = NoFile]
    /\ stage' = [stage EXCEPT ![w] = AfterFailure(w)]
    /\ UNCHANGED <<path, tmp, mem, dirty, kept>>

(* The rename takes whatever bears the temporary name by now.               *)
Rename(w) ==
    /\ stage[w] = "rename"
    /\ tmp # NoFile
    /\ path' = tmp
    /\ tmp' = NoFile
    /\ kept' = [s \in Ids |-> IF s \in dirty[w] THEN mem[w][s] ELSE kept[s]]
    /\ dirty' = [dirty EXCEPT ![w] = {}]
    /\ stage' = [stage EXCEPT ![w] = "up"]
    /\ UNCHANGED <<content, fd, mem>>

(* The last request of a replaced instance returns, or the script ends.     *)
Retire(w) ==
    /\ stage[w] = "up"
    /\ stage' = [stage EXCEPT ![w] = "off"]
    /\ UNCHANGED <<files, fd, mem, dirty, kept>>

(* A crash takes every writer of one process with it, at whatever point of  *)
(* a save they are; the files stay as they are.  A write is one system call  *)
(* and is not cut in two by the death of its process.                       *)
Crash(process) ==
    /\ \E w \in process : stage[w] # "off"
    /\ stage' = [w \in Writers |-> IF w \in process THEN "off" ELSE stage[w]]
    /\ fd' = [w \in Writers |-> IF w \in process THEN NoFile ELSE fd[w]]
    /\ UNCHANGED <<files, mem, dirty, kept>>

Next ==
    \/ \E i \in Instances : Register(i)
    \/ \E i \in Instances, s \in Ids, ok \in BOOLEAN : Report(i, s, ok)
    \/ \E m \in Scripts : MintStart(m) \/ MintOne(m)
    \/ \E w \in Writers : Open(w) \/ Write(w) \/ SaveFails(w) \/ Rename(w) \/ Retire(w)
    \/ Crash(Instances)
    \/ \E m \in Scripts : Crash({m})

Spec == Init /\ [][Next]_vars

(***************************************************************************)
(* Properties                                                              *)
(***************************************************************************)

(* Whoever reads the pool's name reads a whole pool, at every moment of a   *)
(* save, after a failed write and after a crash: loadSessionPool would take *)
(* anything else for an empty pool, without a word.                         *)
PathAlwaysWhole == InPath # Torn

(* The file has the last saved word on every session: a burned session is   *)
(* not resurrected by a restart or by another save, a pardoned one is not   *)
(* burned again, a minted one does not disappear ("persists health counters *)
(* so restarts don't resurrect burned sessions").                           *)
FileKeepsVerdicts == InPath = kept

(* An instance that is not saving, and whose last save did not fail, has in *)
(* memory what a restart would read.                                        *)
SavedWhenIdle ==
    \A i \in Instances : stage[i] = "up" /\ dirty[i] = {} => mem[i] = InPath

(***************************************************************************)
(* The inductive invariant behind these, while writers take turns.         *)
(***************************************************************************)
OneWriter ==
    \A v, w \in Writers : stage[v] # "off" /\ stage[w] # "off" => v = w

(* The pool is never the temporary file, and only that one is open.         *)
FilesApart ==
    /\ path # NoFile => path # tmp
    /\ \A w \in Writers : fd[w] # NoFile => fd[w] = tmp

SaveInv ==
    \A w \in Writers :
        /\ stage[w] = "write" => content[fd[w]] = Torn
        /\ stage[w] = "rename" => tmp # NoFile /\ content[tmp] = mem[w]

(* What a writer has not changed is what was last saved.                    *)
CleanIsKept ==
    \A w \in Writers, s \in Ids :
        stage[w] # "off" /\ s \notin dirty[w] => mem[w][s] = kept[s]

(* A save that is under way touches nothing but the temporary file, and the *)
(* file it is about to rename holds the writer's whole pool, in which       *)
(* everything it did not change is as last saved.                           *)
SoloInv == OneWriter /\ FilesApart /\ SaveInv /\ CleanIsKept /\ FileKeepsVerdicts

(* The part of FileKeepsVerdicts that the comment on saveLocked claims for  *)
(* every restart, and that overlapping writers break: an instance that is   *)
(* built when the last saved word on a session is "burned" does not take    *)
(* the session for a fresh one.                                             *)
RestartsKeepBurned ==
    [][\A i \in Instances, s \in Ids :
          stage[i] = "off" /\ stage'[i] = "up" /\ kept[s] = "burned" =>
              mem'[i][s] # "fresh"]_vars
=============================================================================
