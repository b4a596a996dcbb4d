------------------------- MODULE FileDroppingLoader -------------------------
(***************************************************************************)
(* AbstractFileDroppingLoader: the record loop every file-based loader of  *)
(* binarypig inherits.  Pig's record reader calls prepareToRead once per   *)
(* input split and then getNext until it returns null.  Each getNext drops *)
(* one record into a file of the loader's data directory, lets the         *)
(* subclass process the file, and deletes it again; the last getNext of a  *)
(* split removes the directory.  A JVM also deletes on an orderly exit     *)
(* whatever was registered with File.deleteOnExit.                         *)
(*                                                                         *)
(* Several loaders run at once: in one JVM or in several, with a data      *)
(* directory of their own (/dev/shm/<uuid>) or with "_data" under a        *)
(* working directory that other loaders may share.                         *)
(***************************************************************************)
EXTENDS Naturals, Sequences, FiniteSets, Functions

CONSTANTS
  Loaders,     \* loader instances, one per running map task
  Jvms,        \* the JVMs they run in
  Keys,        \* record keys: the name of the dropped file
  Uuids,       \* the /dev/shm/<uuid> directories
  Cwds,        \* the <cwd>/_data directories
  Jvm,         \* Jvm[l]: the JVM of loader l
  UseDevShm,   \* UseDevShm[l]: the constructor's useDevShm argument
  WorkingDir,  \* WorkingDir[l]: the "_data" of l's working directory
  Splits,      \* Splits[l]: the splits given to l, each a sequence of keys
  None         \* no directory yet, or no owner

ASSUME LoaderAssumption ==
  /\ Jvm \in [Loaders -> Jvms]
  /\ UseDevShm \in [Loaders -> BOOLEAN]
  /\ WorkingDir \in [Loaders -> Cwds]
  /\ Splits \in [Loaders -> Seq(Seq(Keys))]
  /\ Uuids \cap Cwds = {}
  /\ None \notin Uuids \cup Cwds \cup Loaders

VARIABLES
  pc,       \* pc[l]: how far l is in the call Pig made, or between calls
  split,    \* split[l]: number of splits l was prepared for
  pos,      \* pos[l]: number of records l read from its current split
  dataDir,  \* dataDir[l]: the field of that name
  owner,    \* owner[u]: the loader that drew the random name u
  dirs,     \* data directories on disk
  files,    \* dropped files on disk, each <<directory, key>>
  hooks     \* hooks[j]: paths given to deleteOnExit in j, oldest first

vars == <<pc, split, pos, dataDir, owner, dirs, files, hooks>>

Dirs == Uuids \cup Cwds
InCall == {"exists", "init", "process"}
Alive == InCall \cup {"idle", "ready", "failed"}
PCs == Alive \cup {"exited", "killed"}

CurrentSplit(l) == Splits[l][split[l]]
CurrentKey(l) == CurrentSplit(l)[pos[l]]
BinaryFile(l) == <<dataDir[l], CurrentKey(l)>>
FilesIn(d) == {f \in files : f[1] = d}

(***************************************************************************)
(* A loader whose data directory no other loader can have.                 *)
(***************************************************************************)
Isolated(l) ==
  \/ UseDevShm[l]
  \/ \A m \in Loaders \ {l} : UseDevShm[m] \/ WorkingDir[m] # WorkingDir[l]

TypeOK ==
  /\ pc \in [Loaders -> PCs]
  /\ split \in [Loaders -> Nat]
  /\ pos \in [Loaders -> Nat]
  /\ dataDir \in [Loaders -> Dirs \cup {None}]
  /\ owner \in [Uuids -> Loaders \cup {None}]
  /\ dirs \subseteq Dirs
  /\ files \subseteq Dirs \X Keys
  /\ hooks \in [Jvms -> Seq(Seq(Dirs \cup Keys))]

(***************************************************************************)
(* "_data" may be left over from an earlier run in the same directory.     *)
(***************************************************************************)
Init ==
  /\ pc = [l \in Loaders |-> "idle"]
  /\ split = [l \in Loaders |-> 0]
  /\ pos = [l \in Loaders |-> 0]
  /\ dataDir = [l \in Loaders |-> None]
  /\ owner = [u \in Uuids |-> None]
  /\ dirs \in SUBSET Cwds
  /\ files = {}
  /\ hooks = [j \in Jvms |-> << >>]

-----------------------------------------------------------------------------
(* Steps of prepareToRead *)

\* UUID.randomUUID(): a name nobody drew before.
FreshUuids == {u \in Uuids : owner[u] = None}

\* Mutant: the "_data" branch forgets to set the field.
DataDirNamesUnset(l) == IF UseDevShm[l] THEN FreshUuids ELSE {dataDir[l]}

DataDirNames(l) == IF UseDevShm[l] THEN FreshUuids ELSE {WorkingDir[l]}

\* deleteOnExit keeps a set in insertion order.
Registered(l, path) ==
  IF path \in Range(hooks[Jvm[l]])
  THEN hooks
  ELSE [hooks EXCEPT ![Jvm[l]] = Append(@, path)]

\* mkdir() creates the directory or returns false: it is there, or it cannot
\* be created.
MakeDataDir(l) ==
  /\ pc[l] = "idle"
  /\ split[l] < Len(Splits[l])
  /\ split' = [split EXCEPT ![l] = @ + 1]
  /\ pos' = [pos EXCEPT ![l] = 0]
  /\ \E d \in DataDirNames(l) :
       /\ dataDir' = [dataDir EXCEPT ![l] = d]
       /\ owner' = IF UseDevShm[l] THEN [owner EXCEPT ![d] = l] ELSE owner
       /\ \/ /\ d \notin dirs
             /\ dirs' = dirs \cup {d}
             /\ hooks' = Registered(l, <<d>>)
             /\ pc' = [pc EXCEPT ![l] = "init"]
          \/ /\ pc' = [pc EXCEPT ![l] = "exists"]
             /\ UNCHANGED <<dirs, hooks>>
  /\ UNCHANGED files

\* Mutant: only the loader whose mkdir() succeeded registers the directory.
CheckDataDirUnregistered(l) ==
  /\ pc[l] = "exists"
  /\ pc' = [pc EXCEPT ![l] = IF dataDir[l] \in dirs THEN "init" ELSE "failed"]
  /\ UNCHANGED <<split, pos, dataDir, owner, dirs, files, hooks>>

\* Mutant: the result of mkdir() is ignored.
CheckDataDirIgnored(l) ==
  /\ pc[l] = "exists"
  /\ hooks' = Registered(l, <<dataDir[l]>>)
  /\ pc' = [pc EXCEPT ![l] = "init"]
  /\ UNCHANGED <<split, pos, dataDir, owner, dirs, files>>

\* exists() is asked after mkdir() returned false: another loader may have
\* removed the directory in between.
CheckDataDir(l) ==
  /\ pc[l] = "exists"
  /\ \/ /\ dataDir[l] \in dirs
        /\ hooks' = Registered(l, <<dataDir[l]>>)
        /\ pc' = [pc EXCEPT ![l] = "init"]
     \/ /\ dataDir[l] \notin dirs
        /\ pc' = [pc EXCEPT ![l] = "failed"]
        /\ UNCHANGED hooks
  /\ UNCHANGED <<split, pos, dataDir, owner, dirs, files>>

\* init() and what a subclass does after it: connect to its daemon, or find
\* its script.  Either may throw.
InitLoader(l) ==
  /\ pc[l] = "init"
  /\ \E next \in {"ready", "failed"} : pc' = [pc EXCEPT ![l] = next]
  /\ UNCHANGED <<split, pos, dataDir, owner, dirs, files, hooks>>

-----------------------------------------------------------------------------
(* Steps of getNext *)

\* nextKeyValue() itself throws.
ReadFails(l) ==
  /\ pc[l] = "ready"
  /\ pc' = [pc EXCEPT ![l] = "failed"]
  /\ UNCHANGED <<split, pos, dataDir, owner, dirs, files, hooks>>

\* Mutant: writeToFile swallows its IOException, as drainInputStream does.
DropFileSwallowing(l) ==
  /\ pc[l] = "ready"
  /\ pos[l] < Len(CurrentSplit(l))
  /\ pos' = [pos EXCEPT ![l] = @ + 1]
  /\ LET file == <<dataDir[l], CurrentSplit(l)[pos[l] + 1]>> IN
       /\ hooks' = Registered(l, file)
       /\ \/ dataDir[l] \in dirs /\ files' = files \cup {file}
          \/ files' = files
  /\ pc' = [pc EXCEPT ![l] = "process"]
  /\ UNCHANGED <<split, dataDir, owner, dirs>>

\* The path is registered, then the record is written.  When the write
\* fails the finally clause deletes what was written.
DropFile(l) ==
  /\ pc[l] = "ready"
  /\ pos[l] < Len(CurrentSplit(l))
  /\ pos' = [pos EXCEPT ![l] = @ + 1]
  /\ LET file == <<dataDir[l], CurrentSplit(l)[pos[l] + 1]>> IN
       /\ hooks' = Registered(l, file)
       /\ \/ /\ dataDir[l] \in dirs
             /\ files' = files \cup {file}
             /\ pc' = [pc EXCEPT ![l] = "process"]
          \/ /\ files' = files \ {file}
             /\ pc' = [pc EXCEPT ![l] = "failed"]
  /\ UNCHANGED <<split, dataDir, owner, dirs>>

\* Mutant: the delete stands after the call, not in a finally clause.
ProcessFileNoFinally(l) ==
  /\ pc[l] = "process"
  /\ \/ pc' = [pc EXCEPT ![l] = "ready"] /\ files' = files \ {BinaryFile(l)}
     \/ pc' = [pc EXCEPT ![l] = "failed"] /\ files' = files
  /\ UNCHANGED <<split, pos, dataDir, owner, dirs, hooks>>

\* processFile returns a tuple or throws; the finally clause deletes the
\* file in both cases.
ProcessFile(l) ==
  /\ pc[l] = "process"
  /\ files' = files \ {BinaryFile(l)}
  /\ \E next \in {"ready", "failed"} : pc' = [pc EXCEPT ![l] = next]
  /\ UNCHANGED <<split, pos, dataDir, owner, dirs, hooks>>

\* No record is left: cleanUp deletes the directory with what is in it, and
\* any failure half way is printed and forgotten.
CleanUp(l) ==
  /\ pc[l] = "ready"
  /\ pos[l] = Len(CurrentSplit(l))
  /\ \E gone \in SUBSET FilesIn(dataDir[l]) :
       /\ files' = files \ gone
       /\ \/ /\ gone = FilesIn(dataDir[l])
             /\ dirs' = dirs \ {dataDir[l]}
          \/ UNCHANGED dirs
  /\ pc' = [pc EXCEPT ![l] = "idle"]
  /\ UNCHANGED <<split, pos, dataDir, owner, hooks>>

-----------------------------------------------------------------------------
(* The end of a JVM *)

\* The exit hook goes through the registered paths from the newest to the
\* oldest: a directory goes only if what was in it is gone by then.
RemovedByHook(j, d) ==
  \E i \in DOMAIN hooks[j] :
    /\ hooks[j][i] = <<d>>
    /\ \A f \in FilesIn(d) :
         \E n \in DOMAIN hooks[j] : n > i /\ hooks[j][n] = f

\* Every call has returned or thrown, and the JVM runs its exit hooks.
JvmExit(j) ==
  /\ \E l \in Loaders : Jvm[l] = j
  /\ \A l \in Loaders : Jvm[l] = j => pc[l] \in Alive \ InCall
  /\ pc' = [l \in Loaders |-> IF Jvm[l] = j THEN "exited" ELSE pc[l]]
  /\ files' = files \ Range(hooks[j])
  /\ dirs' = {d \in dirs : ~RemovedByHook(j, d)}
  /\ UNCHANGED <<split, pos, dataDir, owner, hooks>>

\* The JVM is killed: no hook runs.
Kill(j) ==
  /\ \E l \in Loaders : Jvm[l] = j /\ pc[l] \in Alive
  /\ pc' = [l \in Loaders |-> IF Jvm[l] = j THEN "killed" ELSE pc[l]]
  /\ UNCHANGED <<split, pos, dataDir, owner, dirs, files, hooks>>

\* Nothing runs any more.
Over ==
  /\ \A l \in Loaders : pc[l] \notin Alive
  /\ UNCHANGED vars

Next ==
  \/ \E l \in Loaders :
       \/ MakeDataDir(l) \/ CheckDataDir(l) \/ InitLoader(l)
       \/ ReadFails(l) \/ DropFile(l) \/ ProcessFile(l) \/ CleanUp(l)
  \/ \E j \in Jvms : JvmExit(j) \/ Kill(j)
  \/ Over

Spec == Init /\ [][Next]_vars

-----------------------------------------------------------------------------
(* Properties *)

(* While processFile runs, the file it was given is there: no other loader *)
(* and no exit hook of another JVM removed it.  Loaders that share "_data" *)
(* are excluded, for them it does not hold.                                *)
InputFilePresent ==
  \A l \in Loaders :
    Isolated(l) /\ pc[l] = "process" => BinaryFile(l) \in files

(* From makeDataDir to cleanUp the data directory of an isolated loader    *)
(* stands, whatever the other loaders and JVMs do.                         *)
DataDirStands ==
  \A l \in Loaders :
    Isolated(l) /\ pc[l] \in {"init", "ready", "process"}
      => dataDir[l] \in dirs

(* What a loader of its own directory works on is there while it works on  *)
(* it: the file that processFile was given, and the directory.             *)
FilesStand == InputFilePresent /\ DataDirStands

(* What a kill can leave behind: of an isolated loader never more than the *)
(* one file in process, in its present directory; in directories of its    *)
(* earlier splits nothing.                                                 *)
OneDroppedFile ==
  \A l \in Loaders :
    Isolated(l) =>
      \A f \in files :
        (f[1] = dataDir[l] \/ (f[1] \in Uuids /\ owner[f[1]] = l)) =>
           pc[l] \in {"process", "killed"} /\ f = BinaryFile(l)

(* An orderly exit leaves nothing: once all the JVMs whose loaders used a  *)
(* data directory have exited, it is gone, also when cleanUp failed, when  *)
(* a loader threw, and when loaders of several JVMs shared the directory.  *)
UsersOf(d) ==
  {l \in Loaders : dataDir[l] = d \/ (d \in Uuids /\ owner[d] = l)}

NoOrphansAfterExit ==
  \A d \in Dirs :
    UsersOf(d) # {} /\ (\A l \in UsersOf(d) : pc[l] = "exited")
      => d \notin dirs /\ FilesIn(d) = {}
=============================================================================
