----------------------- MODULE ExecutingLoaderProofs ------------------------
(***************************************************************************)
(* Safety of the executing loaders: of the record loop, for any number of  *)
(* loaders, JVMs, directories and splits, and of one processFile call with *)
(* its ProgramExector thread, for every program, timeout, pipe capacity    *)
(* and width of a long.                                                    *)
(***************************************************************************)
EXTENDS FileDroppingLoader, ProgramExector, TLAPS

-----------------------------------------------------------------------------
(***************************************************************************)
(* The record loop: AbstractFileDroppingLoader.                            *)
(***************************************************************************)

(***************************************************************************)
(* The directories that are l's by name: the /dev/shm names it drew, or    *)
(* the "_data" of its working directory.                                   *)
(***************************************************************************)
Claims(l, d) ==
  IF UseDevShm[l] THEN d \in Uuids /\ owner[d] = l ELSE d = WorkingDir[l]

Prepared == {"exists", "init", "ready", "process"}

PosOK ==
  \A l \in Loaders :
    /\ split[l] <= Len(Splits[l])
    /\ pc[l] \in Prepared =>
         split[l] > 0 /\ pos[l] <= Len(CurrentSplit(l)) /\ dataDir[l] # None
    /\ pc[l] = "process" => pos[l] > 0

DataDirClaimed ==
  \A l \in Loaders : dataDir[l] # None => Claims(l, dataDir[l])

OwnersUseDevShm ==
  \A u \in Uuids : owner[u] # None => UseDevShm[owner[u]]

FreshIsEmpty ==
  \A u \in Uuids : owner[u] = None => \A f \in files : f[1] # u

HooksClaimed ==
  \A j \in Jvms : \A i \in DOMAIN hooks[j] :
    \E l \in Loaders : Jvm[l] = j /\ Claims(l, hooks[j][i][1])

OneFile ==
  \A l \in Loaders : Isolated(l) =>
    \A f \in files : Claims(l, f[1]) =>
      pc[l] \in {"process", "killed"} /\ f = BinaryFile(l)

IInv ==
  /\ TypeOK
  /\ PosOK
  /\ DataDirClaimed
  /\ OwnersUseDevShm
  /\ FreshIsEmpty
  /\ HooksClaimed
  /\ OneFile
  /\ DataDirStands
  /\ InputFilePresent

-----------------------------------------------------------------------------
(* Lemmas *)

(* No two loaders claim one directory, if one of them is isolated.         *)
LEMMA ClaimsApart ==
  ASSUME NEW l \in Loaders, NEW m \in Loaders, NEW d,
         Isolated(l), Claims(l, d), Claims(m, d)
  PROVE  l = m
BY LoaderAssumption DEF Isolated, Claims

(* A claim is never lost: drawing a fresh name takes it from nobody.       *)
LEMMA ClaimsStay ==
  ASSUME TypeOK, NEW l \in Loaders, MakeDataDir(l),
         NEW m \in Loaders, NEW d, Claims(m, d)
  PROVE  Claims(m, d)'
BY LoaderAssumption DEF TypeOK, MakeDataDir, DataDirNames, FreshUuids, Claims

(* deleteOnExit keeps the hooks well typed ...                             *)
LEMMA RegisteredType ==
  ASSUME TypeOK, NEW l \in Loaders, NEW path \in Seq(Dirs \cup Keys)
  PROVE  Registered(l, path) \in [Jvms -> Seq(Seq(Dirs \cup Keys))]
BY LoaderAssumption DEF TypeOK, Registered

(* ... and adds to the paths of l's JVM at most the one given.             *)
LEMMA RegisteredPaths ==
  ASSUME TypeOK, NEW l \in Loaders, NEW path \in Seq(Dirs \cup Keys),
         NEW j \in Jvms, NEW i \in DOMAIN Registered(l, path)[j]
  PROVE  \/ i \in DOMAIN hooks[j] /\ Registered(l, path)[j][i] = hooks[j][i]
         \/ j = Jvm[l] /\ Registered(l, path)[j][i] = path
<1>1. CASE path \in Range(hooks[Jvm[l]])
  BY <1>1 DEF Registered
<1>2. CASE path \notin Range(hooks[Jvm[l]])
  <2>1. hooks[j] \in Seq(Seq(Dirs \cup Keys))
    BY DEF TypeOK
  <2>2. CASE j = Jvm[l]
    <3>1. Registered(l, path)[j] = Append(hooks[j], path)
      BY <1>2, <2>2 DEF Registered, TypeOK
    <3>2. i \in 1 .. Len(hooks[j]) + 1
      BY <2>1, <3>1
    <3> QED BY <2>1, <2>2, <3>1, <3>2
  <2>3. CASE j # Jvm[l]
    BY <1>2, <2>3 DEF Registered, TypeOK
  <2> QED BY <2>2, <2>3
<1> QED BY <1>1, <1>2

(* What a step that registers a path of l's own directory keeps.           *)
LEMMA HooksStayClaimed ==
  ASSUME TypeOK, HooksClaimed,
         NEW l \in Loaders, NEW path \in Seq(Dirs \cup Keys),
         hooks' = Registered(l, path), Claims(l, path[1])',
         \A m \in Loaders : \A d : Claims(m, d) => Claims(m, d)'
  PROVE  HooksClaimed'
<1> SUFFICES ASSUME NEW j \in Jvms, NEW i \in DOMAIN hooks'[j]
             PROVE  \E m \in Loaders : Jvm[m] = j /\ Claims(m, hooks[j][i][1])'
  BY DEF HooksClaimed
<1>1. CASE i \in DOMAIN hooks[j] /\ hooks'[j][i] = hooks[j][i]
  BY <1>1 DEF HooksClaimed
<1>2. CASE j = Jvm[l] /\ hooks'[j][i] = path
  BY <1>2
<1> QED BY <1>1, <1>2, RegisteredPaths

-----------------------------------------------------------------------------
(* Every step keeps the invariant *)

(* The data directory of a prepared loader is one it claims.               *)
LEMMA OwnDataDir ==
  ASSUME IInv, NEW l \in Loaders, pc[l] \in Prepared
  PROVE  dataDir[l] \in Dirs /\ Claims(l, dataDir[l])
BY DEF IInv, PosOK, DataDirClaimed, TypeOK

LEMMA CheckDataDirStep ==
  ASSUME IInv, NEW l \in Loaders, CheckDataDir(l)
  PROVE  IInv'
<1> USE DEF IInv
<1>1. dataDir[l] \in Dirs /\ Claims(l, dataDir[l]) /\ <<dataDir[l]>> \in Seq(Dirs \cup Keys)
  BY OwnDataDir DEF CheckDataDir, Prepared
<1>2. TypeOK'
  <2>1. TypeOK
    OBVIOUS
  <2>2. pc' \in [Loaders -> PCs]
    BY <2>1 DEF TypeOK, CheckDataDir, PCs, Alive, InCall
  <2>3. hooks' \in [Jvms -> Seq(Seq(Dirs \cup Keys))]
    <3>1. Registered(l, <<dataDir[l]>>) \in [Jvms -> Seq(Seq(Dirs \cup Keys))]
      BY <1>1, <2>1, RegisteredType
    <3>2. hooks' = Registered(l, <<dataDir[l]>>) \/ hooks' = hooks
      BY DEF CheckDataDir
    <3> QED BY <2>1, <3>1, <3>2 DEF TypeOK
  <2> QED BY <2>1, <2>2, <2>3 DEF TypeOK, CheckDataDir
<1>3. PosOK'
  BY DEF PosOK, CheckDataDir, TypeOK, Prepared, CurrentSplit
<1>4. HooksClaimed'
  <2>1. CASE hooks' = Registered(l, <<dataDir[l]>>)
    BY <1>1, <2>1, HooksStayClaimed DEF CheckDataDir, Claims
  <2>2. CASE hooks' = hooks
    BY <2>2 DEF HooksClaimed, CheckDataDir, Claims
  <2> QED BY <2>1, <2>2 DEF CheckDataDir
<1>5. DataDirClaimed' /\ OwnersUseDevShm' /\ FreshIsEmpty'
  BY DEF DataDirClaimed, OwnersUseDevShm, FreshIsEmpty, CheckDataDir, Claims
<1>6. OneFile'
  BY DEF OneFile, CheckDataDir, Claims, BinaryFile, CurrentKey, CurrentSplit, TypeOK
<1>7. DataDirStands' /\ InputFilePresent'
  BY DEF DataDirStands, InputFilePresent, CheckDataDir, BinaryFile, CurrentKey,
         CurrentSplit, TypeOK
<1> QED BY <1>2, <1>3, <1>4, <1>5, <1>6, <1>7

(* init, and a read that throws, only move the loader's control.           *)
LEMMA ControlStep ==
  ASSUME IInv, NEW l \in Loaders, InitLoader(l) \/ ReadFails(l)
  PROVE  IInv'
<1> USE DEF IInv, InitLoader, ReadFails
<1>1. TypeOK'
  BY DEF TypeOK, PCs, Alive, InCall
<1>2. PosOK'
  BY DEF PosOK, TypeOK, Prepared, CurrentSplit
<1>3. DataDirClaimed' /\ OwnersUseDevShm' /\ FreshIsEmpty' /\ HooksClaimed'
  BY DEF DataDirClaimed, OwnersUseDevShm, FreshIsEmpty, HooksClaimed, Claims
<1>4. OneFile'
  BY DEF OneFile, Claims, BinaryFile, CurrentKey, CurrentSplit, TypeOK
<1>5. DataDirStands'
  BY DEF DataDirStands, TypeOK
<1>6. InputFilePresent'
  BY DEF InputFilePresent, BinaryFile, CurrentKey, CurrentSplit, TypeOK
<1> QED BY <1>1, <1>2, <1>3, <1>4, <1>5, <1>6

LEMMA MakeDataDirStep ==
  ASSUME IInv, NEW l \in Loaders, MakeDataDir(l)
  PROVE  IInv'
<1> USE DEF IInv
<1>1. PICK d \in DataDirNames(l) :
        /\ dataDir' = [dataDir EXCEPT ![l] = d]
        /\ owner' = IF UseDevShm[l] THEN [owner EXCEPT ![d] = l] ELSE owner
        /\ \/ /\ d \notin dirs
              /\ dirs' = dirs \cup {d}
              /\ hooks' = Registered(l, <<d>>)
              /\ pc' = [pc EXCEPT ![l] = "init"]
           \/ /\ pc' = [pc EXCEPT ![l] = "exists"]
              /\ UNCHANGED <<dirs, hooks>>
  BY DEF MakeDataDir
<1>2. d \in Dirs /\ d # None /\ <<d>> \in Seq(Dirs \cup Keys)
  BY LoaderAssumption DEF DataDirNames, FreshUuids, Dirs
<1>3. Claims(l, d)'
  BY <1>1, LoaderAssumption DEF DataDirNames, FreshUuids, Claims, TypeOK
<1>4. \A m \in Loaders : \A e : Claims(m, e) => Claims(m, e)'
  BY ClaimsStay
<1>5. \A m \in Loaders \ {l} : \A e : Claims(m, e)' => Claims(m, e)
  BY <1>1 DEF Claims, TypeOK, DataDirNames, FreshUuids
<1>6. TypeOK'
  <2>1. hooks' \in [Jvms -> Seq(Seq(Dirs \cup Keys))]
    <3>1. Registered(l, <<d>>) \in [Jvms -> Seq(Seq(Dirs \cup Keys))]
      BY <1>2, RegisteredType
    <3> QED BY <1>1, <3>1 DEF TypeOK
  <2>2. owner' \in [Uuids -> Loaders \cup {None}]
    BY <1>1 DEF TypeOK, DataDirNames, FreshUuids
  <2>3. pc' \in [Loaders -> PCs] /\ dirs' \subseteq Dirs
    BY <1>1, <1>2 DEF TypeOK, PCs, Alive, InCall
  <2>4. split' \in [Loaders -> Nat] /\ pos' \in [Loaders -> Nat] /\ files' = files
    BY DEF TypeOK, MakeDataDir
  <2>5. dataDir' \in [Loaders -> Dirs \cup {None}]
    BY <1>1, <1>2 DEF TypeOK
  <2> QED BY <2>1, <2>2, <2>3, <2>4, <2>5 DEF TypeOK
<1>7. PosOK'
  <2>1. Splits[l] \in Seq(Seq(Keys)) /\ split[l] \in Nat
    BY LoaderAssumption DEF TypeOK
  <2>2. split'[l] \in 1 .. Len(Splits[l]) /\ pos'[l] = 0
    BY <2>1 DEF MakeDataDir, TypeOK
  <2>3. Splits[l][split'[l]] \in Seq(Keys)
    BY <2>1, <2>2
  <2>4. pos'[l] <= Len(Splits[l][split'[l]])
    BY <2>2, <2>3
  <2>5. \A m \in Loaders \ {l} :
          /\ pc'[m] = pc[m] /\ pos'[m] = pos[m] /\ dataDir'[m] = dataDir[m]
          /\ split'[m] = split[m]
    BY <1>1 DEF MakeDataDir, TypeOK
  <2>6. pc'[l] # "process" /\ dataDir'[l] # None
    BY <1>1, <1>2 DEF TypeOK
  <2>7. ASSUME NEW m \in Loaders
        PROVE  /\ split'[m] <= Len(Splits[m])
               /\ pc'[m] \in Prepared =>
                    split'[m] > 0 /\ pos'[m] <= Len(Splits[m][split'[m]]) /\ dataDir'[m] # None
               /\ pc'[m] = "process" => pos'[m] > 0
    <3>1. CASE m = l
      BY <2>2, <2>4, <2>6, <3>1
    <3>2. CASE m # l
      BY <2>5, <3>2 DEF PosOK, CurrentSplit
    <3> QED BY <3>1, <3>2
  <2> QED BY <2>7 DEF PosOK, CurrentSplit
<1>8. DataDirClaimed'
  BY <1>1, <1>2, <1>3, <1>4 DEF DataDirClaimed, TypeOK
<1>9. OwnersUseDevShm'
  BY <1>1, LoaderAssumption DEF OwnersUseDevShm, TypeOK, DataDirNames, FreshUuids
<1>10. FreshIsEmpty'
  BY <1>1, LoaderAssumption DEF FreshIsEmpty, TypeOK, MakeDataDir, DataDirNames, FreshUuids
<1>11. HooksClaimed'
  <2>1. CASE hooks' = Registered(l, <<d>>)
    BY <1>2, <1>3, <1>4, <2>1, HooksStayClaimed
  <2>2. CASE hooks' = hooks
    BY <1>4, <2>2 DEF HooksClaimed, TypeOK
  <2> QED BY <1>1, <2>1, <2>2
<1>12. Isolated(l) => \A f \in files : ~ Claims(l, f[1])'
  <2>1. Isolated(l) => \A f \in files : ~ Claims(l, f[1])
    BY DEF OneFile, MakeDataDir
  <2>2. UseDevShm[l] => \A f \in files : f[1] # d
    BY <1>1 DEF FreshIsEmpty, DataDirNames, FreshUuids
  <2> QED BY <1>1, <2>1, <2>2 DEF Claims, TypeOK, DataDirNames, FreshUuids
<1>13. OneFile'
  BY <1>1, <1>5, <1>12
     DEF OneFile, Isolated, MakeDataDir, BinaryFile, CurrentKey, CurrentSplit, TypeOK
<1>14. DataDirStands' /\ InputFilePresent'
  BY <1>1 DEF DataDirStands, InputFilePresent, Isolated, MakeDataDir, BinaryFile,
              CurrentKey, CurrentSplit, TypeOK
<1> QED BY <1>6, <1>7, <1>8, <1>9, <1>10, <1>11, <1>13, <1>14

(* What the steps of getNext leave as it was.                              *)
LEMMA NoNewNames ==
  ASSUME IInv, UNCHANGED <<owner, dataDir>>
  PROVE  /\ DataDirClaimed' /\ OwnersUseDevShm'
         /\ files' \subseteq files => FreshIsEmpty'
         /\ \A m \in Loaders : \A d : Claims(m, d)' <=> Claims(m, d)
BY DEF IInv, DataDirClaimed, OwnersUseDevShm, FreshIsEmpty, Claims

LEMMA DropFileStep ==
  ASSUME IInv, NEW l \in Loaders, DropFile(l)
  PROVE  IInv'
<1> USE DEF IInv
<1> DEFINE file == <<dataDir[l], CurrentSplit(l)[pos[l] + 1]>>
<1>1. dataDir[l] \in Dirs /\ Claims(l, dataDir[l])
  BY OwnDataDir DEF DropFile, Prepared
<1>2. CurrentSplit(l) \in Seq(Keys) /\ split[l] \in 1 .. Len(Splits[l]) /\ pos[l] \in Nat
  <2>1. Splits[l] \in Seq(Seq(Keys)) /\ split[l] \in Nat /\ pos[l] \in Nat
    BY LoaderAssumption DEF TypeOK
  <2>2. split[l] \in 1 .. Len(Splits[l])
    BY <2>1 DEF PosOK, DropFile, Prepared
  <2> QED BY <2>1, <2>2 DEF CurrentSplit
<1>3. file \in Dirs \X Keys /\ file \in Seq(Dirs \cup Keys) /\ file[1] = dataDir[l]
  BY <1>1, <1>2 DEF DropFile
<1>4. /\ hooks' = Registered(l, file)
      /\ \/ /\ dataDir[l] \in dirs
            /\ files' = files \cup {file}
            /\ pc' = [pc EXCEPT ![l] = "process"]
         \/ /\ files' = files \ {file}
            /\ pc' = [pc EXCEPT ![l] = "failed"]
      /\ pos' = [pos EXCEPT ![l] = @ + 1]
      /\ UNCHANGED <<split, dataDir, owner, dirs>>
  BY DEF DropFile
<1> HIDE DEF file
<1>5. TypeOK'
  <2>1. hooks' \in [Jvms -> Seq(Seq(Dirs \cup Keys))]
    BY <1>3, <1>4, RegisteredType
  <2>2. files' \subseteq Dirs \X Keys /\ pc' \in [Loaders -> PCs]
    BY <1>3, <1>4 DEF TypeOK, PCs, Alive, InCall
  <2>3. pos' \in [Loaders -> Nat]
    BY <1>4 DEF TypeOK
  <2> QED BY <1>4, <2>1, <2>2, <2>3 DEF TypeOK
<1>6. PosOK'
  <2>1. ASSUME NEW m \in Loaders \ {l}
        PROVE  pc'[m] = pc[m] /\ pos'[m] = pos[m]
    BY <1>4 DEF TypeOK
  <2>2. pos'[l] = pos[l] + 1 /\ pos[l] + 1 <= Len(CurrentSplit(l))
    BY <1>2, <1>4 DEF TypeOK, DropFile
  <2> QED BY <1>1, <1>2, <1>4, <2>1, <2>2, LoaderAssumption
          DEF PosOK, CurrentSplit, Dirs, DropFile, Prepared
<1>7. DataDirClaimed' /\ OwnersUseDevShm'
  BY <1>4, NoNewNames
<1>8. FreshIsEmpty'
  <2>1. \A u \in Uuids : owner[u] = None => file[1] # u
    BY <1>1, <1>3, LoaderAssumption DEF Claims
  <2> QED BY <1>4, <2>1 DEF FreshIsEmpty
<1>9. HooksClaimed'
  BY <1>1, <1>3, <1>4, NoNewNames, HooksStayClaimed
<1>10. ASSUME NEW m \in Loaders, Isolated(m), m # l
       PROVE  ~ Claims(m, file[1])
  BY <1>1, <1>3, <1>10, ClaimsApart
<1>11. file = BinaryFile(l)'
  BY <1>2, <1>4 DEF file, BinaryFile, CurrentKey, CurrentSplit, TypeOK
<1>12. \A m \in Loaders \ {l} : pc'[m] = pc[m] /\ BinaryFile(m)' = BinaryFile(m)
  BY <1>4 DEF TypeOK, BinaryFile, CurrentKey, CurrentSplit
<1>13. OneFile'
  <2>1. ASSUME NEW m \in Loaders, Isolated(m), NEW f \in files', Claims(m, f[1])
        PROVE  pc'[m] \in {"process", "killed"} /\ f = BinaryFile(m)'
    <3>1. CASE m = l
      <4>1. f \notin files
        BY <2>1, <3>1 DEF OneFile, DropFile
      <4> QED BY <1>4, <1>11, <3>1, <4>1 DEF TypeOK
    <3>2. CASE m # l
      BY <1>4, <1>10, <1>12, <2>1, <3>2 DEF OneFile
    <3> QED BY <3>1, <3>2
  <2> QED BY <1>4, <2>1 DEF OneFile, Isolated, Claims
<1>14. DataDirStands'
  BY <1>4 DEF DataDirStands, Isolated, TypeOK, DropFile
<1>15. InputFilePresent'
  <2>1. ASSUME NEW m \in Loaders, Isolated(m), pc'[m] = "process"
        PROVE  BinaryFile(m)' \in files'
    <3>1. CASE m = l
      BY <1>4, <1>11, <2>1, <3>1 DEF TypeOK
    <3>2. CASE m # l
      <4>1. BinaryFile(m) \in files /\ BinaryFile(m)[1] = dataDir[m]
        BY <1>12, <2>1, <3>2 DEF InputFilePresent, BinaryFile
      <4>2. Claims(m, dataDir[m])
        BY <1>12, <2>1, <3>2, OwnDataDir DEF Prepared
      <4> QED BY <1>4, <1>10, <1>12, <2>1, <3>2, <4>1, <4>2
    <3> QED BY <3>1, <3>2
  <2> QED BY <2>1 DEF InputFilePresent, Isolated
<1> QED BY <1>5, <1>6, <1>7, <1>8, <1>9, <1>13, <1>14, <1>15

LEMMA ProcessFileStep ==
  ASSUME IInv, NEW l \in Loaders, ProcessFile(l)
  PROVE  IInv'
<1> USE DEF IInv, ProcessFile
<1>1. Claims(l, dataDir[l]) /\ BinaryFile(l)[1] = dataDir[l]
  BY OwnDataDir DEF Prepared, BinaryFile
<1>2. TypeOK'
  BY DEF TypeOK, PCs, Alive, InCall
<1>3. PosOK'
  BY DEF PosOK, TypeOK, Prepared, CurrentSplit
<1>4. DataDirClaimed' /\ OwnersUseDevShm' /\ FreshIsEmpty'
  BY NoNewNames
<1>5. HooksClaimed'
  BY DEF HooksClaimed, Claims
<1>6. \A m \in Loaders : BinaryFile(m)' = BinaryFile(m)
  BY DEF BinaryFile, CurrentKey, CurrentSplit
<1>7. \A m \in Loaders \ {l} : pc'[m] = pc[m]
  BY DEF TypeOK
<1>8. OneFile'
  <2>1. ASSUME NEW m \in Loaders, Isolated(m), NEW f \in files', Claims(m, f[1])
        PROVE  pc'[m] \in {"process", "killed"} /\ f = BinaryFile(m)
    <3>1. f \in files /\ f # BinaryFile(l)
      OBVIOUS
    <3>2. f = BinaryFile(m) /\ pc[m] \in {"process", "killed"}
      BY <2>1, <3>1 DEF OneFile
    <3> QED BY <1>7, <3>1, <3>2
  <2> QED BY <1>6, <2>1 DEF OneFile, Isolated, Claims
<1>9. DataDirStands'
  BY DEF DataDirStands, Isolated, TypeOK
<1>10. InputFilePresent'
  <2>1. ASSUME NEW m \in Loaders, Isolated(m), pc'[m] = "process"
        PROVE  BinaryFile(m) \in files'
    <3>1. m # l
      BY <2>1 DEF TypeOK
    <3>2. pc[m] = "process" /\ BinaryFile(m) \in files /\ BinaryFile(m)[1] = dataDir[m]
      BY <1>7, <2>1, <3>1 DEF InputFilePresent, BinaryFile
    <3>3. Claims(m, dataDir[m])
      BY <3>2, OwnDataDir DEF Prepared
    <3> QED BY <1>1, <2>1, <3>1, <3>2, <3>3, ClaimsApart
  <2> QED BY <1>6, <2>1 DEF InputFilePresent, Isolated
<1> QED BY <1>2, <1>3, <1>4, <1>5, <1>8, <1>9, <1>10

LEMMA CleanUpStep ==
  ASSUME IInv, NEW l \in Loaders, CleanUp(l)
  PROVE  IInv'
<1> USE DEF IInv
<1>1. /\ files \ FilesIn(dataDir[l]) \subseteq files'
      /\ files' \subseteq files
      /\ dirs \ {dataDir[l]} \subseteq dirs'
      /\ dirs' \subseteq dirs
      /\ pc' = [pc EXCEPT ![l] = "idle"]
      /\ UNCHANGED <<split, pos, dataDir, owner, hooks>>
  BY DEF CleanUp
<1>2. Claims(l, dataDir[l]) /\ pc[l] = "ready"
  BY OwnDataDir DEF CleanUp, Prepared
<1>3. TypeOK'
  BY <1>1 DEF TypeOK, PCs, Alive, InCall
<1>4. PosOK'
  BY <1>1 DEF PosOK, TypeOK, Prepared, CurrentSplit
<1>5. DataDirClaimed' /\ OwnersUseDevShm' /\ FreshIsEmpty'
  BY <1>1, NoNewNames
<1>6. HooksClaimed'
  BY <1>1 DEF HooksClaimed, Claims
<1>7. \A m \in Loaders \ {l} : pc'[m] = pc[m]
  BY <1>1 DEF TypeOK
<1>8. \A m \in Loaders : BinaryFile(m)' = BinaryFile(m) /\ BinaryFile(m)[1] = dataDir[m]
  BY <1>1 DEF BinaryFile, CurrentKey, CurrentSplit
<1>9. ASSUME NEW m \in Loaders \ {l}, Isolated(m), pc[m] \in Prepared
      PROVE  dataDir[m] # dataDir[l]
  BY <1>2, <1>9, OwnDataDir, ClaimsApart
<1>10. OneFile'
  <2>1. ASSUME NEW m \in Loaders, Isolated(m), NEW f \in files', Claims(m, f[1])
        PROVE  pc'[m] \in {"process", "killed"} /\ f = BinaryFile(m)
    <3>1. f = BinaryFile(m) /\ pc[m] \in {"process", "killed"}
      BY <1>1, <2>1 DEF OneFile
    <3> QED BY <1>2, <1>7, <3>1
  <2> QED BY <1>1, <1>8, <2>1 DEF OneFile, Isolated, Claims
<1>11. DataDirStands'
  <2>1. ASSUME NEW m \in Loaders, Isolated(m), pc'[m] \in {"init", "ready", "process"}
        PROVE  dataDir[m] \in dirs'
    <3>1. m # l
      BY <1>1, <2>1 DEF TypeOK
    <3>2. dataDir[m] \in dirs
      BY <1>7, <2>1, <3>1 DEF DataDirStands
    <3> QED BY <1>1, <1>7, <1>9, <2>1, <3>1, <3>2 DEF Prepared
  <2> QED BY <1>1, <2>1 DEF DataDirStands, Isolated
<1>12. InputFilePresent'
  <2>1. ASSUME NEW m \in Loaders, Isolated(m), pc'[m] = "process"
        PROVE  BinaryFile(m) \in files'
    <3>1. m # l
      BY <1>1, <2>1 DEF TypeOK
    <3>2. BinaryFile(m) \in files
      BY <1>7, <2>1, <3>1 DEF InputFilePresent
    <3>3. BinaryFile(m) \notin FilesIn(dataDir[l])
      BY <1>7, <1>8, <1>9, <2>1, <3>1 DEF Prepared, FilesIn
    <3> QED BY <1>1, <3>2, <3>3
  <2> QED BY <1>1, <1>8, <2>1 DEF InputFilePresent, Isolated
<1> QED BY <1>3, <1>4, <1>5, <1>6, <1>10, <1>11, <1>12

(* What an exit hook removes was claimed by a loader of the JVM.           *)
LEMMA JvmExitStep ==
  ASSUME IInv, NEW j \in Jvms, JvmExit(j)
  PROVE  IInv'
<1> USE DEF IInv
<1>1. /\ \A l \in Loaders : pc'[l] = IF Jvm[l] = j THEN "exited" ELSE pc[l]
      /\ \A l \in Loaders : Jvm[l] = j => pc[l] \in Alive \ InCall
      /\ pc' \in [Loaders -> PCs]
      /\ files' = files \ Range(hooks[j])
      /\ dirs' \subseteq dirs
      /\ \A d \in dirs : d \notin dirs' => RemovedByHook(j, d)
      /\ UNCHANGED <<split, pos, dataDir, owner, hooks>>
  BY DEF JvmExit, TypeOK, PCs
<1>2. TypeOK'
  BY <1>1 DEF TypeOK
<1>3. PosOK'
  BY <1>1 DEF PosOK, Prepared, CurrentSplit
<1>4. DataDirClaimed' /\ OwnersUseDevShm' /\ FreshIsEmpty'
  BY <1>1, NoNewNames
<1>5. HooksClaimed'
  BY <1>1 DEF HooksClaimed, Claims
<1>6. \A l \in Loaders : BinaryFile(l)' = BinaryFile(l) /\ BinaryFile(l)[1] = dataDir[l]
  BY <1>1 DEF BinaryFile, CurrentKey, CurrentSplit
<1>7. ASSUME NEW l \in Loaders, Isolated(l), pc'[l] \in Prepared,
             NEW i \in DOMAIN hooks[j]
      PROVE  hooks[j][i][1] # dataDir[l]
  <2>1. Jvm[l] # j /\ pc[l] \in Prepared
    BY <1>1, <1>7 DEF Prepared
  <2>2. PICK m \in Loaders : Jvm[m] = j /\ Claims(m, hooks[j][i][1])
    BY DEF HooksClaimed
  <2> QED BY <1>7, <2>1, <2>2, OwnDataDir, ClaimsApart
<1>8. OneFile'
  <2>1. ASSUME NEW l \in Loaders, Isolated(l), NEW f \in files', Claims(l, f[1])
        PROVE  pc'[l] \in {"process", "killed"} /\ f = BinaryFile(l)
    <3>1. f = BinaryFile(l) /\ pc[l] \in {"process", "killed"}
      BY <1>1, <2>1 DEF OneFile
    <3> QED BY <1>1, <3>1 DEF Alive, InCall
  <2> QED BY <1>1, <1>6, <2>1 DEF OneFile, Isolated, Claims
<1>9. DataDirStands'
  <2>1. ASSUME NEW l \in Loaders, Isolated(l), pc'[l] \in {"init", "ready", "process"}
        PROVE  dataDir[l] \in dirs'
    <3>1. dataDir[l] \in dirs
      BY <1>1, <2>1 DEF DataDirStands
    <3>2. ~ RemovedByHook(j, dataDir[l])
      BY <1>7, <2>1 DEF RemovedByHook, Prepared
    <3> QED BY <1>1, <3>1, <3>2
  <2> QED BY <1>1, <2>1 DEF DataDirStands, Isolated
<1>10. InputFilePresent'
  <2>1. ASSUME NEW l \in Loaders, Isolated(l), pc'[l] = "process"
        PROVE  BinaryFile(l) \in files'
    <3>1. BinaryFile(l) \in files
      BY <1>1, <2>1 DEF InputFilePresent
    <3>2. BinaryFile(l) \notin Range(hooks[j])
      BY <1>6, <1>7, <2>1 DEF Range, Prepared
    <3> QED BY <1>1, <3>1, <3>2
  <2> QED BY <1>1, <1>6, <2>1 DEF InputFilePresent, Isolated
<1> QED BY <1>2, <1>3, <1>4, <1>5, <1>8, <1>9, <1>10

LEMMA KillStep ==
  ASSUME IInv, NEW j \in Jvms, Kill(j)
  PROVE  IInv'
<1> USE DEF IInv
<1>1. /\ \A l \in Loaders : pc'[l] = IF Jvm[l] = j THEN "killed" ELSE pc[l]
      /\ pc' \in [Loaders -> PCs]
      /\ UNCHANGED <<split, pos, dataDir, owner, dirs, files, hooks>>
  BY DEF Kill, TypeOK, PCs
<1>2. TypeOK'
  BY <1>1 DEF TypeOK
<1>3. PosOK'
  BY <1>1 DEF PosOK, Prepared, CurrentSplit
<1>4. DataDirClaimed' /\ OwnersUseDevShm' /\ FreshIsEmpty' /\ HooksClaimed'
  BY <1>1 DEF DataDirClaimed, OwnersUseDevShm, FreshIsEmpty, HooksClaimed, Claims
<1>5. OneFile' /\ DataDirStands' /\ InputFilePresent'
  BY <1>1 DEF OneFile, DataDirStands, InputFilePresent, Isolated, Claims, BinaryFile,
              CurrentKey, CurrentSplit
<1> QED BY <1>2, <1>3, <1>4, <1>5

-----------------------------------------------------------------------------
(* Nothing is left after an orderly exit: every directory and every file   *)
(* on disk has somebody who will still delete it, or was killed.           *)

RegisteredInUse ==
  \A l \in Loaders :
    pc[l] \in {"init", "ready", "process"} => <<dataDir[l]>> \in Range(hooks[Jvm[l]])

\* What a JVM has registered: each path once, a file after its directory.
DirFirst(paths) ==
  \A n \in DOMAIN paths :
    paths[n] = <<paths[n][1]>> \/ \E i \in DOMAIN paths : i < n /\ paths[i] = <<paths[n][1]>>

Distinct(paths) == \A i, n \in DOMAIN paths : paths[i] = paths[n] => i = n

HooksInOrder == \A j \in Jvms : DirFirst(hooks[j]) /\ Distinct(hooks[j])

\* l was killed, asks whether d exists, or will try to delete d when it exits.
AnswersFor(l, d) ==
  \/ pc[l] = "killed"
  \/ pc[l] = "exists" /\ dataDir[l] = d
  \/ pc[l] # "exited" /\ <<d>> \in Range(hooks[Jvm[l]])

DirsAnswered ==
  \A d \in dirs : UsersOf(d) # {} => \E l \in UsersOf(d) : AnswersFor(l, d)

FilesAnswered ==
  \A f \in files : \E l \in UsersOf(f[1]) : pc[l] # "exited" /\ f \in Range(hooks[Jvm[l]])

OInv ==
  /\ RegisteredInUse
  /\ HooksInOrder
  /\ DirsAnswered
  /\ FilesAnswered

(* deleteOnExit forgets no path and has the one given; a path is there     *)
(* once, and that of a file comes after that of its directory.             *)
LEMMA RegisteredKeeps ==
  ASSUME TypeOK, NEW l \in Loaders, NEW path \in Seq(Dirs \cup Keys),
         hooks' = Registered(l, path),
         path = <<path[1]>> \/ <<path[1]>> \in Range(hooks[Jvm[l]]),
         HooksInOrder
  PROVE  /\ \A j \in Jvms : Range(hooks[j]) \subseteq Range(hooks'[j])
         /\ path \in Range(hooks'[Jvm[l]])
         /\ HooksInOrder'
<1>1. CASE path \in Range(hooks[Jvm[l]])
  BY <1>1 DEF Registered, HooksInOrder
<1>2. CASE path \notin Range(hooks[Jvm[l]])
  <2> DEFINE h == hooks[Jvm[l]]
  <2>1. h \in Seq(Seq(Dirs \cup Keys)) /\ Jvm[l] \in Jvms
    BY LoaderAssumption DEF TypeOK
  <2>2. /\ \A j \in Jvms : j # Jvm[l] => hooks'[j] = hooks[j]
        /\ hooks'[Jvm[l]] = Append(h, path)
    BY <1>2, <2>1 DEF Registered, TypeOK
  <2>3. \A n \in DOMAIN h : h[n] # path
    BY <1>2 DEF Range
  <2>4. path = <<path[1]>> \/ \E i \in DOMAIN h : h[i] = <<path[1]>>
    BY DEF Range
  <2>5. DirFirst(h) /\ Distinct(h)
    BY <2>1 DEF HooksInOrder
  <2>6. DOMAIN h = 1 .. Len(h) /\ Len(h) \in Nat
    BY <2>1
  <2> DEFINE k == Append(h, path)
  <2> HIDE DEF h
  <2>7. /\ DOMAIN k = 1 .. Len(h) + 1
        /\ \A n \in DOMAIN h : n \in DOMAIN k /\ k[n] = h[n]
        /\ k[Len(h) + 1] = path
    BY <2>1, <2>6
  <2> HIDE DEF k
  <2>8. \A n \in DOMAIN k : n \in DOMAIN h \/ n = Len(h) + 1
    BY <2>6, <2>7
  <2>9. Len(h) + 1 \in DOMAIN k /\ \A n \in DOMAIN h : n < Len(h) + 1
    BY <2>6, <2>7
  <2>10. Range(h) \subseteq Range(k) /\ path \in Range(k)
    BY <2>7, <2>9 DEF Range
  <2>11. DirFirst(k)
    <3> SUFFICES ASSUME NEW n \in DOMAIN k
                 PROVE  k[n] = <<k[n][1]>> \/ \E i \in DOMAIN k : i < n /\ k[i] = <<k[n][1]>>
      BY DEF DirFirst
    <3>1. CASE n \in DOMAIN h
      BY <2>5, <2>7, <3>1 DEF DirFirst
    <3>2. CASE n = Len(h) + 1
      BY <2>4, <2>7, <2>9, <3>2
    <3> QED BY <2>8, <3>1, <3>2
  <2>12. Distinct(k)
    BY <2>3, <2>5, <2>7, <2>8 DEF Distinct
  <2>13. hooks'[Jvm[l]] = k /\ hooks[Jvm[l]] = h
    BY <2>2 DEF k, h
  <2>14. \A j \in Jvms : Range(hooks[j]) \subseteq Range(hooks'[j])
    BY <2>2, <2>10, <2>13
  <2>15. HooksInOrder'
    BY <2>2, <2>11, <2>12, <2>13 DEF HooksInOrder
  <2> QED BY <2>10, <2>13, <2>14, <2>15
<1> QED BY <1>1, <1>2

(* A loader that used a directory stays one of its users.                  *)
LEMMA UsersStay ==
  ASSUME IInv, NEW l \in Loaders, MakeDataDir(l)
  PROVE  \E e \in Dirs :
           /\ dataDir' = [dataDir EXCEPT ![l] = e]
           /\ l \in UsersOf(e)'
           /\ \A d \in Dirs : UsersOf(d) \subseteq UsersOf(d)'
           /\ \A d \in Dirs \ {e} : UsersOf(d)' = UsersOf(d)
           /\ \/ /\ e \notin dirs
                 /\ dirs' = dirs \cup {e}
                 /\ hooks' = Registered(l, <<e>>)
                 /\ pc' = [pc EXCEPT ![l] = "init"]
              \/ /\ pc' = [pc EXCEPT ![l] = "exists"]
                 /\ UNCHANGED <<dirs, hooks>>
<1>1. PICK e \in DataDirNames(l) :
        /\ dataDir' = [dataDir EXCEPT ![l] = e]
        /\ owner' = IF UseDevShm[l] THEN [owner EXCEPT ![e] = l] ELSE owner
        /\ \/ /\ e \notin dirs
              /\ dirs' = dirs \cup {e}
              /\ hooks' = Registered(l, <<e>>)
              /\ pc' = [pc EXCEPT ![l] = "init"]
           \/ /\ pc' = [pc EXCEPT ![l] = "exists"]
              /\ UNCHANGED <<dirs, hooks>>
  BY DEF MakeDataDir
<1>2. e \in Dirs
  BY <1>1, LoaderAssumption DEF DataDirNames, FreshUuids, Dirs
<1>3. dataDir'[l] = e /\ \A m \in Loaders \ {l} : dataDir'[m] = dataDir[m]
  BY <1>1 DEF IInv, TypeOK
<1>4. \A u \in Uuids : owner[u] # None => owner'[u] = owner[u]
  BY <1>1 DEF IInv, TypeOK, DataDirNames, FreshUuids
<1>5. \A u \in Uuids : u # e => owner'[u] = owner[u]
  BY <1>1 DEF IInv, TypeOK, DataDirNames, FreshUuids
<1>6. dataDir[l] \in Dirs /\ dataDir[l] # e => dataDir[l] \in Uuids /\ owner[dataDir[l]] = l
  BY <1>1, LoaderAssumption DEF IInv, DataDirClaimed, Claims, DataDirNames, Dirs
<1>7. None \notin Dirs /\ None \notin Loaders
  BY LoaderAssumption DEF Dirs
<1>8. l \in UsersOf(e)'
  BY <1>3 DEF UsersOf
<1>9. \A d \in Dirs : UsersOf(d) \subseteq UsersOf(d)'
  <2> SUFFICES ASSUME NEW d \in Dirs, NEW m \in UsersOf(d)
               PROVE  m \in UsersOf(d)'
    OBVIOUS
  <2>1. m \in Loaders /\ (dataDir[m] = d \/ (d \in Uuids /\ owner[d] = m))
    BY DEF UsersOf
  <2>2. CASE d \in Uuids /\ owner[d] = m
    BY <1>4, <1>7, <2>1, <2>2 DEF UsersOf
  <2>3. CASE dataDir[m] = d /\ m # l
    BY <1>3, <2>1, <2>3 DEF UsersOf
  <2>4. CASE dataDir[m] = d /\ m = l /\ d # e
    BY <1>4, <1>6, <1>7, <2>4 DEF UsersOf
  <2>5. CASE m = l /\ d = e
    BY <1>8, <2>5
  <2> QED BY <2>1, <2>2, <2>3, <2>4, <2>5
<1>10. \A d \in Dirs \ {e} : UsersOf(d)' \subseteq UsersOf(d)
  BY <1>3, <1>5 DEF UsersOf
<1> QED BY <1>1, <1>2, <1>8, <1>9, <1>10

LEMMA MakeDataDirAnswered ==
  ASSUME IInv, OInv, NEW l \in Loaders, MakeDataDir(l)
  PROVE  OInv'
<1>1. PICK e \in Dirs :
        /\ dataDir' = [dataDir EXCEPT ![l] = e]
        /\ l \in UsersOf(e)'
        /\ \A d \in Dirs : UsersOf(d) \subseteq UsersOf(d)'
        /\ \A d \in Dirs \ {e} : UsersOf(d)' = UsersOf(d)
        /\ \/ /\ e \notin dirs
              /\ dirs' = dirs \cup {e}
              /\ hooks' = Registered(l, <<e>>)
              /\ pc' = [pc EXCEPT ![l] = "init"]
           \/ /\ pc' = [pc EXCEPT ![l] = "exists"]
              /\ UNCHANGED <<dirs, hooks>>
  BY UsersStay
<1>2. pc[l] = "idle" /\ files' = files /\ Jvm \in [Loaders -> Jvms]
  BY LoaderAssumption DEF MakeDataDir
<1>3. /\ \A m \in Loaders \ {l} : pc'[m] = pc[m] /\ dataDir'[m] = dataDir[m]
      /\ dataDir'[l] = e
      /\ \/ /\ hooks' = Registered(l, <<e>>) /\ pc'[l] = "init"
         \/ /\ hooks' = hooks /\ pc'[l] = "exists"
  BY <1>1 DEF IInv, TypeOK
<1>4. <<e>> \in Seq(Dirs \cup Keys) /\ <<e>>[1] = e
  OBVIOUS
<1>5. /\ \A j \in Jvms : Range(hooks[j]) \subseteq Range(hooks'[j])
      /\ pc'[l] = "init" => <<e>> \in Range(hooks'[Jvm[l]])
      /\ HooksInOrder'
  <2>1. CASE hooks' = Registered(l, <<e>>)
    BY <1>4, <2>1, RegisteredKeeps DEF IInv, OInv
  <2>2. CASE hooks' = hooks /\ pc'[l] = "exists"
    BY <2>2 DEF OInv, HooksInOrder
  <2> QED BY <1>3, <2>1, <2>2
<1>6. RegisteredInUse'
  <2> SUFFICES ASSUME NEW m \in Loaders, pc'[m] \in {"init", "ready", "process"}
               PROVE  <<dataDir'[m]>> \in Range(hooks'[Jvm[m]])
    BY DEF RegisteredInUse
  <2>1. CASE m = l
    BY <1>3, <1>5, <2>1
  <2>2. CASE m # l
    BY <1>2, <1>3, <1>5, <2>2 DEF OInv, RegisteredInUse
  <2> QED BY <2>1, <2>2
<1>7. DirsAnswered'
  <2> SUFFICES ASSUME NEW d \in dirs', UsersOf(d)' # {}
               PROVE  \E m \in UsersOf(d)' : AnswersFor(m, d)'
    BY DEF DirsAnswered
  <2>1. CASE d = e
    BY <1>1, <1>3, <1>5, <2>1 DEF AnswersFor
  <2>2. CASE d # e
    <3>1. d \in dirs /\ d \in Dirs /\ UsersOf(d)' = UsersOf(d)
      BY <1>1, <2>2 DEF IInv, TypeOK
    <3>2. PICK m \in UsersOf(d) : AnswersFor(m, d)
      BY <3>1 DEF OInv, DirsAnswered
    <3>3. m \in Loaders
      BY DEF UsersOf
    <3> QED BY <1>2, <1>3, <1>5, <3>1, <3>2, <3>3 DEF AnswersFor
  <2> QED BY <2>1, <2>2
<1>8. FilesAnswered'
  <2> SUFFICES ASSUME NEW f \in files
               PROVE  \E m \in UsersOf(f[1])' : pc'[m] # "exited" /\ f \in Range(hooks'[Jvm[m]])
    BY <1>2 DEF FilesAnswered
  <2>1. PICK m \in UsersOf(f[1]) : pc[m] # "exited" /\ f \in Range(hooks[Jvm[m]])
    BY DEF OInv, FilesAnswered
  <2>2. m \in Loaders /\ f[1] \in Dirs
    BY DEF UsersOf, IInv, TypeOK
  <2> QED BY <1>1, <1>2, <1>3, <1>5, <2>1, <2>2
<1> QED BY <1>5, <1>6, <1>7, <1>8 DEF OInv

LEMMA CheckDataDirAnswered ==
  ASSUME IInv, OInv, NEW l \in Loaders, CheckDataDir(l)
  PROVE  OInv'
<1>1. pc[l] = "exists" /\ UNCHANGED <<dataDir, owner, dirs, files>> /\ Jvm \in [Loaders -> Jvms]
  BY LoaderAssumption DEF CheckDataDir
<1>2. /\ \A m \in Loaders \ {l} : pc'[m] = pc[m]
      /\ \/ dataDir[l] \in dirs /\ hooks' = Registered(l, <<dataDir[l]>>) /\ pc'[l] = "init"
         \/ dataDir[l] \notin dirs /\ hooks' = hooks /\ pc'[l] = "failed"
  BY DEF CheckDataDir, IInv, TypeOK
<1>3. <<dataDir[l]>> \in Seq(Dirs \cup Keys) /\ <<dataDir[l]>>[1] = dataDir[l]
  BY <1>1, OwnDataDir DEF Prepared
<1>4. /\ \A j \in Jvms : Range(hooks[j]) \subseteq Range(hooks'[j])
      /\ pc'[l] = "init" => <<dataDir[l]>> \in Range(hooks'[Jvm[l]])
      /\ HooksInOrder'
  <2>1. CASE hooks' = Registered(l, <<dataDir[l]>>)
    BY <1>3, <2>1, RegisteredKeeps DEF IInv, OInv
  <2>2. CASE hooks' = hooks /\ pc'[l] = "failed"
    BY <2>2 DEF OInv, HooksInOrder
  <2> QED BY <1>2, <2>1, <2>2
<1>5. \A d : UsersOf(d)' = UsersOf(d) /\ UsersOf(d) \subseteq Loaders
  BY <1>1 DEF UsersOf
<1>6. RegisteredInUse'
  BY <1>1, <1>2, <1>4 DEF OInv, RegisteredInUse
<1>7. DirsAnswered'
  <2> SUFFICES ASSUME NEW d \in dirs, UsersOf(d) # {}
               PROVE  \E m \in UsersOf(d) : AnswersFor(m, d)'
    BY <1>1, <1>5 DEF DirsAnswered
  <2>1. PICK m \in UsersOf(d) : AnswersFor(m, d)
    BY DEF OInv, DirsAnswered
  <2>2. CASE m = l
    BY <1>1, <1>2, <1>4, <2>1, <2>2 DEF AnswersFor
  <2>3. CASE m # l
    BY <1>1, <1>2, <1>4, <1>5, <2>1, <2>3 DEF AnswersFor
  <2> QED BY <2>2, <2>3
<1>8. FilesAnswered'
  BY <1>1, <1>2, <1>4, <1>5 DEF OInv, FilesAnswered
<1> QED BY <1>4, <1>6, <1>7, <1>8 DEF OInv

LEMMA ControlAnswered ==
  ASSUME IInv, OInv, NEW l \in Loaders, InitLoader(l) \/ ReadFails(l) \/ ProcessFile(l)
  PROVE  OInv'
<1>1. /\ pc[l] \in {"init", "ready", "process"}
      /\ pc'[l] \in {"ready", "failed"}
      /\ \A m \in Loaders \ {l} : pc'[m] = pc[m]
      /\ files' \subseteq files
      /\ UNCHANGED <<dataDir, owner, dirs, hooks>>
  BY DEF InitLoader, ReadFails, ProcessFile, IInv, TypeOK
<1>2. \A d : UsersOf(d)' = UsersOf(d) /\ UsersOf(d) \subseteq Loaders
  BY <1>1 DEF UsersOf
<1>3. HooksInOrder'
  BY <1>1 DEF OInv, HooksInOrder
<1>4. RegisteredInUse'
  BY <1>1 DEF OInv, RegisteredInUse
<1>5. \A m \in Loaders : \A d : AnswersFor(m, d) => AnswersFor(m, d)'
  BY <1>1 DEF AnswersFor
<1>6. DirsAnswered'
  BY <1>1, <1>2, <1>5 DEF OInv, DirsAnswered
<1>7. FilesAnswered'
  BY <1>1, <1>2 DEF OInv, FilesAnswered
<1> QED BY <1>3, <1>4, <1>6, <1>7 DEF OInv

LEMMA CleanUpAnswered ==
  ASSUME IInv, OInv, NEW l \in Loaders, CleanUp(l)
  PROVE  OInv'
<1>1. /\ pc[l] = "ready"
      /\ pc'[l] = "idle"
      /\ \A m \in Loaders \ {l} : pc'[m] = pc[m]
      /\ files' \subseteq files
      /\ dirs' \subseteq dirs
      /\ UNCHANGED <<dataDir, owner, hooks>>
  BY DEF CleanUp, IInv, TypeOK
<1>2. \A d : UsersOf(d)' = UsersOf(d) /\ UsersOf(d) \subseteq Loaders
  BY <1>1 DEF UsersOf
<1>3. HooksInOrder'
  BY <1>1 DEF OInv, HooksInOrder
<1>4. RegisteredInUse'
  BY <1>1 DEF OInv, RegisteredInUse
<1>5. \A m \in Loaders : \A d : AnswersFor(m, d) => AnswersFor(m, d)'
  BY <1>1 DEF AnswersFor
<1>6. DirsAnswered'
  BY <1>1, <1>2, <1>5 DEF OInv, DirsAnswered
<1>7. FilesAnswered'
  BY <1>1, <1>2 DEF OInv, FilesAnswered
<1> QED BY <1>3, <1>4, <1>6, <1>7 DEF OInv

LEMMA DropFileAnswered ==
  ASSUME IInv, OInv, NEW l \in Loaders, DropFile(l)
  PROVE  OInv'
<1> DEFINE file == <<dataDir[l], CurrentSplit(l)[pos[l] + 1]>>
<1>1. /\ pc[l] = "ready"
      /\ pc'[l] \in {"process", "failed"}
      /\ \A m \in Loaders \ {l} : pc'[m] = pc[m]
      /\ files' \subseteq files \cup {file}
      /\ hooks' = Registered(l, file)
      /\ UNCHANGED <<dataDir, owner, dirs>>
      /\ Jvm \in [Loaders -> Jvms]
  BY LoaderAssumption DEF DropFile, IInv, TypeOK
<1>2. dataDir[l] \in Dirs
  BY <1>1, OwnDataDir DEF Prepared
<1>3. file \in Seq(Dirs \cup Keys) /\ file[1] = dataDir[l]
  <2>1. Splits[l] \in Seq(Seq(Keys)) /\ split[l] \in Nat /\ pos[l] \in Nat
    BY LoaderAssumption DEF IInv, TypeOK
  <2>2. split[l] \in 1 .. Len(Splits[l])
    BY <1>1, <2>1 DEF IInv, PosOK, Prepared
  <2>3. CurrentSplit(l) \in Seq(Keys) /\ pos[l] + 1 \in 1 .. Len(CurrentSplit(l))
    BY <2>1, <2>2 DEF CurrentSplit, DropFile
  <2> QED BY <1>2, <2>3
<1> HIDE DEF file
<1>4. <<file[1]>> \in Range(hooks[Jvm[l]])
  BY <1>1, <1>3 DEF OInv, RegisteredInUse
<1>5. /\ \A j \in Jvms : Range(hooks[j]) \subseteq Range(hooks'[j])
      /\ file \in Range(hooks'[Jvm[l]])
      /\ HooksInOrder'
  BY <1>1, <1>3, <1>4, RegisteredKeeps DEF IInv, OInv
<1>6. \A d : UsersOf(d)' = UsersOf(d) /\ UsersOf(d) \subseteq Loaders
  BY <1>1 DEF UsersOf
<1>7. RegisteredInUse'
  BY <1>1, <1>5 DEF OInv, RegisteredInUse
<1>8. \A m \in Loaders : \A d : AnswersFor(m, d) => AnswersFor(m, d)'
  BY <1>1, <1>5 DEF AnswersFor
<1>9. DirsAnswered'
  BY <1>1, <1>6, <1>8 DEF OInv, DirsAnswered
<1>10. FilesAnswered'
  <2> SUFFICES ASSUME NEW f \in files'
               PROVE  \E m \in UsersOf(f[1]) : pc'[m] # "exited" /\ f \in Range(hooks'[Jvm[m]])
    BY <1>6 DEF FilesAnswered
  <2>1. CASE f = file
    <3>1. l \in UsersOf(f[1])
      BY <1>3, <2>1 DEF UsersOf
    <3> QED BY <1>1, <1>5, <2>1, <3>1
  <2>2. CASE f # file
    BY <1>1, <1>5, <1>6, <2>2 DEF OInv, FilesAnswered
  <2> QED BY <2>1, <2>2
<1> QED BY <1>5, <1>7, <1>9, <1>10 DEF OInv

(* A JVM that exits removes its files, and with them each directory that   *)
(* nobody else answers for: what stood in it was registered after it.      *)
LEMMA JvmExitAnswered ==
  ASSUME IInv, OInv, NEW j \in Jvms, JvmExit(j)
  PROVE  OInv'
<1>1. /\ \A l \in Loaders : pc'[l] = IF Jvm[l] = j THEN "exited" ELSE pc[l]
      /\ \A l \in Loaders : Jvm[l] = j => pc[l] \in Alive \ InCall
      /\ files' = files \ Range(hooks[j])
      /\ dirs' = {d \in dirs : ~ RemovedByHook(j, d)}
      /\ UNCHANGED <<dataDir, owner, hooks>>
  BY DEF JvmExit
<1>2. \A d : UsersOf(d)' = UsersOf(d) /\ UsersOf(d) \subseteq Loaders
  BY <1>1 DEF UsersOf
<1>3. HooksInOrder'
  BY <1>1 DEF OInv, HooksInOrder
<1>4. RegisteredInUse'
  BY <1>1 DEF OInv, RegisteredInUse
<1>5. FilesAnswered'
  <2> SUFFICES ASSUME NEW f \in files'
               PROVE  \E m \in UsersOf(f[1]) : pc'[m] # "exited" /\ f \in Range(hooks[Jvm[m]])
    BY <1>1, <1>2 DEF FilesAnswered
  <2>1. PICK m \in UsersOf(f[1]) : pc[m] # "exited" /\ f \in Range(hooks[Jvm[m]])
    BY <1>1 DEF OInv, FilesAnswered
  <2>2. Jvm[m] # j
    BY <1>1, <2>1
  <2> QED BY <1>1, <1>2, <2>1, <2>2
<1>6. DirsAnswered'
  <2> SUFFICES ASSUME NEW d \in dirs', UsersOf(d) # {}
               PROVE  \E m \in UsersOf(d) : AnswersFor(m, d)'
    BY <1>2 DEF DirsAnswered
  <2>1. PICK m \in UsersOf(d) : AnswersFor(m, d)
    BY <1>1 DEF OInv, DirsAnswered
  <2>2. CASE Jvm[m] # j
    BY <1>1, <1>2, <2>1, <2>2 DEF AnswersFor
  <2>3. CASE Jvm[m] = j
    <3>1. <<d>> \in Range(hooks[j])
      BY <1>1, <1>2, <2>1, <2>3 DEF AnswersFor, Alive, InCall
    <3>2. PICK i \in DOMAIN hooks[j] : hooks[j][i] = <<d>>
      BY <3>1 DEF Range
    <3>3. PICK f \in FilesIn(d) : \A n \in DOMAIN hooks[j] : ~ (n > i /\ hooks[j][n] = f)
      BY <1>1, <3>2 DEF RemovedByHook
    <3>4. f \in files /\ f[1] = d /\ f \in Dirs \X Keys
      BY <3>3 DEF FilesIn, IInv, TypeOK
    <3>5. f \notin Range(hooks[j])
      <4> SUFFICES ASSUME NEW n \in DOMAIN hooks[j], hooks[j][n] = f
                   PROVE  FALSE
        BY DEF Range
      <4>1. f # <<d>>
        BY <3>4
      <4>2. PICK k \in DOMAIN hooks[j] : k < n /\ hooks[j][k] = <<d>>
        BY <3>4, <4>1 DEF OInv, HooksInOrder, DirFirst
      <4>3. k = i
        BY <3>2, <4>2 DEF OInv, HooksInOrder, Distinct
      <4>4. hooks[j] \in Seq(Seq(Dirs \cup Keys))
        BY DEF IInv, TypeOK
      <4>5. n \in Int /\ i \in Int
        BY <4>4
      <4> QED BY <3>3, <4>2, <4>3, <4>5
    <3>6. PICK a \in UsersOf(d) : pc[a] # "exited" /\ f \in Range(hooks[Jvm[a]])
      BY <3>4 DEF OInv, FilesAnswered
    <3>7. a \in Loaders /\ Jvm[a] # j /\ Jvm[a] \in Jvms
      BY <1>2, <3>5, <3>6, LoaderAssumption
    <3>8. <<d>> \in Range(hooks[Jvm[a]])
      <4>1. f # <<d>>
        BY <3>4
      <4>2. DirFirst(hooks[Jvm[a]])
        BY <3>7 DEF OInv, HooksInOrder
      <4>3. PICK n \in DOMAIN hooks[Jvm[a]] : hooks[Jvm[a]][n] = f
        BY <3>6 DEF Range
      <4>4. PICK k \in DOMAIN hooks[Jvm[a]] : hooks[Jvm[a]][k] = <<d>>
        BY <3>4, <4>1, <4>2, <4>3 DEF DirFirst
      <4> QED BY <4>4 DEF Range
    <3> QED BY <1>1, <3>6, <3>7, <3>8 DEF AnswersFor
  <2> QED BY <2>2, <2>3
<1> QED BY <1>3, <1>4, <1>5, <1>6 DEF OInv

LEMMA KillAnswered ==
  ASSUME IInv, OInv, NEW j \in Jvms, Kill(j)
  PROVE  OInv'
<1>1. /\ \A l \in Loaders : pc'[l] = IF Jvm[l] = j THEN "killed" ELSE pc[l]
      /\ UNCHANGED <<dataDir, owner, dirs, files, hooks>>
  BY DEF Kill
<1>2. \A d : UsersOf(d)' = UsersOf(d) /\ UsersOf(d) \subseteq Loaders
  BY <1>1 DEF UsersOf
<1>3. HooksInOrder' /\ RegisteredInUse'
  BY <1>1 DEF OInv, HooksInOrder, RegisteredInUse
<1>4. \A m \in Loaders : \A d : AnswersFor(m, d) => AnswersFor(m, d)'
  BY <1>1 DEF AnswersFor
<1>5. DirsAnswered'
  BY <1>1, <1>2, <1>4 DEF OInv, DirsAnswered
<1>6. FilesAnswered'
  BY <1>1, <1>2 DEF OInv, FilesAnswered
<1> QED BY <1>3, <1>5, <1>6 DEF OInv

-----------------------------------------------------------------------------
(* Theorems *)

(* The invariant holds in every reachable state: the loaders' steps and    *)
(* the ends of JVMs, in any order, keep it.                                *)
THEOREM Inductive == Spec => []IInv
<1>1. Init => IInv
  <2> SUFFICES ASSUME Init
               PROVE  IInv
    OBVIOUS
  <2>1. TypeOK
    BY DEF Init, TypeOK, PCs, Alive, Dirs
  <2>2. PosOK
    BY LoaderAssumption DEF Init, PosOK, Prepared
  <2>3. DataDirClaimed /\ OwnersUseDevShm /\ FreshIsEmpty /\ HooksClaimed
    BY DEF Init, DataDirClaimed, OwnersUseDevShm, FreshIsEmpty, HooksClaimed
  <2>4. OneFile /\ DataDirStands /\ InputFilePresent
    BY DEF Init, OneFile, DataDirStands, InputFilePresent
  <2> QED BY <2>1, <2>2, <2>3, <2>4 DEF IInv
<1>2. IInv /\ [Next]_vars => IInv'
  <2> SUFFICES ASSUME IInv, [Next]_vars
               PROVE  IInv'
    OBVIOUS
  <2>1. CASE \E l \in Loaders :
               \/ MakeDataDir(l) \/ CheckDataDir(l) \/ InitLoader(l)
               \/ ReadFails(l) \/ DropFile(l) \/ ProcessFile(l) \/ CleanUp(l)
    BY <2>1, MakeDataDirStep, CheckDataDirStep, ControlStep, DropFileStep,
       ProcessFileStep, CleanUpStep
  <2>2. CASE \E j \in Jvms : JvmExit(j) \/ Kill(j)
    BY <2>2, JvmExitStep, KillStep
  <2>3. CASE UNCHANGED vars
    BY <2>3 DEF vars, IInv, TypeOK, PosOK, DataDirClaimed, OwnersUseDevShm, FreshIsEmpty,
                HooksClaimed, OneFile, DataDirStands, InputFilePresent, Isolated, Claims,
                BinaryFile, CurrentKey, CurrentSplit
  <2> QED BY <2>1, <2>2, <2>3 DEF Next, Over
<1> QED BY <1>1, <1>2, PTL DEF Spec

(* Every variable keeps its type.                                          *)
THEOREM TypeCorrect == Spec => []TypeOK
BY Inductive, PTL DEF IInv

(* A file being processed is there, and a data directory in use stands,    *)
(* for every loader that does not share its directory by name.             *)
THEOREM FilesStay == Spec => []FilesStand
<1>1. IInv => FilesStand
  BY DEF IInv, FilesStand
<1> QED BY <1>1, Inductive, PTL

(* A loader that does not share its directory never has more than one      *)
(* dropped file on disk, and none between calls.                           *)
THEOREM AtMostOneFile == Spec => []OneDroppedFile
<1>1. IInv => OneDroppedFile
  <2> SUFFICES ASSUME IInv, NEW l \in Loaders, Isolated(l), NEW f \in files,
                      f[1] = dataDir[l] \/ (f[1] \in Uuids /\ owner[f[1]] = l)
               PROVE  pc[l] \in {"process", "killed"} /\ f = BinaryFile(l)
    BY DEF OneDroppedFile
  <2>1. f[1] # None
    BY LoaderAssumption DEF IInv, TypeOK, Dirs
  <2>2. Claims(l, f[1])
    BY <2>1, LoaderAssumption DEF IInv, DataDirClaimed, OwnersUseDevShm, Claims
  <2> QED BY <2>2 DEF IInv, OneFile
<1> QED BY <1>1, Inductive, PTL

(* Once the JVMs of all the loaders that used a data directory have exited *)
(* in order, the directory and what was dropped in it are gone, however    *)
(* cleanUp failed, loaders threw and JVMs shared the directory.            *)
THEOREM NothingLeft == Spec => []NoOrphansAfterExit
<1>1. Init => OInv
  BY LoaderAssumption
     DEF Init, OInv, RegisteredInUse, HooksInOrder, DirFirst, Distinct, DirsAnswered,
         FilesAnswered, UsersOf, Dirs
<1>2. IInv /\ OInv /\ [Next]_vars => OInv'
  <2> SUFFICES ASSUME IInv, OInv, [Next]_vars
               PROVE  OInv'
    OBVIOUS
  <2>1. CASE \E l \in Loaders :
               \/ MakeDataDir(l) \/ CheckDataDir(l) \/ InitLoader(l)
               \/ ReadFails(l) \/ DropFile(l) \/ ProcessFile(l) \/ CleanUp(l)
    BY <2>1, MakeDataDirAnswered, CheckDataDirAnswered, ControlAnswered,
       DropFileAnswered, CleanUpAnswered
  <2>2. CASE \E j \in Jvms : JvmExit(j) \/ Kill(j)
    BY <2>2, JvmExitAnswered, KillAnswered
  <2>3. CASE UNCHANGED vars
    <3>1. RegisteredInUse'
      BY <2>3 DEF vars, OInv, RegisteredInUse, UsersOf
    <3>2. HooksInOrder'
      BY <2>3 DEF vars, OInv, HooksInOrder, DirFirst, Distinct
    <3>3. \A d : UsersOf(d)' = UsersOf(d) /\ \A l : AnswersFor(l, d)' <=> AnswersFor(l, d)
      BY <2>3 DEF vars, AnswersFor, UsersOf
    <3>4. DirsAnswered'
      BY <2>3, <3>3 DEF vars, OInv, DirsAnswered
    <3>5. FilesAnswered'
      BY <2>3, <3>3 DEF vars, OInv, FilesAnswered
    <3> QED BY <3>1, <3>2, <3>4, <3>5 DEF OInv
  <2> QED BY <2>1, <2>2, <2>3 DEF Next, Over
<1>3. OInv => NoOrphansAfterExit
  <2> SUFFICES ASSUME OInv, NEW d \in Dirs, UsersOf(d) # {},
                      \A l \in UsersOf(d) : pc[l] = "exited"
               PROVE  d \notin dirs /\ FilesIn(d) = {}
    BY DEF NoOrphansAfterExit
  <2>1. d \notin dirs
    BY DEF OInv, DirsAnswered, AnswersFor
  <2>2. FilesIn(d) = {}
    BY DEF OInv, FilesAnswered, FilesIn
  <2> QED BY <2>1, <2>2
<1> QED BY <1>1, <1>2, <1>3, Inductive, PTL DEF Spec

-----------------------------------------------------------------------------
(***************************************************************************)
(* processFile and its ProgramExector thread.                              *)
(***************************************************************************)

(***************************************************************************)
(* What the positions of the two threads say of the program.               *)
(***************************************************************************)
Phases ==
  /\ loader \in {"check", "start"} => watcher = "none"
  /\ loader \in {"drain", "done"} => watcher = "dead"
  /\ watcher = "none" => child = "none" /\ ~open
  /\ watcher \in {"none", "poll", "late"} => ~timedOut /\ ~sigterm
  /\ watcher \in {"poll", "late"} => child # "none" /\ open
  /\ timedOut => ~open
  /\ watcher = "dead" /\ ~timedOut => child = "gone" /\ (open \/ loader = "done")

(***************************************************************************)
(* The pipes: a program that is gone without having been destroyed wrote   *)
(* everything; stdout is not touched before the tuple.                     *)
(***************************************************************************)
Pipes ==
  /\ child = "gone" /\ ~timedOut =>
       program.ends /\ \A s \in Streams : written[s] = program[s]
  /\ loader = "done" /\ ~timedOut => \A s \in Streams : read[s] = written[s]
  /\ loader # "done" \/ timedOut => read["out"] = 0

(***************************************************************************)
(* endtime: no deadline, or one the two clock reads justify.               *)
(***************************************************************************)
Representable == timeoutMS > 0 /\ started + timeoutMS <= MaxLong

Deadline ==
  /\ loader # "check" => started <= now
  /\ loader = "start" => endtime = MaxLong \/ (endtime = 0 /\ Representable)
  /\ watcher # "none" =>
       \/ endtime = MaxLong
       \/ Representable /\ (endtime > 0 => endtime >= started + timeoutMS)
  /\ timedOut => endtime # MaxLong /\ now >= endtime

ExecInv == ExecTypeOK /\ Phases /\ Pipes /\ Deadline /\ NeverAbandoned

-----------------------------------------------------------------------------
(* Lemmas *)

(* The overflow check of the constructor: the wrapped sum is positive just *)
(* when a long can hold the sum.                                           *)
LEMMA WrappedSum ==
  ASSUME NEW m \in 0 .. MaxLong, NEW n \in 1 .. MaxLong
  PROVE  /\ Wrap(m + n) \in -(MaxLong + 1) .. MaxLong
         /\ Wrap(m + n) <= 0 <=> m + n > MaxLong
         /\ m + n <= MaxLong => Wrap(m + n) = m + n
BY ExectorAssumption DEF Wrap

(* A program writes no more than the bound to either stream.               *)
LEMMA OutputBound ==
  ASSUME ExecTypeOK, NEW s \in Streams
  PROVE  program[s] \in 0 .. MaxOutput
<1>1. program \in [out : 0 .. MaxOutput, err : 0 .. MaxOutput, ends : BOOLEAN, obeys : BOOLEAN]
  BY ExectorAssumption DEF ExecTypeOK
<1>2. program["out"] \in 0 .. MaxOutput /\ program["err"] \in 0 .. MaxOutput
  BY <1>1
<1> QED BY <1>2 DEF Streams

LEMMA CheckTimeoutStep ==
  ASSUME ExecInv, CheckTimeout
  PROVE  ExecInv'
<1> USE ExectorAssumption DEF ExecInv, CheckTimeout, config, Streams
<1>1. ExecTypeOK'
  BY DEF ExecTypeOK
<1>2. Phases'
  BY DEF Phases, ExecTypeOK
<1>3. Pipes'
  BY DEF Pipes, ExecTypeOK, Phases
<1>4. Deadline'
  <2>1. endtime' = MaxLong \/ (endtime' = 0 /\ timeoutMS > 0 /\ now + timeoutMS <= MaxLong)
    <3>1. CASE timeoutMS > 0
      BY <3>1, WrappedSum DEF ExecTypeOK, NoDeadline
    <3>2. CASE timeoutMS <= 0
      BY <3>2 DEF NoDeadline
    <3> QED BY <3>1, <3>2 DEF ExecTypeOK
  <2> QED BY <2>1 DEF Deadline, Representable, Phases, ExecTypeOK
<1>5. NeverAbandoned'
  BY DEF NeverAbandoned, Phases
<1> QED BY <1>1, <1>2, <1>3, <1>4, <1>5

LEMMA StartStep ==
  ASSUME ExecInv, Start
  PROVE  ExecInv'
<1> USE ExectorAssumption DEF ExecInv, Start, config, Streams
<1>0. /\ endtime' \in -(MaxLong + 1) .. MaxLong
      /\ \/ endtime' = MaxLong
         \/ Representable /\ (endtime' > 0 => endtime' >= started + timeoutMS)
  <2>1. CASE endtime = MaxLong
    BY <2>1
  <2>2. CASE endtime # MaxLong
    <3>1. Representable /\ started <= now /\ endtime' = Wrap(now + timeoutMS)
      BY <2>2 DEF Deadline
    <3>2. now \in 0 .. MaxLong /\ timeoutMS \in 1 .. MaxLong
      BY <3>1 DEF ExecTypeOK, Representable
    <3>3. Wrap(now + timeoutMS) > 0 => Wrap(now + timeoutMS) = now + timeoutMS
      BY <3>2, WrappedSum
    <3> QED BY <3>1, <3>2, <3>3, WrappedSum DEF ExecTypeOK
  <2> QED BY <2>1, <2>2
<1>1. ExecTypeOK'
  BY <1>0 DEF ExecTypeOK
<1>2. Phases'
  BY DEF Phases, ExecTypeOK
<1>3. Pipes'
  BY DEF Pipes, ExecTypeOK, Phases
<1>4. Deadline'
  BY <1>0 DEF Deadline, Representable, Phases, ExecTypeOK
<1>5. NeverAbandoned'
  BY DEF NeverAbandoned, Phases
<1> QED BY <1>1, <1>2, <1>3, <1>4, <1>5

LEMMA PollStep ==
  ASSUME ExecInv, Poll
  PROVE  ExecInv'
<1> USE ExectorAssumption DEF ExecInv, Poll, config, Streams
<1>1. ExecTypeOK'
  BY DEF ExecTypeOK
<1>2. Phases'
  BY DEF Phases, ExecTypeOK
<1>3. Pipes'
  BY DEF Pipes, ExecTypeOK, Phases
<1>4. Deadline'
  BY DEF Deadline, Representable, ExecTypeOK
<1>5. NeverAbandoned'
  BY DEF NeverAbandoned, Phases
<1> QED BY <1>1, <1>2, <1>3, <1>4, <1>5

LEMMA CheckClockStep ==
  ASSUME ExecInv, CheckClock
  PROVE  ExecInv'
<1> USE ExectorAssumption DEF ExecInv, CheckClock, config, Streams
<1>1. ExecTypeOK'
  BY DEF ExecTypeOK
<1>2. Phases'
  <2>1. loader \notin {"check", "start", "drain", "done"} /\ child # "none" /\ open
    BY DEF Phases
  <2>2. CASE now >= endtime /\ timedOut' = TRUE /\ watcher' = "dead"
    BY <2>1, <2>2 DEF Phases
  <2>3. CASE watcher' = "poll" /\ UNCHANGED <<timedOut, sigterm, open>>
    BY <2>1, <2>3 DEF Phases
  <2> QED BY <2>2, <2>3
<1>3. Pipes'
  BY DEF Pipes, ExecTypeOK, Phases
<1>4. Deadline'
  BY DEF Deadline, Representable, ExecTypeOK
<1>5. NeverAbandoned'
  BY DEF NeverAbandoned, Phases
<1> QED BY <1>1, <1>2, <1>3, <1>4, <1>5

LEMMA CheckAliveStep ==
  ASSUME ExecInv, CheckAlive
  PROVE  ExecInv'
<1> USE ExectorAssumption DEF ExecInv, CheckAlive, config, Streams
<1>1. ExecTypeOK'
  BY DEF ExecTypeOK
<1>2. Phases'
  BY DEF Phases, ExecTypeOK
<1>3. Pipes'
  BY DEF Pipes, ExecTypeOK, Phases
<1>4. Deadline'
  BY DEF Deadline, Representable, ExecTypeOK
<1>5. NeverAbandoned'
  BY DEF NeverAbandoned, Phases
<1> QED BY <1>1, <1>2, <1>3, <1>4, <1>5

LEMMA ForwardStderrStep ==
  ASSUME ExecInv, ForwardStderr
  PROVE  ExecInv'
<1> USE ExectorAssumption DEF ExecInv, ForwardStderr, Drain, config, Streams
<1>1. ExecTypeOK'
  BY DEF ExecTypeOK
<1>2. Phases'
  BY DEF Phases, ExecTypeOK
<1>3. Pipes'
  BY DEF Pipes, ExecTypeOK, Phases
<1>4. Deadline'
  BY DEF Deadline, Representable, ExecTypeOK
<1>5. NeverAbandoned'
  BY DEF NeverAbandoned, Phases
<1> QED BY <1>1, <1>2, <1>3, <1>4, <1>5

LEMMA InterruptStep ==
  ASSUME ExecInv, Interrupt
  PROVE  ExecInv'
<1> USE ExectorAssumption DEF ExecInv, Interrupt, config, Streams
<1>1. ExecTypeOK'
  BY DEF ExecTypeOK
<1>2. Phases'
  BY DEF Phases, ExecTypeOK
<1>3. Pipes'
  BY DEF Pipes, ExecTypeOK, Phases
<1>4. Deadline'
  BY DEF Deadline, Representable, ExecTypeOK
<1>5. NeverAbandoned'
  BY DEF NeverAbandoned, Phases
<1> QED BY <1>1, <1>2, <1>3, <1>4, <1>5

LEMMA MakeTupleStep ==
  ASSUME ExecInv, MakeTuple
  PROVE  ExecInv'
<1> USE ExectorAssumption DEF ExecInv, MakeTuple, Drain, config, Streams
<1>1. ExecTypeOK'
  BY DEF ExecTypeOK
<1>2. Phases'
  BY DEF Phases, ExecTypeOK
<1>3. Pipes'
  <2>1. watcher = "dead" /\ (~timedOut => child = "gone" /\ open)
    BY DEF Phases
  <2>2. open => \A s \in Streams : read'[s] = written[s]
    OBVIOUS
  <2>3. timedOut => read'["out"] = 0
    <3>1. ~ open => read'["out"] = read["out"]
      OBVIOUS
    <3>2. timedOut => ~ open
      BY DEF Phases
    <3> QED BY <3>1, <3>2 DEF Pipes
  <2> QED BY <2>1, <2>2, <2>3 DEF Pipes
<1>4. Deadline'
  BY DEF Deadline, Representable, ExecTypeOK
<1>5. NeverAbandoned'
  BY DEF NeverAbandoned, Phases
<1> QED BY <1>1, <1>2, <1>3, <1>4, <1>5

LEMMA ExitStep ==
  ASSUME ExecInv, Exit
  PROVE  ExecInv'
<1> USE ExectorAssumption DEF ExecInv, Exit, config, Streams
<1>1. ExecTypeOK'
  BY DEF ExecTypeOK
<1>2. Phases'
  BY DEF Phases, ExecTypeOK
<1>3. Pipes'
  BY DEF Pipes, ExecTypeOK, Phases
<1>4. Deadline'
  BY DEF Deadline, Representable, ExecTypeOK
<1>5. NeverAbandoned'
  BY DEF NeverAbandoned, Phases
<1> QED BY <1>1, <1>2, <1>3, <1>4, <1>5

LEMMA TickStep ==
  ASSUME ExecInv, Tick
  PROVE  ExecInv'
<1> USE ExectorAssumption DEF ExecInv, Tick, config, Streams
<1>1. ExecTypeOK'
  BY DEF ExecTypeOK
<1>2. Phases'
  BY DEF Phases, ExecTypeOK
<1>3. Pipes'
  BY DEF Pipes, ExecTypeOK, Phases
<1>4. Deadline'
  BY DEF Deadline, Representable, ExecTypeOK
<1>5. NeverAbandoned'
  BY DEF NeverAbandoned, Phases
<1> QED BY <1>1, <1>2, <1>3, <1>4, <1>5

LEMMA WriteStep ==
  ASSUME ExecInv, NEW s \in Streams, Write(s)
  PROVE  ExecInv'
<1> USE DEF ExecInv, Write, config
<1>1. ExecTypeOK'
  <2>1. program[s] \in 0 .. MaxOutput /\ written[s] \in 0 .. MaxOutput
    BY OutputBound DEF ExecTypeOK
  <2>2. written[s] + 1 \in 0 .. MaxOutput
    BY <2>1, ExectorAssumption
  <2>3. written' \in [Streams -> 0 .. MaxOutput]
    BY <2>2 DEF ExecTypeOK
  <2> QED BY <2>3 DEF ExecTypeOK
<1>2. Phases'
  BY DEF Phases
<1>3. Pipes'
  BY DEF Pipes, Phases, ExecTypeOK
<1>4. Deadline'
  BY DEF Deadline, Representable
<1>5. NeverAbandoned'
  BY DEF NeverAbandoned
<1> QED BY <1>1, <1>2, <1>3, <1>4, <1>5

-----------------------------------------------------------------------------
(* Theorems *)

(* The invariant holds in every reachable state.                           *)
THEOREM ExecInductive == ExecSpec => []ExecInv
<1>1. ExecInit => ExecInv
  <2> SUFFICES ASSUME ExecInit
               PROVE  ExecInv
    OBVIOUS
  <2>1. ExecTypeOK
    <3>1. 1 \in 1 .. MaxNow /\ 0 \in 0 .. MaxNow /\ 0 \in 0 .. MaxOutput
      BY ExectorAssumption
    <3>2. 0 \in -(MaxLong + 1) .. MaxLong
      BY ExectorAssumption
    <3>3. [s \in Streams |-> 0] \in [Streams -> 0 .. MaxOutput]
      BY <3>1
    <3> QED BY <3>1, <3>2, <3>3, Zenon DEF ExecInit, ExecTypeOK
  <2>2. Phases /\ Deadline /\ NeverAbandoned
    BY DEF ExecInit, Phases, Deadline, NeverAbandoned
  <2>3. Pipes
    BY DEF ExecInit, Pipes, Streams
  <2> QED BY <2>1, <2>2, <2>3 DEF ExecInv
<1>2. ExecInv /\ [ExecNext]_execVars => ExecInv'
  <2> SUFFICES ASSUME ExecInv, [ExecNext]_execVars
               PROVE  ExecInv'
    OBVIOUS
  <2>1. CASE LoaderThread
    BY <2>1, CheckTimeoutStep, StartStep, CheckAliveStep, ForwardStderrStep,
       MakeTupleStep DEF LoaderThread
  <2>2. CASE Interrupt
    BY <2>2, InterruptStep
  <2>3. CASE WatcherThread
    BY <2>3, PollStep, CheckClockStep DEF WatcherThread
  <2>4. CASE Child
    BY <2>4, ExitStep, WriteStep DEF Child
  <2>5. CASE Tick
    BY <2>5, TickStep
  <2>6. CASE UNCHANGED execVars
    BY <2>6 DEF execVars, ExecInv, ExecTypeOK, Phases, Pipes, Deadline, Representable, NeverAbandoned
  <2> QED BY <2>1, <2>2, <2>3, <2>4, <2>5, <2>6 DEF ExecNext
<1> QED BY <1>1, <1>2, PTL DEF ExecSpec

(* Every variable keeps its type.                                          *)
THEOREM ExecTypeCorrect == ExecSpec => []ExecTypeOK
BY ExecInductive, PTL DEF ExecInv

(* A tuple carries all of the program's output or, if it timed out, none.  *)
THEOREM AllOrNothing == ExecSpec => []OutputWhole
<1>1. ExecInv => OutputWhole
  BY DEF ExecInv, Phases, Pipes, OutputWhole, CompleteOutput, TimedOutIsEmpty
<1> QED BY <1>1, ExecInductive, PTL

(* A program is destroyed only when a representable deadline has passed.   *)
THEOREM NeverEarly == ExecSpec => []TimesOutWhenDue
<1>1. ExecInv => TimesOutWhenDue
  BY ExectorAssumption DEF ExecInv, ExecTypeOK, Phases, Deadline, Representable, TimesOutWhenDue
<1> QED BY <1>1, ExecInductive, PTL

(* A running program is watched or has been destroyed.                     *)
THEOREM AlwaysWatched == ExecSpec => []NeverAbandoned
BY ExecInductive, PTL DEF ExecInv
=============================================================================
