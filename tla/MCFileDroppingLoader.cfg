CONSTANTS
  a = a
  b = b
  c = c
  j1 = j1
  j2 = j2
  w1 = w1
  k1 = k1
  k2 = k2
  None = None
  Loaders = {a, b, c}
  Jvms = {j1, j2}
  Keys = {k1, k2}
  Uuids = {u1, u2}
  Cwds = {w1}
  Jvm <- MCJvm
  UseDevShm <- MCUseDevShm
  WorkingDir <- MCWorkingDir
  Splits <- MCSplits
SPECIFICATION Spec
INVARIANTS
  TypeOK
  FilesStand
  OneDroppedFile
  NoOrphansAfterExit
