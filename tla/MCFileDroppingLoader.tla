------------------------ MODULE MCFileDroppingLoader ------------------------
(***************************************************************************)
(* Two JVMs (local mode started twice).  Loaders a and b share one working *)
(* directory from the two JVMs; c uses /dev/shm in a's JVM, over two       *)
(* splits, and reads the key k1 in both.                                   *)
(***************************************************************************)
EXTENDS FileDroppingLoader, TLC

CONSTANTS a, b, c, j1, j2, w1, k1, k2

MCJvm == a :> j1 @@ b :> j2 @@ c :> j1
MCUseDevShm == a :> FALSE @@ b :> FALSE @@ c :> TRUE
MCWorkingDir == a :> w1 @@ b :> w1 @@ c :> w1
MCSplits == a :> <<<<k1>>>> @@ b :> <<<<k1, k2>>>> @@ c :> <<<<k1>>, <<k1, k2>>>>
=============================================================================
