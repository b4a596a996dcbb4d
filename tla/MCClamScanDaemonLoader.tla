----------------------- MODULE MCClamScanDaemonLoader -----------------------
(***************************************************************************)
(* Three records; no timeout (0, and one beyond an int), one of 2, and one *)
(* setSoTimeout rejects.                                                   *)
(***************************************************************************)
EXTENDS ClamScanDaemonLoader

MCTimeouts == {-1, 0, 2, 4}
=============================================================================
