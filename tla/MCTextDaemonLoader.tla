------------------------- MODULE MCTextDaemonLoader -------------------------
(***************************************************************************)
(* Three records in two splits; no timeout (0, and one too large for an    *)
(* int), one of 2, and one setSoTimeout rejects.                           *)
(***************************************************************************)
EXTENDS TextDaemonLoader

MCTimeouts == {-1, 0, 2, 4}
MCSplitEnds == <<2, 3>>
=============================================================================
