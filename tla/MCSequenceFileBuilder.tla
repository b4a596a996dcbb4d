----------------------- MODULE MCSequenceFileBuilder -----------------------
(***************************************************************************)
(* Two names, and sources of every kind: whole, with a directory between   *)
(* the files, empty, cut in a body and in a header, of unknown format, and *)
(* a subdirectory of the input.                                            *)
(***************************************************************************)
EXTENDS SequenceFileBuilder

CONSTANTS n1, n2

Source(format, entries, cut) == [format |-> format, entries |-> entries, cut |-> cut]

MCSources ==
  { Source("known", <<TRUE, FALSE, TRUE>>, "whole"),
    Source("known", << >>, "whole"),
    Source("known", <<TRUE>>, "body"),
    Source("known", <<TRUE, TRUE>>, "header"),
    Source("unknown", << >>, "whole"),
    Source("none", << >>, "whole") }
=============================================================================
