-------------------------- MODULE MCProgramExector --------------------------
(***************************************************************************)
(* Every program that writes at most two chunks to each stream, through    *)
(* pipes that hold one; no deadline (0 and Long.MAX_VALUE), a near one,    *)
(* and one whose sum with the clock passes Long.MAX_VALUE between the      *)
(* constructor's two reads.                                                *)
(***************************************************************************)
EXTENDS ProgramExector

MCPrograms ==
  [out : 0 .. MaxOutput, err : 0 .. MaxOutput, ends : BOOLEAN, obeys : BOOLEAN]
=============================================================================
