-------------------------- MODULE MCDataTablePage --------------------------
(***************************************************************************)
(* The tables of facet.html and search.html, and the other settings: all   *)
(* features, paging alone, an Ajax source, a server.                       *)
(***************************************************************************)
EXTENDS DataTablePage

MCAccepts(input, text) ==
  \E i \in 1 .. Len(text) + 1 : IsPrefix(input, SubSeq(text, i, Len(text)))
MCLess(t, u) == t # u /\ (IsPrefix(t, u) \/ (t[1] = "a" /\ u[1] = "b"))

Setting(filter, sort, paginate, server, defer, save, source, lengths) ==
  [bFilter |-> filter, bSort |-> sort, bPaginate |-> paginate, bServerSide |-> server,
   bDeferRender |-> defer, bStateSave |-> save, source |-> source, aLengthMenu |-> lengths]

MCFeatures ==
  {Setting(TRUE, FALSE, FALSE, FALSE, TRUE, FALSE, "dom", {-1, 2}),
   Setting(FALSE, FALSE, FALSE, FALSE, FALSE, FALSE, "dom", {2}),
   Setting(TRUE, TRUE, TRUE, FALSE, FALSE, TRUE, "dom", {-1, 2}),
   Setting(FALSE, FALSE, TRUE, FALSE, FALSE, FALSE, "dom", {-1, 1, 2}),
   Setting(FALSE, FALSE, TRUE, FALSE, TRUE, TRUE, "ajax", {-1, 1, 2}),
   Setting(TRUE, FALSE, FALSE, FALSE, FALSE, FALSE, "ajax", {2}),
   Setting(TRUE, TRUE, TRUE, TRUE, FALSE, FALSE, "server", {-1, 2})}

A == <<"a">>
B == <<"b">>
AB == <<"a", "b">>

MCSourceRows == <<AB, A, B>>
MCTexts == {A, AB}
MCInputs == {<< >>, A, B, AB}
MCColumnInputs == {<< >>, B}
=============================================================================
