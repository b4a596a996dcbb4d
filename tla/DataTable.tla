----------------------------- MODULE DataTable -----------------------------
(***************************************************************************)
(* The tables of the web pages: the state of DataTables 1.9.4              *)
(* (jquery.dataTables.js), which facet.html and search.html start on every *)
(* table.  The functions below are the internal ones of the source, from   *)
(* one settings object to the next; DataTablePage has the steps.           *)
(*                                                                         *)
(* A row is a key, which stands for the object and for its tr, and a text, *)
(* which is what its cells are searched and sorted by.  Indices into       *)
(* aoData begin with 1.  One sortable column; markup, widths, scrolling    *)
(* and callbacks of the page are left out.                                 *)
(***************************************************************************)
EXTENDS Integers, Sequences, SequencesExt, FiniteSets, Places

CONSTANTS
  Accepts(_, _),  \* the search made of an input accepts a text
  Less(_, _)      \* the order of texts

Reversed == [asc |-> "desc", desc |-> "asc", none |-> "asc"]

NoNode == 0
NewRow(key, text) == [key |-> key, text |-> text, node |-> NoNode]

Row(key) == [tr |-> "row", key |-> key]
Detail(key) == [tr |-> "detail", key |-> key]

KeysOf(rows) == {rows[i].key : i \in DOMAIN rows}
IndexOf(seq, x) == {i \in DOMAIN seq : seq[i] = x}

TextsAt(s, indices) == [i \in DOMAIN indices |-> s.aoData[indices[i]].text]

\* The indices of rows whose text the input accepts.
Accepted(s, indices, input) ==
  ItemsAt(indices, {k \in DOMAIN indices : Accepts(input, s.aoData[indices[k]].text)})

-----------------------------------------------------------------------------
(***************************************************************************)
(* Paging.                                                                 *)
(***************************************************************************)
RecordsDisplay(s) == IF s.f.bServerSide THEN s.recordsDisplay ELSE Len(s.aiDisplay)

CalculateEnd(s) ==
  [s EXCEPT !.end =
     IF \/ ~s.f.bPaginate
        \/ s.start + s.length > Len(s.aiDisplay)
        \/ s.length = -1
     THEN Len(s.aiDisplay)
     ELSE s.start + s.length]

DisplayEnd(s) ==
  CASE ~s.f.bServerSide -> s.end
    [] s.f.bServerSide /\ (~s.f.bPaginate \/ s.length = -1) -> s.start + Len(s.aiDisplay)
    [] OTHER -> IF s.start + s.length < s.recordsDisplay
                THEN s.start + s.length ELSE s.recordsDisplay

NotBelow0(n) == IF n < 0 THEN 0 ELSE n

\* Mutant: the last page may be passed.
NextStartAlways(s) == s.start + s.length

NextStart(s) ==
  IF s.start + s.length < RecordsDisplay(s) THEN s.start + s.length ELSE s.start

\* parseInt cuts towards 0.
LastPage(s) ==
  IF RecordsDisplay(s) = 0 /\ s.length > 1 THEN 0
  ELSE (RecordsDisplay(s) - 1) \div s.length

\* The place a paging action leads to.
PageStart(s, action) ==
  CASE s.length < 0 -> 0
    [] s.length >= 0 /\ action = "first" -> 0
    [] s.length >= 0 /\ action = "previous" -> NotBelow0(s.start - s.length)
    [] s.length >= 0 /\ action = "next" -> NextStart(s)
    [] s.length >= 0 /\ action = "last" -> LastPage(s) * s.length

\* The place a page number leads to; the first page is 0.
NumberStart(s, page) ==
  IF page * s.length > RecordsDisplay(s) THEN 0 ELSE page * s.length

-----------------------------------------------------------------------------
(***************************************************************************)
(* Drawing.                                                                *)
(***************************************************************************)
\* Mutant: the page is not saved.
SavedStateNoStart(s) ==
  [start |-> 0, length |-> s.length, sorting |-> s.aaSorting,
   search |-> s.sSearch, column |-> s.sColumn]

SavedState(s) ==
  [start |-> s.start, length |-> s.length, sorting |-> s.aaSorting,
   search |-> s.sSearch, column |-> s.sColumn]

SaveState(s) == IF s.f.bStateSave THEN [s EXCEPT !.cookie = {SavedState(s)}] ELSE s

InitStart(s) ==
  IF ~s.f.bServerSide /\ s.initStart >= RecordsDisplay(s) THEN 0 ELSE s.initStart

\* The first draw goes to the page that was asked for or saved.
TakeInitStart(s) ==
  IF s.initStart = -1 THEN s
  ELSE CalculateEnd([s EXCEPT !.start = InitStart(s), !.initStart = -1])

\* What a draw puts into the body: the page, and the details of its rows.
Page(s) ==
  IF s.f.bServerSide \/ s.aiDisplay = << >> THEN s.aiDisplay
  ELSE SubSeq(s.aiDisplay, s.start + 1, s.end)

\* Every row of a page and behind it its details, as if all were open.
AllTrs(s, page) ==
  LET KeyAt(place) == s.aoData[page[(place + 1) \div 2]].key
  IN [place \in 1 .. 2 * Len(page) |->
        IF place % 2 = 1 THEN Row(KeyAt(place)) ELSE Detail(KeyAt(place))]

BodyOf(s) ==
  LET all == AllTrs(s, Page(s))
  IN ItemsAt(all, {place \in DOMAIN all : all[place].tr = "detail" => all[place].key \in s.open})

\* Rows get their tr when they are added, or when they are drawn.
CreateTrs(s, indices) ==
  [s EXCEPT !.aoData = [i \in DOMAIN @ |->
     IF i \in indices /\ @[i].node = NoNode THEN [@[i] EXCEPT !.node = i] ELSE @[i]]]

\* Before the first row there is none: a draw from there throws.
InsertRows(s) ==
  IF s.start < 0 /\ ~s.f.bServerSide /\ s.aiDisplay # << >> THEN s
  ELSE SaveState(CreateTrs([s EXCEPT !.body = BodyOf(s)], ToSet(Page(s))))

\* What a request tells the server.
Params(s) ==
  [start |-> s.start,
   length |-> IF s.f.bPaginate THEN s.length ELSE -1,
   search |-> IF s.f.bFilter THEN s.sSearch ELSE << >>,
   column |-> IF s.f.bFilter THEN s.sColumn ELSE << >>,
   sorting |-> IF s.f.bSort THEN s.aaSorting ELSE "none"]

AjaxUpdate(s) ==
  [s EXCEPT !.iDraw = @ + 1,
            !.requests = @ \cup {[sEcho |-> s.iDraw + 1, params |-> Params(s)]}]

Draw(s) ==
  LET started == TakeInitStart(s)
  IN IF s.f.bServerSide THEN AjaxUpdate(started) ELSE InsertRows(started)

-----------------------------------------------------------------------------
(***************************************************************************)
(* Searching.  asDataSearch holds the texts of the rows in aiDisplay, for  *)
(* an input that goes on from the last one: then only the rows shown are   *)
(* looked at.                                                              *)
(***************************************************************************)
\* Mutant: an input that contains the last one elsewhere refines it too.
RefinesLonger(s, input) ==
  /\ Len(s.aiDisplay) # Len(s.aiDisplayMaster)
  /\ Len(s.sSearch) <= Len(input)

Refines(s, input) ==
  /\ Len(s.aiDisplay) # Len(s.aiDisplayMaster)
  /\ Len(s.sSearch) <= Len(input)
  /\ IsPrefix(s.sSearch, input)

\* splice() over aiDisplay, place by place; asDataSearch and aiDisplay need
\* not be equally long.
Refined(s, input) ==
  ItemsAt(s.aiDisplay, {k \in DOMAIN s.aiDisplay :
                          k \in DOMAIN s.asDataSearch => Accepts(input, s.asDataSearch[k])})

Filter(s, input, force) ==
  CASE input = << >> -> [s EXCEPT !.aiDisplay = s.aiDisplayMaster, !.loose = FALSE]
    [] input # << >> /\ ~force /\ Refines(s, input) ->
         [s EXCEPT !.aiDisplay = Refined(s, input), !.loose = @ \/ s.stale]
    [] OTHER ->
         [s EXCEPT !.aiDisplay = Accepted(s, s.aiDisplayMaster, input), !.loose = FALSE]

FilterColumn(s) ==
  IF s.sColumn = << >> THEN s
  ELSE [s EXCEPT !.aiDisplay = Accepted(s, s.aiDisplay, s.sColumn)]

BuildSearchArray(s) ==
  IF s.f.bServerSide THEN s
  ELSE [s EXCEPT !.asDataSearch = TextsAt(s, s.aiDisplay), !.stale = FALSE]

FilterComplete(s, input, force) ==
  LET filtered == IF s.f.bServerSide THEN s ELSE FilterColumn(Filter(s, input, force))
      first == [filtered EXCEPT !.sSearch = input, !.start = 0, !.adrift = FALSE]
  IN BuildSearchArray(Draw(CalculateEnd(first)))

-----------------------------------------------------------------------------
(***************************************************************************)
(* Sorting.                                                                *)
(***************************************************************************)
Before(s, a, b) ==
  LET x == s.aoData[a].text
      y == s.aoData[b].text
  IN IF s.aaSorting = "asc" THEN Less(x, y) ELSE Less(y, x)

\* The place l comes before k in the order; rows that compare equal keep theirs.
Precedes(s, l, k) ==
  LET master == s.aiDisplayMaster
  IN \/ Before(s, master[l], master[k])
     \/ l < k /\ ~Before(s, master[k], master[l])

\* The place from which the n-th row comes.
Nth(s, n) ==
  LET places == DOMAIN s.aiDisplayMaster
  IN CHOOSE k \in places : Cardinality({l \in places : Precedes(s, l, k)}) = n - 1

SortedMaster(s) ==
  IF s.f.bServerSide \/ s.aaSorting = "none" THEN s.aiDisplayMaster
  ELSE [n \in DOMAIN s.aiDisplayMaster |-> s.aiDisplayMaster[Nth(s, n)]]

AfterSort(s) ==
  IF s.f.bFilter THEN FilterComplete(s, s.sSearch, TRUE)
  ELSE Draw(CalculateEnd([s EXCEPT !.aiDisplay = s.aiDisplayMaster, !.start = 0,
                                   !.adrift = FALSE, !.loose = FALSE]))

Sort(s) == AfterSort([s EXCEPT !.aiDisplayMaster = SortedMaster(s), !.unsorted = FALSE])

ReDraw(s) ==
  CASE s.f.bSort -> Sort(s)
    [] ~s.f.bSort /\ s.f.bFilter -> FilterComplete(s, s.sSearch, FALSE)
    [] OTHER -> Draw(CalculateEnd(s))

-----------------------------------------------------------------------------
(***************************************************************************)
(* Rows.                                                                   *)
(***************************************************************************)
AddRows(s, rows) ==
  LET count == Len(s.aoData)
      added == [s EXCEPT !.aoData = @ \o rows,
                         !.aiDisplayMaster = @ \o [k \in DOMAIN rows |-> count + k]]
  IN IF s.f.bDeferRender THEN added ELSE CreateTrs(added, {count + k : k \in DOMAIN rows})

AddRow(s, row) == AddRows(s, <<row>>)

ClearTable(s) ==
  CalculateEnd([s EXCEPT !.aoData = << >>, !.aiDisplayMaster = << >>, !.aiDisplay = << >>])

\* Mutant: the indices behind the one removed stay as they are.
DeleteIndexOnly(indices, target) == ItemsAt(indices, {k \in DOMAIN indices : indices[k] # target})

DeleteIndex(indices, target) ==
  LET left == ItemsAt(indices, {k \in DOMAIN indices : indices[k] # target})
  IN [k \in DOMAIN left |-> IF left[k] > target THEN left[k] - 1 ELSE left[k]]

\* The rows left, each tr told its new index.
SplicedRows(s, target) ==
  LET left == RemoveAt(s.aoData, target)
  IN [i \in DOMAIN left |-> IF left[i].node = NoNode THEN left[i] ELSE [left[i] EXCEPT !.node = i]]

\* $.inArray gives -1 for a row that is not displayed, and splice(-1, 1) then
\* removes the last entry.
SplicedSearch(s, target) ==
  LET displayed == IndexOf(s.aiDisplay, target)
      last == Len(s.asDataSearch)
  IN CASE s.asDataSearch = << >> -> << >>
       [] displayed # {} /\ displayed \subseteq DOMAIN s.asDataSearch ->
            RemoveAt(s.asDataSearch, CHOOSE i \in displayed : TRUE)
       [] displayed # {} /\ ~(displayed \subseteq DOMAIN s.asDataSearch) -> s.asDataSearch
       [] OTHER -> RemoveAt(s.asDataSearch, last)

\* An element assigned behind the end leaves undefined ones before it.
Undefined == <<"undefined">>

AssignSearch(s, i, text) ==
  [k \in 1 .. (IF i > Len(s.asDataSearch) THEN i ELSE Len(s.asDataSearch)) |->
     CASE k = i -> text
       [] k # i /\ k \in DOMAIN s.asDataSearch -> s.asDataSearch[k]
       [] OTHER -> Undefined]

UpdatedSearch(s, target, text) ==
  LET displayed == IndexOf(s.aiDisplay, target)
  IN IF displayed = {} THEN s.asDataSearch
     ELSE AssignSearch(s, CHOOSE i \in displayed : TRUE, text)

-----------------------------------------------------------------------------
(***************************************************************************)
(* The buttons of full_numbers paging: a window of show pages around the   *)
(* current one.  length is positive.                                       *)
(***************************************************************************)
CeilDiv(n, d) == (n + d - 1) \div d

PageButtons(records, length, start, show) ==
  LET pages == CeilDiv(records, length)
      current == CeilDiv(start, length) + 1
      half == show \div 2
      from == CASE pages < show \/ current <= half -> 1
                [] pages >= show /\ current > half /\ current >= pages - half ->
                     pages - show + 1
                [] OTHER -> current - CeilDiv(show, 2) + 1
      to == IF pages < show THEN pages ELSE from + show - 1
  IN [current |-> current, buttons |-> from .. to]
=============================================================================
