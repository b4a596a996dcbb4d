--------------------------- MODULE DataTablePage ---------------------------
(***************************************************************************)
(* A table of a page in use: the user types, sorts, pages and reloads; the *)
(* page's own script calls the API; a server answers requests late, in any *)
(* order, or not at all.  Each step is one event handler or API call, with *)
(* all the functions of DataTable it runs through.                         *)
(***************************************************************************)
EXTENDS DataTable

CONSTANTS
  Features,       \* the settings a page may start a table with, the menu of lengths among them
  SourceRows,     \* the texts of the rows the page or the server has
  Keys,           \* keys of rows: 1 .. n
  Texts,          \* what cells may hold
  Inputs,         \* what is typed into the search field
  ColumnInputs,   \* what the script filters the column by
  MaxEdits,       \* bound: changes the script makes to rows
  MaxDraws,       \* bound: requests to the server
  MaxOpen,        \* bound: rows whose details are open
  ShowPages       \* iFullNumbersShowPages

CellTexts == Texts \cup ToSet(SourceRows)

ASSUME KeysAssumption ==
  /\ IsFiniteSet(Keys) /\ Keys = 1 .. Cardinality(Keys)
  /\ Len(SourceRows) <= Cardinality(Keys) /\ SourceRows \in Seq(CellTexts)

\* Rows come from an Ajax source or from a server; there is no page of length 0.
ASSUME FeaturesAssumption ==
  \A f \in Features :
    /\ {f.bFilter, f.bSort, f.bPaginate, f.bServerSide, f.bDeferRender, f.bStateSave} \subseteq BOOLEAN
    /\ f.bServerSide => f.source # "ajax"
    /\ f.aLengthMenu \subseteq (Nat \ {0}) \cup {-1}

ASSUME ShowPagesAssumption == ShowPages \in Nat \ {0}

\* Texts are sorted by a key, so they come in a strict weak order.
ASSUME LessAssumption ==
  \A t, u, v \in CellTexts :
    /\ ~(Less(t, u) /\ Less(u, t))
    /\ Less(t, v) => Less(t, u) \/ Less(u, v)

\* What an input finds is found by what was typed of it before: each of its
\* words is looked for by itself, anywhere in the row (_fnFilterCreateSearch).
ASSUME AcceptsAssumption ==
  \A t \in CellTexts :
    /\ Accepts(<< >>, t)
    /\ \A input, longer \in Inputs :
         IsPrefix(input, longer) /\ Accepts(longer, t) => Accepts(input, t)

VARIABLES
  oSettings,  \* the settings object of the table
  edits,      \* changes made to the rows since the page was loaded
  undrawn     \* history: a call left the table without a draw

vars == <<oSettings, edits, undrawn>>

NoAnswer == [sEcho |-> 0, params |-> "none"]

-----------------------------------------------------------------------------
(***************************************************************************)
(* Starting.                                                               *)
(***************************************************************************)
SourceTable == [i \in DOMAIN SourceRows |-> NewRow(i, SourceRows[i])]

\* What the cookie of the page kept, or the defaults.
LoadState(f, cookie, length) ==
  IF f.bStateSave /\ cookie # {} THEN CHOOSE saved \in cookie : TRUE
  ELSE [start |-> 0, length |-> length, sorting |-> "asc", search |-> << >>, column |-> << >>]

\* The settings before the first draw, with the rows of the page's own markup.
Constructed(f, cookie, length) ==
  LET rows == IF f.source = "dom"
              THEN [i \in DOMAIN SourceTable |-> [SourceTable[i] EXCEPT !.node = i]]
              ELSE << >>
      first == LoadState(f, cookie, length)
  IN [f |-> f, aoData |-> rows,
      aiDisplayMaster |-> [i \in DOMAIN rows |-> i],
      aiDisplay |-> [i \in DOMAIN rows |-> i],
      asDataSearch |-> << >>,
      sSearch |-> first.search, sColumn |-> first.column, aaSorting |-> first.sorting,
      start |-> first.start, initStart |-> first.start, ajaxStart |-> first.start,
      end |-> 0, length |-> first.length,
      body |-> << >>, open |-> {}, cookie |-> cookie,
      loading |-> f.source = "ajax",
      iDraw |-> 0, requests |-> {}, recordsDisplay |-> 0, answer |-> NoAnswer,
      loose |-> FALSE, unsorted |-> FALSE, stale |-> FALSE, adrift |-> FALSE]

Initialise(s) ==
  CASE s.f.bSort -> Sort(s)
    [] ~s.f.bSort /\ s.f.bFilter -> FilterComplete(s, s.sSearch, FALSE)
    [] OTHER -> Draw(CalculateEnd([s EXCEPT !.aiDisplay = s.aiDisplayMaster]))

Init ==
  /\ \E f \in Features : \E length \in f.aLengthMenu :
       oSettings = Initialise(Constructed(f, {}, length))
  /\ edits = 0
  /\ undrawn = FALSE

\* The page is loaded again: what is left is the cookie, and open requests are
\* not waited for.
Reload ==
  /\ \E length \in oSettings.f.aLengthMenu :
       oSettings' = Initialise(Constructed(oSettings.f, oSettings.cookie, length))
  /\ edits' = 0
  /\ undrawn' = FALSE

\* The rows of an Ajax source arrive: without sorting, the searches typed or
\* saved are not applied.
AjaxLoad ==
  /\ oSettings.loading
  /\ LET loaded == [AddRows(oSettings, SourceTable) EXCEPT
                      !.loading = FALSE, !.initStart = oSettings.ajaxStart]
         shown == [loaded EXCEPT !.aiDisplay = loaded.aiDisplayMaster,
                     !.loose = loaded.sSearch # << >> \/ loaded.sColumn # << >>]
     IN oSettings' = IF loaded.f.bSort THEN Sort(loaded) ELSE Draw(CalculateEnd(shown))
  /\ UNCHANGED <<edits, undrawn>>

-----------------------------------------------------------------------------
(***************************************************************************)
(* The user.                                                               *)
(***************************************************************************)
CanAsk == oSettings.f.bServerSide => oSettings.iDraw < MaxDraws

Drawn(result) ==
  /\ CanAsk
  /\ oSettings' = result
  /\ undrawn' = FALSE

\* keyup in the search field.
Type ==
  /\ oSettings.f.bFilter
  /\ \E input \in Inputs \ {oSettings.sSearch} :
       Drawn(FilterComplete(oSettings, input, FALSE))
  /\ UNCHANGED edits

\* A click on the header; with shift the third click removes the sorting.
SortClick ==
  /\ oSettings.f.bSort
  /\ \E dir \in {Reversed[oSettings.aaSorting]}
               \cup (IF oSettings.aaSorting = "desc" THEN {"none"} ELSE {}) :
       Drawn(Sort([oSettings EXCEPT !.aaSorting = dir]))
  /\ UNCHANGED edits

GoTo(s, start) == CalculateEnd([s EXCEPT !.start = start])

\* first, previous, next and last; the page draws only if it changed.
PageClick ==
  /\ oSettings.f.bPaginate
  /\ \E action \in {"first", "previous", "next", "last"} :
       /\ PageStart(oSettings, action) # oSettings.start
       /\ Drawn(Draw(GoTo(oSettings, PageStart(oSettings, action))))
  /\ UNCHANGED edits

\* A numbered button.
PageNumberClick ==
  /\ oSettings.f.bPaginate /\ oSettings.length > 0
  /\ \E button \in PageButtons(RecordsDisplay(oSettings), oSettings.length,
                               oSettings.start, ShowPages).buttons :
       Drawn(Draw(GoTo(oSettings, NumberStart(oSettings, button - 1))))
  /\ UNCHANGED edits

\* The last page is filled up from before.
LengthStart(s) ==
  CASE s.length = -1 -> 0
    [] s.length # -1 /\ DisplayEnd(s) = RecordsDisplay(s) ->
         NotBelow0(DisplayEnd(s) - s.length)
    [] OTHER -> s.start

\* The menu of lengths.  (_iDisplayEnd is not computed again.)
LengthChange ==
  /\ oSettings.f.bPaginate
  /\ \E length \in oSettings.f.aLengthMenu \ {oSettings.length} :
       LET changed == CalculateEnd([oSettings EXCEPT !.length = length])
       IN Drawn(Draw([changed EXCEPT !.start = LengthStart(changed)]))
  /\ UNCHANGED edits

-----------------------------------------------------------------------------
(***************************************************************************)
(* The script of the page.                                                 *)
(***************************************************************************)
\* A row added is a new object; entries of aoOpenRows are left behind.
FreeKeys(s) == Keys \ (DOMAIN SourceRows \cup KeysOf(s.aoData) \cup KeysOf(s.body) \cup s.open)

\* A call with bRedraw, or without.
Edited(redrawn, left, redraw) ==
  /\ edits < MaxEdits
  /\ edits' = edits + 1
  /\ IF redraw
     THEN Drawn(redrawn)
     ELSE oSettings' = [left EXCEPT !.adrift = TRUE] /\ undrawn' = TRUE

AddData(redraw) ==
  \E text \in Texts :
    /\ FreeKeys(oSettings) # {}
    /\ LET key == CHOOSE k \in FreeKeys(oSettings) : \A j \in FreeKeys(oSettings) : k <= j
           added == AddRow(oSettings, NewRow(key, text))
           shown == [added EXCEPT !.aiDisplay = added.aiDisplayMaster,
                                !.loose = TRUE, !.unsorted = TRUE]
       IN Edited(ReDraw(shown), shown, redraw)

ClearRows(redraw) ==
  LET cleared == [ClearTable(oSettings) EXCEPT !.adrift = TRUE]
  IN Edited(Draw(cleared), cleared, redraw)

\* The check for an emptied page; a length of -1 moves it forward.
StartAfterDelete(s) ==
  IF s.start >= RecordsDisplay(s) THEN NotBelow0(s.start - s.length) ELSE s.start

DeleteRow(redraw) ==
  \E target \in DOMAIN oSettings.aoData :
    LET hidden == IndexOf(oSettings.aiDisplay, target) = {}
        removed == [oSettings EXCEPT
                      !.aoData = SplicedRows(oSettings, target),
                      !.asDataSearch = SplicedSearch(oSettings, target),
                      !.aiDisplayMaster = DeleteIndex(@, target),
                      !.aiDisplay = DeleteIndex(@, target),
                      !.stale = @ \/ hidden]
        moved == [removed EXCEPT
                    !.start = StartAfterDelete(removed),
                    !.adrift = @ \/ removed.length = -1]
    IN Edited(Draw(CalculateEnd(moved)), moved, redraw)

Update(redraw) ==
  \E target \in DOMAIN oSettings.aoData, text \in Texts :
    LET hidden == IndexOf(oSettings.aiDisplay, target) = {}
        changed == [oSettings EXCEPT
                      !.aoData[target].text = text,
                      !.asDataSearch = UpdatedSearch(oSettings, target, text),
                      !.loose = @ \/ ~redraw \/ hidden, !.unsorted = TRUE]
    IN /\ text # oSettings.aoData[target].text
       /\ Edited(ReDraw(changed), changed, redraw)

\* fnFilter of the whole table, or of the column.
CallFilter ==
  /\ oSettings.f.bFilter
  /\ \/ \E input \in Inputs : Drawn(FilterComplete(oSettings, input, TRUE))
     \/ \E input \in ColumnInputs :
          Drawn(FilterComplete([oSettings EXCEPT !.sColumn = input], oSettings.sSearch, TRUE))
  /\ UNCHANGED edits

\* fnSort, which sorts even a table without bSort.
CallSort ==
  /\ \E dir \in {"asc", "desc"} : Drawn(Sort([oSettings EXCEPT !.aaSorting = dir]))
  /\ UNCHANGED edits

CallDraw ==
  /\ \/ Drawn(ReDraw(oSettings))
     \/ Drawn(Draw(CalculateEnd(oSettings)))
  /\ UNCHANGED edits

\* With all rows on one page there is only the first page.
PageNumbers(s) == IF s.length > 0 THEN 0 .. 1 ELSE {0}

\* A page number may lead behind the last row; actions do not.
CallPageChange ==
  /\ \E start \in {PageStart(oSettings, "next"), PageStart(oSettings, "last")}
                 \cup {NumberStart(oSettings, page) : page \in PageNumbers(oSettings)},
        redraw \in BOOLEAN :
       LET moved == [GoTo(oSettings, start) EXCEPT
                       !.adrift = @ \/ ~redraw \/ start >= RecordsDisplay(oSettings)]
       IN IF redraw THEN Drawn(Draw(moved)) ELSE oSettings' = moved /\ undrawn' = TRUE
  /\ UNCHANGED edits

Nodes(s) == {i \in DOMAIN s.aoData : s.aoData[i].node # NoNode}

WithoutDetail(body, key) == ItemsAt(body, {i \in DOMAIN body : body[i] # Detail(key)})

\* Mutant: the details opened before are left.
BeforeOpenKept(body, key) == body

\* fnOpen closes the details that are open first.
BeforeOpen(body, key) == WithoutDetail(body, key)

BehindRow(body, key) ==
  IF Row(key) \in ToSet(body)
  THEN InsertAt(body, (CHOOSE i \in DOMAIN body : body[i] = Row(key)) + 1, Detail(key))
  ELSE body

Open ==
  /\ \E i \in Nodes(oSettings) :
       LET key == oSettings.aoData[i].key
       IN /\ Cardinality(oSettings.open \cup {key}) <= MaxOpen
          /\ oSettings' = [oSettings EXCEPT
                             !.open = @ \cup {key},
                             !.body = BehindRow(BeforeOpen(@, key), key)]
  /\ UNCHANGED <<edits, undrawn>>

Close ==
  /\ \E key \in oSettings.open :
       oSettings' = [oSettings EXCEPT !.open = @ \ {key}, !.body = WithoutDetail(@, key)]
  /\ UNCHANGED <<edits, undrawn>>

-----------------------------------------------------------------------------
(***************************************************************************)
(* The server of a table with bServerSide.  It has the source rows.        *)
(***************************************************************************)
AnswerRows(params) ==
  LET found == ItemsAt(SourceTable,
                 {i \in DOMAIN SourceTable : /\ Accepts(params.search, SourceTable[i].text)
                                             /\ Accepts(params.column, SourceTable[i].text)})
      first == NotBelow0(params.start) + 1
      last == IF params.length = -1 \/ params.start + params.length > Len(found)
              THEN Len(found) ELSE params.start + params.length
  IN [total |-> Len(found), rows |-> SubSeq(found, first, last)]

\* Mutant: old answers are taken too.
TakesAny(s, sEcho) == TRUE

Takes(s, sEcho) == sEcho >= s.iDraw

\* The answer to one of the open requests arrives: the rows are replaced, by
\* new ones with new trs that nothing is open for, and drawn, without another
\* request.
Answer ==
  /\ \E request \in oSettings.requests :
       LET waiting == [oSettings EXCEPT !.requests = @ \ {request}]
           answered == AnswerRows(request.params)
           refilled == AddRows(ClearTable([waiting EXCEPT !.iDraw = request.sEcho]),
                               answered.rows)
           shown == [refilled EXCEPT !.recordsDisplay = answered.total,
                                     !.open = {},
                                     !.aiDisplay = refilled.aiDisplayMaster,
                                     !.answer = request]
       IN oSettings' = IF Takes(oSettings, request.sEcho)
                       THEN InsertRows(TakeInitStart(shown)) ELSE waiting
  /\ UNCHANGED <<edits, undrawn>>

\* A request fails; nothing asks again.
RequestFails ==
  /\ \E request \in oSettings.requests :
       oSettings' = [oSettings EXCEPT !.requests = @ \ {request}]
  /\ UNCHANGED <<edits, undrawn>>

Next ==
  \/ Reload \/ AjaxLoad \/ Answer \/ RequestFails
  \/ Type \/ SortClick \/ PageClick \/ PageNumberClick \/ LengthChange
  \/ \E redraw \in BOOLEAN :
       AddData(redraw) \/ ClearRows(redraw) \/ DeleteRow(redraw) \/ Update(redraw)
  \/ CallFilter \/ CallSort \/ CallDraw \/ CallPageChange
  \/ Open \/ Close

Spec == Init /\ [][Next]_vars

-----------------------------------------------------------------------------
ClientSide == ~oSettings.f.bServerSide

Found(s, i) ==
  s.f.bFilter => /\ Accepts(s.sSearch, s.aoData[i].text)
                 /\ Accepts(s.sColumn, s.aoData[i].text)

(* The index arrays stay true to the rows through every splice: the master *)
(* is an ordering of all rows, what is displayed is part of it, and a tr   *)
(* knows the place of its row.                                             *)
IndicesValid ==
  LET s == oSettings
      Ordering(seq) == \A i, j \in DOMAIN seq : seq[i] = seq[j] => i = j
  IN /\ ToSet(s.aiDisplayMaster) = DOMAIN s.aoData /\ Ordering(s.aiDisplayMaster)
     /\ ToSet(s.aiDisplay) \subseteq DOMAIN s.aoData /\ Ordering(s.aiDisplay)
     /\ \A i \in DOMAIN s.aoData : s.aoData[i].node \in {NoNode, i}

(* What is displayed is the master searched from scratch, in the order of  *)
(* the sorting, although _fnFilter may only refine what was there.  Not    *)
(* promised (loose): after a call without redraw, after an update of a row *)
(* the search had hidden, after Ajax rows came to a table that does not    *)
(* sort, and once a hidden row was removed and the search refined.         *)
DisplayIsTheSearch ==
  LET s == oSettings
  IN ClientSide /\ ~s.loose =>
       /\ s.aiDisplay = ItemsAt(s.aiDisplayMaster,
                                 {k \in DOMAIN s.aiDisplayMaster : Found(s, s.aiDisplayMaster[k])})
       /\ s.f.bSort /\ s.aaSorting # "none" /\ ~s.unsorted =>
            \A i, j \in DOMAIN s.aiDisplay :
              i < j => ~Before(s, s.aiDisplay[j], s.aiDisplay[i])

(* No page is blank while rows are displayed, wherever sorting, typing,    *)
(* paging, the menu of lengths and removals lead.  Not promised (adrift):  *)
(* a page number past the last one, rows removed with all rows on one      *)
(* page, a cleared table, calls without redraw; nor from the last page of  *)
(* an empty table, which begins at -1 when the length is 1.                *)
NoBlankPage ==
  /\ ClientSide /\ ~oSettings.adrift /\ ~undrawn
  /\ oSettings.start >= 0 /\ oSettings.aiDisplay # << >>
  => oSettings.body # << >>

(* Every row, and the details of a row, are drawn once, the details        *)
(* directly behind their row, whatever is sorted, searched or removed      *)
(* meanwhile.                                                              *)
DetailsStayWithRows ==
  LET body == oSettings.body
  IN /\ \A i, j \in DOMAIN body : body[i] = body[j] => i = j
     /\ \A i \in DOMAIN body :
          body[i].tr = "detail" => i > 1 /\ body[i - 1] = Row(body[i].key)
     /\ \A key \in oSettings.open : Row(key) \in ToSet(body) => Detail(key) \in ToSet(body)

RowsOf(body) == ItemsAt(body, {i \in DOMAIN body : body[i].tr = "row"})

(* A server that answers late and out of order: once the newest request is *)
(* answered, the rows shown are the ones the server has for what the table *)
(* is set to, and no answer to an older request replaces them.             *)
NewestAnswerShown ==
  LET s == oSettings
      rows == AnswerRows(Params(s)).rows
  IN s.answer # NoAnswer /\ s.answer.sEcho = s.iDraw /\ ~undrawn
       => /\ s.answer.params = Params(s)
          /\ edits = 0 => RowsOf(s.body) = [i \in DOMAIN rows |-> Row(rows[i].key)]

(* A reload shows the rows that were shown, from the cookie of the last    *)
(* draw, if the page has the rows itself and asks no server, they were not *)
(* changed, and a sorting is in force.                                     *)
ReloadShowsTheSame ==
  [][LET s == oSettings
     IN /\ ClientSide /\ s.f.bStateSave /\ s.f.source = "dom" /\ edits = 0
        /\ s.f.bSort /\ s.aaSorting # "none"
        /\ ~s.adrift /\ ~s.loose /\ ~undrawn /\ Reload
        => RowsOf(oSettings'.body) = RowsOf(s.body)]_vars
=============================================================================
