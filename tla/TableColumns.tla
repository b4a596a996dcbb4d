---------------------------- MODULE TableColumns ----------------------------
(***************************************************************************)
(* The columns of a DataTable: what is shown of them in the header and in  *)
(* the rows, and what the table is sorted by, while columns are hidden and *)
(* shown, rows added and edited, and the table destroyed and started again *)
(* on what is then in the page.  A td remembers the column it was made for *)
(* and what it shows; a column's hidden td is kept beside its row.         *)
(*                                                                         *)
(* The order of rows is DataTable's.  Here data are versions of a cell,    *)
(* the rows a draw puts on the page are any of them, and the table is of   *)
(* client-side data.  A footer is drawn as the header is.  aTargets name   *)
(* columns that the header has.                                            *)
(***************************************************************************)
EXTENDS TableHead

CONSTANTS
  TableSettings,  \* how tables are started: the header in the page and oInit
  HasClass(_, _), \* a cell of the header has a class
  SortCalls,      \* what fnSort is called with: a column and a direction
  MaxRows,        \* bound: rows of the table
  MaxSorted,      \* bound: columns that a click with shift sorts by
  MaxVersion      \* bound: the edits until no cell is edited any more

VARIABLES
  oInit,    \* the options of this table
  table,    \* the table and its part of the page
  saved,    \* the state saved: which columns are visible, and the sorting
  shown     \* history: the columns visible when the table was destroyed

columnsVars == <<oInit, table, saved, shown>>

NotSaved == [visible |-> << >>, sorting |-> << >>]
NoTd == [of |-> 0, shows |-> 0, class |-> 0]
NoIndex == 0

-----------------------------------------------------------------------------
\* _fnColumnOptions.  The case that both directions are in asSorting again is
\* written like the first one, so the class stays that of earlier options.
ColumnOptions(col, options) ==
  LET given == options @@ col
      sortable == given.bSortable /\ oInit.bSort
      May(direction) == \E i \in DOMAIN given.asSorting : given.asSorting[i] = direction
      class == CASE ~sortable \/ (~May("asc") /\ ~May("desc")) -> "sorting_disabled"
                 [] sortable /\ May("asc") /\ ~May("desc") -> "sorting_asc_disabled"
                 [] sortable /\ ~May("asc") /\ May("desc") -> "sorting_desc_disabled"
                 [] OTHER -> col.sSortingClass
  IN [given EXCEPT !.bSortable = sortable, !.sSortingClass = class]

\* _fnAddColumn
AddColumn(nTh) ==
  ColumnOptions([nTh |-> nTh, bVisible |-> TRUE, bSortable |-> TRUE,
                 asSorting |-> <<"asc", "desc">>, sSortingClass |-> "sorting"], << >>)

Targeted(columns, target) ==
  CASE target.by = "index" /\ target.value >= 0 -> {target.value + 1}
    [] target.by = "index" /\ target.value < 0 -> {Len(columns) + 1 + target.value}
    [] target.by = "all" -> DOMAIN columns
    [] target.by = "class" -> {c \in DOMAIN columns : HasClass(columns[c].nTh, target.value)}

ApplyDef(columns, def) ==
  LET targets == UNION {Targeted(columns, def.aTargets[t]) : t \in DOMAIN def.aTargets}
  IN [c \in DOMAIN columns |->
        IF c \in targets THEN ColumnOptions(columns[c], def.options) ELSE columns[c]]

\* Mutant: the last definition of a column has priority.
ApplyColumnDefsForward(columns, aoColumns) ==
  LET defined == FoldLeft(ApplyDef, columns, oInit.aoColumnDefs)
  IN [c \in DOMAIN columns |-> ColumnOptions(defined[c], aoColumns[c])]

\* _fnApplyColumnDefs: from the last definition to the first, then aoColumns.
ApplyColumnDefs(columns, aoColumns) ==
  LET defined ==
        FoldRight(LAMBDA def, cols : ApplyDef(cols, def), oInit.aoColumnDefs, columns)
  IN [c \in DOMAIN columns |-> ColumnOptions(defined[c], aoColumns[c])]

\* The sorting to begin with: a column there is, and its place in asSorting.
\* oInit has the default aaSorting or another one, so that the direction is
\* never looked up for want of one.
InitialSorting(columns, sorting) ==
  [i \in DOMAIN sorting |->
     LET column == IF sorting[i].column > Len(columns) THEN 1 ELSE sorting[i].column
         same == {k \in DOMAIN columns[column].asSorting :
                    columns[column].asSorting[k] = sorting[i].direction}
     IN [column |-> column, direction |-> sorting[i].direction,
         at |-> IF same # {} THEN Min(same) ELSE IF sorting[i].at = NoIndex THEN 1 ELSE sorting[i].at]]

-----------------------------------------------------------------------------
Visible(t) == {c \in DOMAIN t.columns : t.columns[c].bVisible}

\* _fnColumnIndexToVisible: how many visible columns come up to this one.
ColumnIndexToVisible(t, c) == Cardinality({d \in Visible(t) : d <= c})

\* _fnGetTdNodes, for one row: a td for each column.
GetTdNodes(t, row) ==
  [c \in DOMAIN t.columns |->
     IF c \in Visible(t) THEN row.tds[ColumnIndexToVisible(t, c)] ELSE row.hidden[c]]

\* Mutant: only the td elements on the page get their class.
ClassTdsShown(t, row, class) ==
  LET columns == SetToSortSeq(Visible(t), <)
  IN [row EXCEPT !.tds = [k \in DOMAIN @ |-> [@[k] EXCEPT !.class = class[columns[k]]]]]

\* The td elements of a row, hidden or not, get the class of their column.
ClassTds(t, row, class) ==
  LET columns == SetToSortSeq(Visible(t), <)
      Hidden(c) == [row.hidden[c] EXCEPT !.class = class[c]]
  IN [row EXCEPT
        !.tds = [k \in DOMAIN @ |-> [@[k] EXCEPT !.class = class[columns[k]]]],
        !.hidden = [c \in DOMAIN @ |-> IF c \in Visible(t) THEN NoTd ELSE Hidden(c)]]

EntriesOf(t, c) == {i \in DOMAIN t.sorting : t.sorting[i].column = c}

DirectionClass(t, c) ==
  IF EntriesOf(t, c) = {} THEN t.columns[c].sSortingClass
  ELSE IF t.sorting[Min(EntriesOf(t, c))].direction = "asc" THEN "sorting_asc" ELSE "sorting_desc"

ThClasses(t, c) ==
  LET col == t.columns[c]
  IN IF col.bSortable
     THEN (t.classes[c] \ {"sorting_asc", "sorting_desc", col.sSortingClass}) \cup {DirectionClass(t, c)}
     ELSE t.classes[c] \cup {col.sSortingClass}

\* sorting_1, sorting_2, and sorting_3 from there on.
PositionClass(t, c) ==
  IF EntriesOf(t, c) = {} THEN 0 ELSE Min({3, Max(EntriesOf(t, c))})

\* _fnSortingClasses
SortingClasses(t) ==
  LET class == [c \in DOMAIN t.columns |-> PositionClass(t, c)]
      Row(row) == IF row.created THEN [ClassTds(t, row, class) EXCEPT !.classed = TRUE] ELSE row
  IN [t EXCEPT !.classes = [c \in DOMAIN @ |-> ThClasses(t, c)],
               !.rows = IF oInit.bSort /\ oInit.bSortClasses
                        THEN [r \in DOMAIN @ |-> Row(@[r])] ELSE @]

VisibleColumns(t) == [c \in DOMAIN t.columns |-> t.columns[c].bVisible]

\* Mutant: a table being destroyed saves its state too.
SaveStateAlways(t, last) ==
  IF oInit.bStateSave
  THEN [visible |-> VisibleColumns(t), sorting |-> t.sorting] ELSE last

\* _fnSaveState: nothing is saved while the table is destroyed.
SaveState(t, last) ==
  IF oInit.bStateSave /\ ~t.destroying
  THEN [visible |-> VisibleColumns(t), sorting |-> t.sorting] ELSE last

\* _fnCreateTr
CreateTr(t, row) ==
  LET td == [c \in DOMAIN t.columns |-> [of |-> c, shows |-> row.data[c], class |-> 0]]
      columns == SetToSortSeq(Visible(t), <)
  IN [row EXCEPT !.created = TRUE,
                 !.tds = [k \in DOMAIN columns |-> td[columns[k]]],
                 !.hidden = [c \in DOMAIN td |-> IF c \in Visible(t) THEN NoTd ELSE td[c]]]

CreateTrs(t, page) ==
  [t EXCEPT !.rows = [r \in DOMAIN @ |->
     IF r \in page /\ ~@[r].created THEN CreateTr(t, @[r]) ELSE @[r]]]

\* _fnDraw for the rows of the page, and with bDeferRender its draw callback.
Drawn(t, page) ==
  LET created == CreateTrs(t, page)
  IN IF oInit.bDeferRender THEN SortingClasses(created) ELSE created

\* The part of _fnSort that marks what is sorted by.
Aria(t) ==
  [t EXCEPT !.aria = [c \in DOMAIN @ |->
     IF t.columns[c].bSortable /\ t.sorting # << >> /\ t.sorting[1].column = c
     THEN t.sorting[1].direction ELSE "none"]]

Sorted(t, page) ==
  Drawn(Aria(IF oInit.bDeferRender THEN t ELSE SortingClasses(t)), page)

ReDraw(t, page) == IF oInit.bSort THEN Sorted(t, page) ELSE Drawn(t, page)

-----------------------------------------------------------------------------
\* _fnBuildHead: a click on a column's th sorts by it.
BuildHead(t) ==
  [t EXCEPT
     !.handlers = [c \in DOMAIN @ |-> IF t.columns[c].bSortable THEN @[c] + 1 ELSE @[c]],
     !.classes = [c \in DOMAIN @ |->
       IF oInit.bSort /\ ~t.columns[c].bSortable THEN @[c] \cup {"sorting_disabled"} ELSE @[c]]]

\* _fnGatherData for a row in the page: its data are what its td elements show.
GatherRow(t, tds) ==
  LET columns == SetToSortSeq(Visible(t), <)
  IN [data |-> [c \in DOMAIN t.columns |-> tds[c].shows], created |-> TRUE, classed |-> FALSE,
      tds |-> [k \in DOMAIN columns |-> tds[columns[k]]],
      hidden |-> [c \in DOMAIN t.columns |-> IF c \in Visible(t) THEN NoTd ELSE tds[c]]]

\* The constructor and _fnInitialise, for a header and rows in the page.
Constructed(page, last) ==
  LET layout == DetectHeader(page.trs)
      ths == GetUniqueThs(layout, oInit.bSortCellsTop)
      restored == Len(last.visible) = Len(ths)
      aoColumns == [c \in DOMAIN ths |->
        (IF restored THEN [bVisible |-> last.visible[c]] ELSE << >>) @@ oInit.aoColumns[c]]
      columns == ApplyColumnDefs([c \in DOMAIN ths |-> AddColumn(ths[c])], aoColumns)
      aaSorting == IF last = NotSaved THEN oInit.aaSorting ELSE last.sorting
      begun == SortingClasses(
        [columns |-> columns, layout |-> layout, trs |-> page.trs, rows |-> << >>,
         sorting |-> InitialSorting(columns, aaSorting), classes |-> page.classes,
         aria |-> page.aria, handlers |-> page.handlers, standing |-> TRUE, destroying |-> FALSE])
      built == [BuildHead(begun) EXCEPT
                  !.rows = [r \in DOMAIN page.rows |-> GatherRow(begun, page.rows[r].tds)],
                  !.trs = DrawHead(layout, Visible(begun))]
  IN ReDraw(built, {})

\* The table as the server sends it, which is also what is left of one that
\* is destroyed: nothing hidden, nothing sorted, no handlers.
SourcePage ==
  LET layout == DetectHeader(oInit.header)
      ths == GetUniqueThs(layout, oInit.bSortCellsTop)
      Nothing(none) == [c \in DOMAIN ths |-> none]
  IN [columns |-> [c \in DOMAIN ths |-> AddColumn(ths[c])], layout |-> layout, trs |-> oInit.header,
      rows |-> <<[data |-> Nothing(0), created |-> TRUE, classed |-> FALSE, hidden |-> Nothing(NoTd),
                  tds |-> [c \in DOMAIN ths |-> [of |-> c, shows |-> 0, class |-> 0]]]>>,
      sorting |-> << >>, classes |-> Nothing({}), aria |-> Nothing("none"),
      handlers |-> Nothing(0), standing |-> FALSE, destroying |-> FALSE]

ColumnsInit ==
  /\ oInit \in TableSettings
  /\ table = SourcePage
  /\ saved = NotSaved
  /\ shown = << >>

-----------------------------------------------------------------------------
\* The hidden td goes before that of the next visible column.
ShowTd(t, row, c) ==
  LET before == {d \in Visible(t) : d > c}
      insert == Cardinality({d \in Visible(t) : d < c})
  IN IF insert >= Cardinality(Visible(t))
     THEN [row EXCEPT !.tds = Append(@, row.hidden[c])]
     ELSE [row EXCEPT !.tds = InsertAt(@, ColumnIndexToVisible(t, Min(before)), row.hidden[c])]

HideTd(t, row, c) ==
  [row EXCEPT !.tds = RemoveAt(@, ColumnIndexToVisible(t, c)),
              !.hidden[c] = GetTdNodes(t, row)[c]]

\* fnSetColumnVis, for a column that changes.
SetColumnVis(t, c, show) ==
  LET Row(row) == CASE ~row.created -> row
                    [] row.created /\ show -> ShowTd(t, row, c)
                    [] row.created /\ ~show -> HideTd(t, row, c)
      changed == [t EXCEPT !.rows = [r \in DOMAIN @ |-> Row(@[r])], !.columns[c].bVisible = show]
  IN [changed EXCEPT !.trs = DrawHead(t.layout, Visible(changed))]

\* The rows that a draw may create: those of the page it draws that are not.
Pages == SUBSET {r \in DOMAIN table.rows : oInit.bDeferRender /\ ~table.rows[r].created}

Becomes(t) ==
  /\ table' = t
  /\ saved' = SaveState(t, saved)
  /\ UNCHANGED <<oInit, shown>>

ShowOrHide ==
  /\ table.standing
  /\ \E c \in DOMAIN table.columns, page \in Pages, redraw \in BOOLEAN :
       LET changed == SetColumnVis(table, c, c \notin Visible(table))
       IN Becomes(IF redraw THEN Drawn(changed, page) ELSE changed)

\* The next place in asSorting; NoIndex after the last one, and for an entry
\* that fnSort was given without a place.
NextAt(t, c, at) ==
  IF at # NoIndex /\ at < Len(t.columns[c].asSorting) THEN at + 1 ELSE NoIndex

Entry(t, c, at) ==
  [column |-> c, direction |-> t.columns[c].asSorting[at], at |-> at]

\* A click sorts by this column only, in its next direction.
SortedByClick(t, c) ==
  IF Len(t.sorting) = 1 /\ t.sorting[1].column = c
  THEN <<Entry(t, c, Max({1, NextAt(t, c, t.sorting[1].at)}))>>
  ELSE <<Entry(t, c, 1)>>

\* With shift it is one of the columns to sort by, until its directions end.
SortedByShift(t, c) ==
  LET i == Min(EntriesOf(t, c))
      next == NextAt(t, c, t.sorting[i].at)
  IN CASE EntriesOf(t, c) = {} -> Append(t.sorting, Entry(t, c, 1))
       [] EntriesOf(t, c) # {} /\ next = NoIndex -> RemoveAt(t.sorting, i)
       [] OTHER -> [t.sorting EXCEPT ![i] = Entry(t, c, next)]

ClickTh ==
  \E c \in Visible(table), page \in Pages, shift \in BOOLEAN :
    /\ table.handlers[c] > 0 /\ table.columns[c].bSortable
    /\ shift => Len(table.sorting) < MaxSorted \/ EntriesOf(table, c) # {}
    /\ LET sorting == IF shift THEN SortedByShift(table, c) ELSE SortedByClick(table, c)
       IN Becomes(Sorted([table EXCEPT !.sorting = sorting], page))

\* fnSort, by a column whether it is sortable or not.
SortByCall ==
  /\ table.standing
  /\ \E call \in SortCalls, page \in Pages :
       LET sorting == <<[column |-> call[1], direction |-> call[2], at |-> NoIndex]>>
       IN Becomes(Sorted([table EXCEPT !.sorting = sorting], page))

DrawByCall ==
  /\ table.standing
  /\ \E page \in Pages : Becomes(ReDraw(table, page))

\* fnAddData
AddTableRow ==
  /\ table.standing /\ Len(table.rows) < MaxRows
  /\ \E page \in Pages, redraw \in BOOLEAN :
       LET row == [data |-> [c \in DOMAIN table.columns |-> 0], created |-> FALSE, classed |-> FALSE,
                   tds |-> << >>, hidden |-> << >>]
           added == [table EXCEPT !.rows =
             Append(@, IF oInit.bDeferRender THEN row ELSE CreateTr(table, row))]
       IN Becomes(IF redraw THEN ReDraw(added, page) ELSE added)

\* The td of a column now shows this.
WriteTd(t, row, c, value) ==
  IF c \in Visible(t) THEN [row EXCEPT !.tds[ColumnIndexToVisible(t, c)].shows = value]
  ELSE [row EXCEPT !.hidden[c].shows = value]

\* fnUpdate, for a cell.
UpdateCell ==
  /\ table.standing
  /\ \E r \in DOMAIN table.rows, c \in DOMAIN table.columns, page \in Pages, redraw \in BOOLEAN :
       LET row == table.rows[r]
           value == row.data[c] + 1
           set == [row EXCEPT !.data[c] = value]
           updated == [table EXCEPT !.rows[r] =
             IF row.created THEN WriteTd(table, set, c, value) ELSE set]
       IN /\ \A other \in DOMAIN table.rows :
               \A d \in DOMAIN table.columns : table.rows[other].data[d] < MaxVersion
          /\ Becomes(IF redraw THEN ReDraw(updated, page) ELSE updated)

\* Mutant: hidden columns stay hidden.
AllShownNot(t, page) == t

\* fnDestroy shows what is hidden; each fnSetColumnVis draws.
AllShown(t, page) ==
  FoldLeftDomain(LAMBDA u, c : IF c \in Visible(u) THEN u ELSE Drawn(SetColumnVis(u, c, TRUE), page),
                 t, t.columns)

InHead(t, c) == \E r \in DOMAIN t.trs : \E k \in DOMAIN t.trs[r] : t.trs[r][k].cell = t.columns[c].nTh

\* The rest of fnDestroy: handlers off, no sorting, no classes; the rows that
\* there are as elements go back.
Restored(t) ==
  LET unbound == [t EXCEPT !.handlers = [c \in DOMAIN @ |-> IF InHead(t, c) THEN 0 ELSE @[c]]]
      unsorted == SortingClasses([unbound EXCEPT !.sorting = << >>])
      removed == {"sorting", "sorting_asc_disabled", "sorting_desc_disabled", "sorting_disabled"}
  IN [unsorted EXCEPT
        !.classes = [c \in DOMAIN @ |-> IF InHead(t, c) THEN @[c] \ removed ELSE @[c]],
        !.rows = SelectSeq(@, LAMBDA row : row.created),
        !.standing = FALSE]

DestroyTable ==
  /\ table.standing
  /\ \E page \in Pages :
       LET all == AllShown([table EXCEPT !.destroying = TRUE], page)
       IN /\ table' = Restored(all)
          /\ saved' = SaveState(all, saved)
  /\ shown' = VisibleColumns(table)
  /\ UNCHANGED oInit

Starts(page) ==
  /\ table' = Constructed(page, saved)
  /\ saved' = SaveState(table', saved)
  /\ shown' = << >>
  /\ UNCHANGED oInit

\* The table is started, on the page or on what fnDestroy left of it.
StartTable ==
  /\ ~table.standing
  /\ Starts(table)

ReloadTable == Starts(SourcePage)

ColumnsNext ==
  \/ ShowOrHide \/ ClickTh \/ SortByCall \/ DrawByCall
  \/ AddTableRow \/ UpdateCell
  \/ DestroyTable \/ StartTable \/ ReloadTable

-----------------------------------------------------------------------------
CellsOf(layout) ==
  [r \in DOMAIN layout |-> [k \in 1 .. Cardinality(DOMAIN layout[r].cells) |-> layout[r].cells[k].cell]]

MadeCells(row) == {c \in DOMAIN row.data : row.created}

\* fnGetPosition: which visible column, and which column, a td is found in.
GetPosition(t, row, td) ==
  LET at == {c \in DOMAIN t.columns : GetTdNodes(t, row)[c] = td}
  IN IF at = {} THEN << >> ELSE <<ColumnIndexToVisible(t, Min(at)), Min(at)>>

\* What the definitions say of a column: its own entry, the restored
\* visibility aside, comes before all of them, and the first of them that
\* targets it before the others.
DefinedSorting(c) ==
  LET defs == {i \in DOMAIN oInit.aoColumnDefs :
                 /\ "asSorting" \in DOMAIN oInit.aoColumnDefs[i].options
                 /\ c \in UNION {Targeted(table.columns, oInit.aoColumnDefs[i].aTargets[t]) :
                                    t \in DOMAIN oInit.aoColumnDefs[i].aTargets}}
  IN CASE "asSorting" \in DOMAIN oInit.aoColumns[c] -> oInit.aoColumns[c].asSorting
       [] "asSorting" \notin DOMAIN oInit.aoColumns[c] /\ defs # {} ->
            oInit.aoColumnDefs[Min(defs)].options.asSorting
       [] OTHER -> <<"asc", "desc">>

(* Header, rows and columns stay in step whatever is hidden, shown, added, *)
(* edited and started again: the header lays out the visible columns under *)
(* the cells that span them, every row shows the datum of every visible    *)
(* column in this order and keeps the others, and a td is found in its     *)
(* column.  Once destroyed, the table has its columns again, and the state *)
(* saved is still the one with those that were hidden.                     *)
ColumnsAligned ==
  /\ CellsOf(DetectHeader(table.trs)) = ShownGrid(table.layout, Visible(table))
  /\ \A r \in DOMAIN table.rows : \A c \in MadeCells(table.rows[r]) :
       LET row == table.rows[r]
           td == GetTdNodes(table, row)[c]
       IN /\ Len(row.tds) = Cardinality(Visible(table))
          /\ td.of = c /\ td.shows = row.data[c]
          /\ GetPosition(table, row, td) = <<ColumnIndexToVisible(table, c), c>>
  /\ ~table.standing =>
       /\ Visible(table) = DOMAIN table.columns
       /\ oInit.bStateSave => saved.visible = shown

(* The page tells what the table is sorted by: a sortable column's th has  *)
(* the class of its direction, or the one of its directions, as the        *)
(* definitions have them; a td, hidden or not, that of its place among the *)
(* columns sorted by; and a click on a th is one click.  Nothing of it is  *)
(* left when the table is destroyed, so that it can be started again.      *)
(* Not promised for the td elements of a row that was added and not drawn. *)
SortingShown ==
  /\ \A c \in DOMAIN table.columns :
       LET col == table.columns[c]
           entries == EntriesOf(table, c)
       IN /\ table.standing =>
               /\ Cardinality(entries) <= 1
               /\ col.asSorting = DefinedSorting(c)
               /\ table.handlers[c] = IF col.bSortable THEN 1 ELSE 0
               /\ table.classes[c] = {IF ~col.bSortable \/ entries = {} THEN col.sSortingClass
                                      ELSE "sorting_" \o table.sorting[Min(entries)].direction}
               /\ table.aria[c] # "none" =>
                    entries = {1} /\ table.aria[c] = table.sorting[1].direction
          /\ ~table.standing => table.classes[c] = {} /\ table.handlers[c] = 0
  /\ \A r \in DOMAIN table.rows : \A c \in MadeCells(table.rows[r]) :
       LET td == GetTdNodes(table, table.rows[r])[c]
           place == CHOOSE k \in 0 .. Len(table.sorting) :
                      IF EntriesOf(table, c) = {} THEN k = 0 ELSE k \in EntriesOf(table, c)
       IN CASE ~table.standing \/ ~oInit.bSort \/ ~oInit.bSortClasses -> td.class = 0
            [] table.standing /\ oInit.bSort /\ oInit.bSortClasses /\ table.rows[r].classed ->
                 td.class = IF place > 3 THEN 3 ELSE place
            [] OTHER -> td.class = 0
=============================================================================
