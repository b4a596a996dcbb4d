----------------------------- MODULE TableHead -----------------------------
(***************************************************************************)
(* The header of a DataTable: rows of cells that may span rows and         *)
(* columns, the grid they lay out, and the header drawn from this grid     *)
(* without the hidden columns.                                             *)
(*                                                                         *)
(* A header is a sequence of rows, a row a sequence of cells               *)
(*   [cell |-> its node, rowspan |-> .., colspan |-> ..],                  *)
(* and a layout has, for each row, the cell that covers each column and    *)
(* the tr the row is drawn into.  Every row has a cell of its own: a row   *)
(* that is only covered by cells above keeps the tr of another row, which  *)
(* is then emptied when it is drawn.                                       *)
(***************************************************************************)
EXTENDS Integers, Sequences, SequencesExt, FiniteSets, FiniteSetsExt, TLC

NoTr == 0

\* A cell goes to the first column of its row that nothing covers yet.
PlaceCell(layout, row, node) ==
  LET covered == DOMAIN layout[row].cells
      at == Min((1 .. Cardinality(covered) + 1) \ covered)
      placed == [cell |-> node.cell, unique |-> node.colspan = 1]
      cells == [column \in at .. at + node.colspan - 1 |-> placed]
  IN [r \in DOMAIN layout |->
        IF r \in row .. row + node.rowspan - 1
        THEN [tr |-> row, cells |-> cells @@ layout[r].cells] ELSE layout[r]]

\* _fnDetectHeader
DetectHeader(trs) ==
  LET empty == [row \in DOMAIN trs |-> [tr |-> NoTr, cells |-> << >>]]
      Row(layout, row) ==
        FoldLeft(LAMBDA laid, node : PlaceCell(laid, row, node), layout, trs[row])
  IN FoldLeftDomain(Row, empty, trs)

\* _fnGetUniqueThs: for each column the last cell, or with bSortCellsTop the
\* first, that spans no other column.
GetUniqueThs(layout, sortCellsTop) ==
  [column \in DOMAIN layout[1].cells |->
     LET rows == {r \in DOMAIN layout : layout[r].cells[column].unique}
     IN layout[IF sortCellsTop THEN Min(rows) ELSE Max(rows)].cells[column].cell]

-----------------------------------------------------------------------------
\* The grid that is left of the columns to be shown.
ShownGrid(layout, visible) ==
  LET columns == SetToSortSeq(visible, <)
  IN [r \in DOMAIN layout |->
        [k \in DOMAIN columns |-> layout[r].cells[columns[k]].cell]]

\* How far the cell at a place reaches down and to the right.
RowSpan(grid, i, j) ==
  Max({n \in 1 .. Len(grid) - i + 1 : \A r \in i .. i + n - 1 : grid[r][j] = grid[i][j]})

ColSpan(grid, i, j) ==
  Max({n \in 1 .. Len(grid[i]) - j + 1 : \A c \in j .. j + n - 1 : grid[i][c] = grid[i][j]})

\* A cell is put where no cell put before covers the grid.
DrawCell(grid, tr, i, drawn, j) ==
  LET rows == RowSpan(grid, i, j)
      columns == ColSpan(grid, i, j)
  IN IF <<i, j>> \in drawn.applied THEN drawn
     ELSE [applied |-> drawn.applied \cup ((i .. i + rows - 1) \X (j .. j + columns - 1)),
           trs |-> [drawn.trs EXCEPT ![tr] =
                      Append(@, [cell |-> grid[i][j], rowspan |-> rows, colspan |-> columns])]]

\* _fnDrawHead: each row is emptied before it is drawn.
DrawHead(layout, visible) ==
  LET grid == ShownGrid(layout, visible)
      Row(drawn, i) ==
        LET tr == layout[i].tr
            emptied == IF tr = NoTr THEN drawn ELSE [drawn EXCEPT !.trs[tr] = << >>]
        IN FoldLeftDomain(LAMBDA d, j : DrawCell(grid, tr, i, d, j), emptied, grid[i])
  IN FoldLeftDomain(Row, [applied |-> {}, trs |-> [r \in DOMAIN layout |-> << >>]], grid).trs
=============================================================================
