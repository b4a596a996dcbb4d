---------------------------- MODULE PageScripts -----------------------------
(***************************************************************************)
(* A page with one part of its scripts at work: the widgets of             *)
(* bootstrap.js, or the columns, the cells or the cookies of               *)
(* jquery.dataTables.js.  They share no state: the rows that columns,      *)
(* cells and cookies tell of are those of different tables.                *)
(***************************************************************************)
EXTENDS Widgets, TableColumns, TableCells, TableCookies

VARIABLE part

scriptVars == <<part, widgetVars, columnsVars, cellsVars, cookiesVars>>

\* The parts that are not at work are in one of their initial states.
ScriptsInit ==
  /\ part \in {"widgets", "columns", "cells", "cookies"}
  /\ widget \in IF part = "widgets" THEN WidgetNames ELSE {"none"}
  /\ oInit \in IF part = "columns" THEN TableSettings ELSE {CHOOSE o \in TableSettings : TRUE}
  /\ aoColumns \in IF part = "cells" THEN CellTables ELSE {CHOOSE columns \in CellTables : TRUE}
  /\ jar \in IF part = "cookies" THEN SUBSET Foreign ELSE {{}}
  /\ WidgetsInit /\ ColumnsInit /\ CellsInit /\ CookiesInit

ScriptsNext ==
  /\ \/ /\ part = "widgets" /\ WidgetsNext
        /\ UNCHANGED <<columnsVars, cellsVars, cookiesVars>>
     \/ /\ part = "columns" /\ ColumnsNext
        /\ UNCHANGED <<widgetVars, cellsVars, cookiesVars>>
     \/ /\ part = "cells" /\ CellsNext
        /\ UNCHANGED <<widgetVars, columnsVars, cookiesVars>>
     \/ /\ part = "cookies" /\ CookiesNext
        /\ UNCHANGED <<widgetVars, columnsVars, cellsVars>>
  /\ UNCHANGED part

ScriptsSpec == ScriptsInit /\ [][ScriptsNext]_scriptVars
=============================================================================
