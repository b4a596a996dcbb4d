----------------------------- MODULE TableCells -----------------------------
(***************************************************************************)
(* The cells of a DataTable: rows are objects as the data source has them, *)
(* a column says by mData where in the row its cell is and by mRender what *)
(* of it is used, and its type, told from the cells as rows are added,     *)
(* says how the rows are sorted by it.                                     *)
(*                                                                         *)
(* A path "a[, ].b" is <<[name |-> "a", each |-> TRUE, join |-> TRUE],     *)
(* [name |-> "b", each |-> FALSE, join |-> FALSE]>>.  A datum is           *)
(*   [is |-> "undefined"], [is |-> "null"],                                *)
(*   [is |-> "object", of |-> a function],                                *)
(*   [is |-> "array", items |-> .., of |-> its other properties],          *)
(*   [is |-> "number" or "string", ..] with what the sort functions make   *)
(*   of it: text and stripped, the places in the order of lower case texts *)
(*   with and without their tags, and number, time, numeric, tags, blank.  *)
(*                                                                         *)
(* The functions that mData, mRender, fnRender and sSortDataType may be    *)
(* are left out, and so is what a call that throws leaves of the page: a   *)
(* row's tr is made as the row is added (bDeferRender is off).             *)
(***************************************************************************)
EXTENDS Integers, Sequences, SequencesExt, FiniteSets, FiniteSetsExt, Functions, TLC

CONSTANTS
  CellTables,   \* the columns a table may have
  NewRows(_),   \* the objects a table with these columns may be given
  NewData(_),   \* what a cell of a column may be set to
  Sortings,     \* what a table may be sorted by
  Joined(_),    \* the string that data joined become
  MaxCellRows,  \* bound: rows of the table
  MaxUpdates    \* bound: updates of cells and rows

VARIABLES
  aoColumns,  \* the columns, their types included
  aoData,     \* the rows, from the first one added, and where their tr is torn
  order,      \* aiDisplayMaster: the order of the rows
  aaSorting,  \* what the table is sorted by
  updates,    \* history: how many updates there were
  given,      \* history: what each cell was given last, and what became of it
  detected,   \* history: the cells the types were told from
  formerly    \* history: the order before the last sort; << >> when rows changed since

cellsVars == <<aoColumns, aoData, order, aaSorting, updates, given, detected, formerly>>

Undefined == [is |-> "undefined"]
Null == [is |-> "null"]
EmptyObject == [is |-> "object", of |-> << >>]
ArrayOf(items) == [is |-> "array", items |-> items, of |-> << >>]
NaN == 1000

\* What reading a property of undefined or null comes to.
Thrown == [is |-> "thrown"]

-----------------------------------------------------------------------------
\* data[name]
Property(data, name) ==
  CASE data \in {Undefined, Null} -> Thrown
    [] data.is \in {"object", "array"} /\ name \in DOMAIN data.of -> data.of[name]
    [] OTHER -> Undefined

\* What a loop up to data.length takes; a text, taken letter by letter, is
\* left out.
EachOf(data) == IF data.is = "array" THEN data.items ELSE << >>

\* fetchData of _fnGetObjectDataFn: null on the way is looked at, and gives
\* undefined, except before brackets.
RECURSIVE FetchData(_, _)
FetchData(data, path) ==
  LET step == Head(path)
      next == IF step.name = "" THEN data ELSE Property(data, step.name)
      out == [j \in DOMAIN EachOf(next) |-> FetchData(EachOf(next)[j], Tail(path))]
  IN IF path = << >> \/ data = Thrown THEN data
     ELSE IF step.each
          THEN IF next \in {Thrown, Undefined, Null} \/ Thrown \in Range(out) THEN Thrown
               ELSE IF step.join THEN Joined(out) ELSE ArrayOf(out)
          ELSE IF data = Null \/ next = Undefined THEN Undefined
               ELSE FetchData(next, Tail(path))

\* _fnGetObjectDataFn: a name without dots and brackets is only looked up.
Fetch(data, path) ==
  IF Len(path) = 1 /\ ~path[1].each THEN Property(data, path[1].name) ELSE FetchData(data, path)


\* What is between the row and the cell is made when it is missing.
Child(data, name) ==
  IF Property(data, name) \in {Undefined, Null} THEN EmptyObject ELSE Property(data, name)

\* data[name] = val: the script is strict, and a number or a string takes no
\* property.
With(data, name, val) ==
  IF data.is \in {"object", "array"}
  THEN [data |-> [data EXCEPT !.of = (name :> val) @@ @], threw |-> FALSE]
  ELSE [data |-> data, threw |-> TRUE]

\* _fnSetObjectDataFn: brackets make the array anew, of objects that have
\* nothing else, up to the one that throws.
RECURSIVE Store(_, _, _)
Store(data, path, val) ==
  LET step == Head(path)
      stored == [j \in DOMAIN EachOf(val) |-> Store(EmptyObject, Tail(path), EachOf(val)[j])]
      failing == {j \in DOMAIN stored : stored[j].threw}
      pushed == IF failing = {} THEN Len(stored) ELSE Min(failing) - 1
      inner ==
        IF step.each
        THEN [data |-> ArrayOf([j \in 1 .. pushed |-> stored[j].data]),
              threw |-> val \in {Undefined, Null} \/ failing # {}]
        ELSE Store(Child(data, step.name), Tail(path), val)
      outer == With(data, step.name, inner.data)
  IN IF Len(path) = 1 THEN With(data, step.name, val)
     ELSE [outer EXCEPT !.threw = @ \/ inner.threw]

\* mData null gives null and takes nothing.
SetData(col, data, val) ==
  IF col.mData = << >> THEN [data |-> data, threw |-> FALSE] ELSE Store(data, col.mData, val)

\* fnGetData: mRender is for a use of the datum, not for the raw datum.
Rendered(col, inner, use) ==
  IF col.mRender = << >> \/ use = "raw" \/ inner = Thrown THEN inner ELSE Fetch(inner, col.mRender)

GetData(col, data, use) ==
  Rendered(col, IF col.mData = << >> THEN Null ELSE Fetch(data, col.mData), use)

\* _fnGetCellData
OrDefault(col, sData) ==
  IF sData = Undefined \/ (sData = Null /\ col.sDefaultContent # Null)
  THEN col.sDefaultContent ELSE sData

GetCellData(col, data, use) == OrDefault(col, GetData(col, data, use))

-----------------------------------------------------------------------------
\* aTypes: what each of them makes of a number or a string.  Arrays and
\* objects, whose text might be a date, are left out.
ATypes(v) ==
  LET text == v.is = "string"
  IN << [type |-> "numeric", holds |-> v.is = "number" \/ (text /\ v.numeric)],
        [type |-> "date", holds |-> text /\ (v.time # NaN \/ v.blank)],
        [type |-> "html", holds |-> text /\ v.tags] >>

\* _fnDetectType: the first of them.
DetectType(v) ==
  LET holding == SelectSeq(ATypes(v), LAMBDA told : told.holds)
  IN IF holding = << >> THEN "string" ELSE holding[1].type

\* Mutant: a column keeps the first type that was told.
FitTypeFirst(sType, told) == IF sType = "" THEN told ELSE sType

\* String is what is left when types differ; html stays html.
FitType(sType, told) ==
  CASE sType = "" -> told
    [] sType \in {told, "html"} -> sType
    [] OTHER -> "string"

TypeWith(col, v) ==
  IF \/ ~col.autoType \/ col.sType = "string"
     \/ v \in {Null, Thrown} \/ (v.is = "string" /\ v.blank)
  THEN col.sType ELSE FitType(col.sType, DetectType(v))

\* The "-pre" functions of the types.  html-pre takes strings only.
Pre(sType, v) ==
  CASE sType = "numeric" -> IF v = Null THEN 0 ELSE v.number
    [] sType = "date" -> IF v = Null \/ v.time = NaN THEN 0 ELSE v.time
    [] sType = "html" -> v.stripped
    [] OTHER -> IF v = Null THEN 0 ELSE v.text

SortType(t, c) == IF t.columns[c].sType = "" THEN "string" ELSE t.columns[c].sType

SortDatum(t, row, c) == GetCellData(t.columns[c], t.data[row].aData, "sort")

SortKey(t, row, c) == Pre(SortType(t, c), SortDatum(t, row, c))

\* The columns compared: those of aDataSort, for each entry.
Compared(t) ==
  FlattenSeq([i \in DOMAIN t.sorting |->
    LET columns == t.columns[t.sorting[i].column].aDataSort
    IN [k \in DOMAIN columns |-> [column |-> columns[k], direction |-> t.sorting[i].direction]]])

\* Every row has to have a key, the rows that are not in the order too.
Throws(t) ==
  \E i \in DOMAIN Compared(t) : \E row \in DOMAIN t.data :
    LET c == Compared(t)[i].column
        v == SortDatum(t, row, c)
    IN v = Thrown \/ (SortType(t, c) = "html" /\ v.is # "string")

NoNumber(t) ==
  \E i \in DOMAIN Compared(t) : \E row \in ToSet(t.order) :
    SortKey(t, row, Compared(t)[i].column) = NaN

\* The comparison of _fnSort, for rows that have keys.
Before(t, a, b) ==
  LET Key(row, i) == SortKey(t, row, Compared(t)[i].column)
      differ == {i \in DOMAIN Compared(t) : Key(a, i) # Key(b, i)}
      Place(row) == CHOOSE p \in DOMAIN t.order : t.order[p] = row
  IN IF differ = {} THEN Place(a) < Place(b)
     ELSE LET i == Min(differ)
          IN IF Compared(t)[i].direction = "asc" THEN Key(a, i) < Key(b, i) ELSE Key(a, i) > Key(b, i)

\* The orders _fnSort may leave.  A comparison with NaN tells the browser's
\* sort that two rows are alike, which it may take to anything.
Orders(t) ==
  CASE t.sorting = << >> \/ Throws(t) -> {t.order}
    [] t.sorting # << >> /\ ~Throws(t) /\ NoNumber(t) -> SetToSeqs(ToSet(t.order))
    [] OTHER -> {SortSeq(t.order, LAMBDA a, b : Before(t, a, b))}

-----------------------------------------------------------------------------
Table == [columns |-> aoColumns, data |-> aoData, order |-> order, sorting |-> aaSorting]

\* A cell is written as it is read.
Stored(made, stored, c) ==
  [made EXCEPT !.data = stored.data, !.threw = stored.threw,
               !.wrote = IF stored.threw THEN @ ELSE @ \cup {c},
               !.broke = IF stored.threw THEN {c} ELSE @]

Written(made, col, c, v) ==
  IF v = Thrown THEN [made EXCEPT !.threw = TRUE]
  ELSE Stored(made, SetData(col, made.data, v), c)

WriteBack(made, col, c) == Written(made, col, c, GetCellData(col, made.data, "raw"))

Unwritten(supplied) == [data |-> supplied, threw |-> FALSE, wrote |-> {}, broke |-> {}]

\* The loop of _fnAddData over the cells, which ends when one throws.
CellsAdded(t, supplied) ==
  LET Told(back, col, c, v) ==
        [back EXCEPT !.threw = col.autoType /\ col.sType # "string" /\ v = Thrown,
                     !.columns[c].sType = TypeWith(col, v)]
      Look(back, col, c) ==
        IF back.threw THEN back ELSE Told(back, col, c, GetCellData(col, back.data, "type"))
      Loop(made, c) ==
        LET col == made.columns[c]
        IN IF made.threw THEN made ELSE Look(WriteBack(made, col, c), col, c)
  IN FoldLeftDomain(Loop, Unwritten(supplied) @@ [columns |-> t.columns], t.columns)

\* The first cell of which there is nothing to display: _fnCreateTr ends
\* there, and the row has no td elements from this one on.
Torn(columns, data) ==
  LET none == {c \in DOMAIN columns : GetCellData(columns[c], data, "display") = Thrown}
  IN IF none = {} THEN 0 ELSE Min(none)

\* _fnAddData: a row whose cells threw is in aoData and not in the order.
AddRow(t, made, torn) ==
  [t EXCEPT !.columns = made.columns,
            !.data = Append(@, [aData |-> made.data, torn |-> torn]),
            !.order = IF made.threw THEN @ ELSE Append(@, Len(t.data) + 1)]

\* _fnReDraw sorts again, when asked for.
Redrawn(t, redraw) ==
  /\ aoColumns' = t.columns
  /\ aoData' = t.data
  /\ aaSorting' = t.sorting
  /\ order' \in IF redraw THEN Orders(t) ELSE {t.order}
  /\ formerly' = IF redraw /\ t.sorting # << >> /\ ~Throws(t) THEN t.order ELSE << >>

CellsInit ==
  /\ aoColumns \in CellTables
  /\ aoData = << >> /\ order = << >>
  /\ aaSorting = << [column |-> 1, direction |-> "asc"] >>
  /\ updates = 0 /\ given = << >> /\ detected = << >> /\ formerly = << >>

Names(c) == [i \in DOMAIN aoColumns[c].mData |-> aoColumns[c].mData[i].name]

\* One path is the beginning of the other.
Overlap(c, d) ==
  /\ Names(c) # << >> /\ Names(d) # << >>
  /\ IsPrefix(Names(c), Names(d)) \/ IsPrefix(Names(d), Names(c))

\* Both paths lead through an array that writing the first makes anew.
Rebuilds(c, d) ==
  /\ ~Overlap(c, d)
  /\ \E k \in 1 .. Len(Names(c)) - 1 :
       /\ aoColumns[c].mData[k].each /\ k < Len(Names(d))
       /\ SubSeq(Names(c), 1, k) = SubSeq(Names(d), 1, k)

\* What has become of a cell when others were written and one broke.
Fate(wrote, broke, c) ==
  IF \/ \E d \in broke : d = c \/ Overlap(d, c) \/ Rebuilds(d, c)
     \/ \E d \in wrote \ {c} : Overlap(d, c)
  THEN "open"
  ELSE IF \E d \in wrote \ {c} : Rebuilds(d, c) THEN "lost" ELSE "kept"

\* A row that is given as a whole.
RowGiven(supplied, made) ==
  [c \in DOMAIN aoColumns |->
     [val |-> GetCellData(aoColumns[c], supplied, "raw"), fate |-> Fate(made.wrote, made.broke, c)]]

\* fnAddData of one row: no redraw when it throws.
AddData ==
  /\ Len(aoData) < MaxCellRows
  /\ \E supplied \in NewRows(aoColumns), redraw \in BOOLEAN :
     \E made \in {CellsAdded(Table, supplied)} :
     \E torn \in {IF made.threw THEN 0 ELSE Torn(made.columns, made.data)} :
       /\ Redrawn(AddRow(Table, made, torn), redraw /\ ~made.threw /\ torn = 0)
       /\ given' = Append(given, RowGiven(supplied, made))
       /\ detected' = Append(detected, {c \in made.wrote : Fate(made.wrote, {}, c) = "kept"})
  /\ UNCHANGED updates

\* After a cell was set its td element, if there is one, is filled, and all
\* cells of the row are read for the search.
UpdateThrows(row, c, data) ==
  \/ aoData[row].torn # 0 /\ c >= aoData[row].torn
  \/ \E d \in DOMAIN aoColumns : GetCellData(aoColumns[d], data, "filter") = Thrown

\* fnUpdate of a cell.
UpdateDatum ==
  /\ updates < MaxUpdates
  /\ \E row \in DOMAIN aoData, c \in DOMAIN aoColumns, redraw \in BOOLEAN :
     \E val \in NewData(aoColumns[c]) :
       LET col == aoColumns[c]
           stored == SetData(col, aoData[row].aData, val)
           wrote == IF stored.threw THEN {} ELSE {c}
           fate == [d \in DOMAIN aoColumns |-> Fate(wrote, {c} \ wrote, d)]
           Given(d) ==
             IF d \in wrote
             THEN [val |-> IF val = Null \/ col.mData = << >> THEN col.sDefaultContent ELSE val,
                   fate |-> "kept"]
             ELSE [given[row][d] EXCEPT !.fate = IF fate[d] = "kept" THEN @ ELSE fate[d]]
       IN /\ Redrawn([Table EXCEPT !.data[row].aData = stored.data],
                     redraw /\ ~stored.threw /\ ~UpdateThrows(row, c, stored.data))
          /\ given' = [given EXCEPT ![row] = [d \in DOMAIN aoColumns |-> Given(d)]]
          /\ detected' = [detected EXCEPT ![row] = {d \in @ : d # c /\ fate[d] = "kept"}]
  /\ updates' = updates + 1

\* fnUpdate of a row: its own copy of an object, each cell written as it reads.
UpdateRow ==
  /\ updates < MaxUpdates
  /\ \E row \in DOMAIN aoData, supplied \in NewRows(aoColumns), redraw \in BOOLEAN :
       LET Cell(back, c) == [back EXCEPT !.threw = @ \/ UpdateThrows(row, c, back.data)]
           Loop(made, c) ==
             IF made.threw THEN made ELSE Cell(WriteBack(made, aoColumns[c], c), c)
       IN \E made \in {FoldLeftDomain(Loop, Unwritten(supplied), aoColumns)} :
          /\ Redrawn([Table EXCEPT !.data[row].aData = made.data], redraw /\ ~made.threw)
          /\ given' = [given EXCEPT ![row] = RowGiven(supplied, made)]
          /\ detected' = [detected EXCEPT ![row] = {}]
  /\ updates' = updates + 1

\* fnSort
SortTable ==
  /\ \E sorting \in Sortings : Redrawn([Table EXCEPT !.sorting = sorting], TRUE)
  /\ UNCHANGED <<updates, given, detected>>

\* fnClearTable: the types stay.
ClearTable ==
  /\ aoData # << >>
  /\ aoData' = << >> /\ order' = << >>
  /\ given' = << >> /\ detected' = << >> /\ formerly' = << >>
  /\ UNCHANGED <<aoColumns, aaSorting, updates>>

CellsNext == AddData \/ UpdateDatum \/ UpdateRow \/ SortTable \/ ClearTable

-----------------------------------------------------------------------------

Filled(v) == v # Null /\ ~(v.is = "string" /\ v.blank)

(* After a sort rows are in the order of the cells of the columns sorted   *)
(* by, whatever was added when: the type of a column suits all its cells,  *)
(* so that none is without a place, and rows that are alike keep the order *)
(* they had.  Only cells that were set or lost after their row was added   *)
(* are not looked at for the type, and may leave any order.                *)
SortedByType ==
  LET columns == {Compared(Table)[i].column : i \in DOMAIN Compared(Table)}
  IN formerly # << >> /\ (\A row \in ToSet(order) : columns \subseteq detected[row]) =>
       /\ \A c \in columns : \A row \in ToSet(order) :
            LET v == SortDatum(Table, row, c)
            IN Filled(v) => SortType(Table, c) \in {DetectType(v), "html", "string"}
       /\ \A i, j \in DOMAIN order :
            i < j => ~Before([Table EXCEPT !.order = formerly], order[j], order[i])
=============================================================================
