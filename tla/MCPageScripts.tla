---------------------------- MODULE MCPageScripts ---------------------------
EXTENDS PageScripts

CONSTANTS e1, e2, t1, t2, t3

MCItems == 0 .. 2
MCElements == {e1, e2}
MCTabs == {t1, t2, t3}
MCInMenu == {t2, t3}

\* Items of a typeahead, letter by letter, and what is typed.
MCSource == << <<"B", "a">>, <<"A", "b">>, <<"b", "A">> >>
MCValues == {<< >>, <<"a">>, <<"b">>, <<"a", "b">>, <<"b", "b">>}

\* Three sections in two orders, evenly and with two that begin together,
\* and a page that ends before its last section is reached.
MCLayouts ==
  {[tops |-> <<1, 3, 5>>, maxScroll |-> 6], [tops |-> <<4, 2, 2>>, maxScroll |-> 6],
   [tops |-> <<0, 2, 5>>, maxScroll |-> 4], [tops |-> <<0, 0, 3>>, maxScroll |-> 5]}

MCLowered(s) ==
  [i \in DOMAIN s |-> CASE s[i] = "A" -> "a" [] s[i] = "B" -> "b" [] OTHER -> s[i]]

MCHasText(query, item) ==
  \E from \in 1 .. Len(item) + 1 : IsPrefix(query, SubSeq(item, from, Len(item)))
-----------------------------------------------------------------------------
\* Headers of three columns: in one row, and under cells that span columns
\* and beside cells that span rows.
Th(cell, rowspan, colspan) == [cell |-> cell, rowspan |-> rowspan, colspan |-> colspan]
OneRow == << <<Th("a", 1, 1), Th("b", 1, 1), Th("c", 1, 1)>> >>
GroupRight == << <<Th("a", 2, 1), Th("g", 1, 2)>>, <<Th("b", 1, 1), Th("c", 1, 1)>> >>
GroupLeft == << <<Th("g", 1, 2), Th("c", 2, 1)>>, <<Th("a", 1, 1), Th("b", 1, 1)>> >>

MCHasClass(cell, class) == cell = "b" /\ class = "num"

Index(n) == [by |-> "index", value |-> n]
AllColumns == [by |-> "all", value |-> 0]
Class(name) == [by |-> "class", value |-> name]

Plain ==
  [header |-> OneRow, bSortCellsTop |-> FALSE, bSort |-> TRUE, bSortClasses |-> TRUE,
   bDeferRender |-> FALSE, bStateSave |-> FALSE, aoColumnDefs |-> << >>,
   aoColumns |-> << << >>, << >>, << >> >>,
   aaSorting |-> << [column |-> 1, direction |-> "asc", at |-> 0] >>]

MCSortCalls == {<<1, "desc">>, <<3, "asc">>}

MCTableSettings ==
  {[Plain EXCEPT !.aoColumns = << << >>, [bSortable |-> FALSE], [asSorting |-> <<"asc">>]>>],
   [Plain EXCEPT !.bSort = FALSE, !.bStateSave = TRUE],
   [Plain EXCEPT !.header = GroupRight, !.bStateSave = TRUE, !.bSortCellsTop = TRUE,
      !.aoColumnDefs = << [aTargets |-> <<Index(-1)>>, options |-> [bVisible |-> FALSE]],
        [aTargets |-> <<AllColumns>>, options |-> [asSorting |-> <<"desc">>, bVisible |-> TRUE]] >>,
      !.aoColumns[2] = [bSortable |-> FALSE]],
   [Plain EXCEPT !.header = GroupLeft, !.bDeferRender = TRUE,
      !.aoColumnDefs = << [aTargets |-> <<Class("num"), Index(2)>>,
                           options |-> [bVisible |-> FALSE, asSorting |-> <<"asc">>]],
        [aTargets |-> <<Index(1)>>, options |-> [asSorting |-> <<"desc", "asc">>]] >>,
      !.aoColumns[1] = [asSorting |-> <<"desc", "asc">>]]}

-----------------------------------------------------------------------------
\* Data of cells: what the sort functions make of "", 10, 2, ..
Text(text, stripped, number, time, tags) ==
  [is |-> "string", text |-> text, stripped |-> stripped, number |-> number, time |-> time,
   numeric |-> number # NaN /\ text # 0, tags |-> tags, blank |-> text = 0]
Blank == Text(0, 0, 0, NaN, FALSE)
Ten == Text(1, 1, 10, NaN, FALSE)
Two == Text(2, 2, 2, NaN, FALSE)
Html == Text(3, 5, NaN, NaN, TRUE)
Word == Text(4, 4, NaN, NaN, FALSE)
Date == Text(6, 6, NaN, 7, FALSE)
List == Text(7, 7, NaN, NaN, FALSE)
Digit == [Two EXCEPT !.is = "number", !.text = 3, !.number = 3]
Obj(of) == [is |-> "object", of |-> of]

Name(name) == [name |-> name, each |-> FALSE, join |-> FALSE]
Each(name) == [Name(name) EXCEPT !.each = TRUE]
Join(name) == [Each(name) EXCEPT !.join = TRUE]

Column(c, mData) ==
  [mData |-> mData, mRender |-> << >>, sDefaultContent |-> Null, sType |-> "",
   autoType |-> TRUE, aDataSort |-> <<c>>]

PathN == <<Name("a"), Each("p"), Name("n")>>
PathX == <<Name("a"), Name("x")>>

\* A column of an array: what is used of it is its text.
Listing(c, mData) == [Column(c, mData) EXCEPT !.mRender = <<Join("")>>]

MCCellTables ==
  {<<Column(1, PathX),
     [Column(2, <<Name("a"), Name("y")>>) EXCEPT !.sDefaultContent = Word]>>,
   <<[Column(1, <<Name("p")>>) EXCEPT !.mRender = <<Join(""), Name("n")>>, !.aDataSort = <<2, 1>>],
     Column(2, <<Name("q")>>)>>,
   <<[Column(1, << >>) EXCEPT !.sDefaultContent = Blank, !.aDataSort = <<2>>],
     [Column(2, <<Each("p"), Name("n")>>) EXCEPT
        !.mRender = <<Join("")>>, !.sType = "string", !.autoType = FALSE]>>,
   <<Listing(1, <<Each("p"), Name("n")>>), Listing(2, <<Each("p"), Name("m")>>)>>,
   <<Listing(1, PathN), Column(2, <<Name("q")>>)>>}

Things(s) == ArrayOf([i \in DOMAIN s |-> Obj("n" :> s[i] @@ "m" :> Two)])

\* Rows whose cells are there, missing or null, and rows whose cells lie beyond
\* what is missing, null or a number.
MCNewRows(columns) ==
  LET all == Obj("a" :> Obj("x" :> Ten @@ "y" :> Two @@ "p" :> Things(<<Ten>>))
                   @@ "p" :> Things(<<Two, Word>>) @@ "q" :> Ten)
      none == Obj("q" :> Two)
      null == Obj("a" :> Null @@ "p" :> Null @@ "q" :> Digit)
  IN {all} \cup
     CASE columns[1].mData = PathX ->
            {null, Obj("a" :> Obj("x" :> Html @@ "y" :> Null)), Obj("a" :> Digit)}
       [] columns[1].mData = <<Name("p")>> ->
            {null, Obj("p" :> Things(<<Word>>) @@ "q" :> Two), Obj("p" :> Things(<< >>) @@ "q" :> Date)}
       [] OTHER ->
            {none, Obj("a" :> Obj("x" :> Two) @@ "p" :> Things(<< >>) @@ "q" :> Date)}
            \cup IF columns[1].mData = PathN THEN {null} ELSE {}

MCNewData(col) ==
  CASE col.mData = <<Name("p")>> -> {Things(<<Two>>)}
    [] \E k \in DOMAIN col.mData : col.mData[k].each -> {ArrayOf(<<Two, Word>>), Null}
    [] OTHER -> {Word, Ten}

MCJoined(s) ==
  CASE s = << >> -> Blank
    [] Len(s) = 1 -> IF s[1] = Undefined THEN Blank ELSE s[1]
    [] OTHER -> List

By(column, direction) == [column |-> column, direction |-> direction]
MCSortings == {<< >>, <<By(2, "desc")>>, <<By(1, "asc")>>, <<By(2, "asc"), By(1, "desc")>>}

-----------------------------------------------------------------------------
\* Two pages with a file of the same name, one above the other, and a third.
MCCookiePages ==
  {[path |-> <<"x">>, file |-> "f"],
   [path |-> <<"x", "y">>, file |-> "f"], [path |-> <<"x", "y">>, file |-> "g"]}

Other(name, path, size) == [name |-> <<name, "">>, path |-> path, time |-> 0, size |-> size]
MCForeign == {Other("csrftoken", << >>, 2), Other("sessionid", <<"x">>, 1)}
=============================================================================
